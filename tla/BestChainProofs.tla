-------------------------- MODULE BestChainProofs ---------------------------
(***************************************************************************)
(* The safety properties of BestChain for every tree of blocks, any number *)
(* of threads and of calls.  The argument is about the set of candidates:  *)
(* as long as no exception was made there is a floor, a valid block that   *)
(* has been active, such that every valid block that is not worse is a     *)
(* candidate (Complete).  The floor moves up with the tip, stays behind    *)
(* when a block is refused or ReprocessBlocks undoes blocks, and starts    *)
(* again at the tip with InvalidateBlock and a restart.  So what           *)
(* FindMostWorkChain chooses is the best valid block, and a thread that    *)
(* leaves ActivateBestChain leaves it as the tip, or another thread is     *)
(* still on its way (Going).                                               *)
(***************************************************************************)
EXTENDS BestChain, Sums, TLAPS

\* Unless a step names another prover.
USE Zenon

-----------------------------------------------------------------------------
(* The tree of blocks. *)

\* A chain is a finite sequence of blocks from the genesis block on.
LEMMA ChainIs ==
    ASSUME NEW b \in Block
    PROVE  Chain[b] = Ancestors[b] \cup {b} /\ b \notin Ancestors[b] /\ Ancestors[b] \subseteq Block
  BY BestChainAssumption DEF Chain

\* It ends in its block and starts in the genesis block.
LEMMA ChainFacts ==
    ASSUME NEW b \in Block
    PROVE  Chain[b] \subseteq Block /\ b \in Chain[b] /\ Genesis \in Chain[b]
<1>1. Chain[b] \subseteq Block /\ b \in Chain[b]
  BY ChainIs
<1>2. Genesis \in Chain[b]
  BY BestChainAssumption
<1> QED
  BY <1>1, <1>2

\* It is finite.
LEMMA ChainFinite ==
    ASSUME NEW b \in Block
    PROVE  IsFiniteSet(Chain[b])
<1>1. IsFiniteSet(Ancestors[b] \cup {b})
  <2>1. IsFiniteSet(Ancestors[b])
    BY BestChainAssumption
  <2> QED
    BY <2>1, FS_AddElement
<1> QED
  BY <1>1, ChainIs

\* Of two of its blocks one is before the other.
LEMMA ChainTotal ==
    ASSUME NEW b \in Block, NEW c \in Chain[b], NEW d \in Chain[b]
    PROVE  c \in Chain[d] \/ d \in Chain[c]
  BY BestChainAssumption

\* The chain of a block in it is a part of it.
LEMMA ChainDown ==
    ASSUME NEW b \in Block, NEW c \in Chain[b]
    PROVE  c \in Block /\ Chain[c] \subseteq Chain[b] /\ (b \in Chain[c] => b = c)
<1>1. CASE c = b
  BY <1>1
<1>2. CASE c # b
  <2>1. c \in Ancestors[b] /\ c \in Block
    BY <1>2, ChainIs
  <2>2. Chain[c] \subseteq Ancestors[b]
    BY <2>1, BestChainAssumption
  <2> QED
    BY <2>1, <2>2, ChainIs
<1> QED
  BY <1>1, <1>2

\* The last of blocks in one chain.
LEMMA HighestIn ==
    ASSUME NEW b \in Block, NEW B \in SUBSET Chain[b], B # {}
    PROVE  Highest(B) \in B /\ B \subseteq Chain[Highest(B)]
<1> DEFINE A == {T \in SUBSET B : T = {} \/ \E m \in T : T \subseteq Chain[m]}
<1>1. {} \in A
  OBVIOUS
<1>2. ASSUME NEW T \in SUBSET B, NEW x \in B, T \in A, x \notin T PROVE T \cup {x} \in A
  <2>1. x \in Block /\ x \in Chain[x]
    BY ChainFacts
  <2>2. CASE T = {}
    <3>1. x \in T \cup {x} /\ T \cup {x} \subseteq Chain[x] /\ T \cup {x} \in SUBSET B
      BY <2>1, <2>2
    <3> QED
      BY <3>1
  <2>3. CASE T # {}
    <3>1. PICK m \in T : T \subseteq Chain[m]
      BY <1>2, <2>3
    <3>2. m \in Block /\ (m \in Chain[x] \/ x \in Chain[m])
      BY ChainFacts, ChainTotal
    <3>3. CASE x \in Chain[m]
      BY <3>1, <3>3
    <3>4. CASE m \in Chain[x]
      <4>1. Chain[m] \subseteq Chain[x]
        BY <2>1, <3>4, ChainDown
      <4> QED
        BY <2>1, <3>1, <4>1
    <3> QED
      BY <3>2, <3>3, <3>4
  <2> QED
    BY <2>2, <2>3
<1>3. IsFiniteSet(B)
  BY ChainFinite, FS_Subset
<1>4. B \in A
  <2> HIDE DEF A
  <2> QED
    BY <1>1, <1>2, <1>3, SetInduction
<1> QED
  BY <1>4 DEF Highest

\* The first of blocks in one chain.
LEMMA LowestIn ==
    ASSUME NEW b \in Block, NEW B \in SUBSET Chain[b], B # {}
    PROVE  Lowest(B) \in B /\ \A c \in B : Lowest(B) \in Chain[c]
<1> DEFINE A == {T \in SUBSET B : T = {} \/ \E m \in T : \A c \in T : m \in Chain[c]}
<1>1. {} \in A
  OBVIOUS
<1>2. ASSUME NEW T \in SUBSET B, NEW x \in B, T \in A, x \notin T PROVE T \cup {x} \in A
  <2>1. x \in Block /\ x \in Chain[x]
    BY ChainFacts
  <2>2. CASE T = {}
    <3>1. T \cup {x} = {x} /\ {x} \subseteq Chain[x]
      BY <2>1, <2>2
    <3> QED
      BY <2>1, <3>1
  <2>3. CASE T # {}
    <3>1. PICK m \in T : \A c \in T : m \in Chain[c]
      BY <1>2, <2>3
    <3>2. m \in Block /\ (m \in Chain[x] \/ x \in Chain[m])
      BY ChainFacts, ChainTotal
    <3>3. CASE m \in Chain[x]
      BY <3>1, <3>3
    <3>4. CASE x \in Chain[m]
      <4>1. ASSUME NEW c \in T PROVE x \in Chain[c]
        <5>1. c \in Block /\ m \in Chain[c]
          BY <3>1, ChainFacts
        <5> QED
          BY <5>1, <3>4, ChainDown
      <4> QED
        BY <2>1, <4>1
    <3> QED
      BY <3>2, <3>3, <3>4
  <2> QED
    BY <2>2, <2>3
<1>3. IsFiniteSet(B)
  BY ChainFinite, FS_Subset
<1>4. B \in A
  <2> HIDE DEF A
  <2> QED
    BY <1>1, <1>2, <1>3, SetInduction
<1> QED
  BY <1>4 DEF Lowest

\* pprev: the chain without its last block.
LEMMA ParentFacts ==
    ASSUME NEW b \in Block, b # Genesis
    PROVE  Parent[b] \in Block /\ Chain[Parent[b]] = Chain[b] \ {b}
<1> DEFINE B == Chain[b] \ {b}
<1>1. B \in SUBSET Chain[b] /\ B \in SUBSET Block /\ Genesis \in B
  BY ChainFacts
<1>2. Parent[b] = Highest(B)
  BY DEF Parent
<1> HIDE DEF B
<1>3. Highest(B) \in B /\ B \subseteq Chain[Highest(B)]
  BY <1>1, HighestIn
<1>4. Highest(B) \in Ancestors[b] /\ Ancestors[b] = B
  BY <1>3, ChainIs DEF B
<1>5. Chain[Highest(B)] \subseteq Ancestors[b]
  BY <1>4, BestChainAssumption
<1> QED
  BY <1>1, <1>2, <1>3, <1>4, <1>5 DEF B

-----------------------------------------------------------------------------
(* The order of the candidates. *)

\* nChainWork is a sum of the module Sums.
LEMMA WorkIsSum ==
    ASSUME NEW b \in Block
    PROVE  Work[b] = SumOver(Proof, Chain[b])
  BY DEF Work, SumOver, FoldSet, MapThenSumSet, MapThenFoldSet

\* A block has more work than the blocks before it.
LEMMA WorkGrows ==
    ASSUME NEW b \in Block
    PROVE  Work[b] \in Nat /\ \A c \in Chain[b] : c # b => Work[c] < Work[b]
<1>1. Work[b] \in Nat
  <2>1. \A x \in Block : Proof[x] \in Nat
    BY SMT, BestChainAssumption
  <2>2. SumOver(Proof, Chain[b]) \in Nat
    BY <2>1, ChainFacts, ChainFinite, SumNat
  <2> QED
    BY <2>2, WorkIsSum
<1>2. ASSUME NEW c \in Chain[b], c # b PROVE Work[c] < Work[b]
  <2> DEFINE S == Chain[c]
             T == Chain[b] \ Chain[c]
  <2>1. c \in Block /\ Chain[b] = S \cup T /\ S \cap T = {} /\ b \in T
    BY <1>2, ChainDown, ChainFacts
  <2>2. IsFiniteSet(S) /\ IsFiniteSet(T) /\ S \subseteq Block /\ T \subseteq Block
    <3>1. IsFiniteSet(S) /\ IsFiniteSet(Chain[b]) /\ T \in SUBSET Chain[b]
      BY <2>1, ChainFinite
    <3>2. IsFiniteSet(T)
      BY <3>1, FS_Subset
    <3> QED
      BY <2>1, <3>1, <3>2, ChainFacts
  <2>3. Work[c] = SumOver(Proof, S) /\ Work[b] = SumOver(Proof, S \cup T)
    BY <2>1, WorkIsSum
  <2> HIDE DEF S, T
  <2>4. \A x \in Block : Proof[x] \in Nat
    BY SMT, BestChainAssumption
  <2>5. SumOver(Proof, S \cup T) = SumOver(Proof, S) + SumOver(Proof, T)
    BY <2>1, <2>2, <2>4, SumUnion
  <2>6. SumOver(Proof, S) \in Nat /\ SumOver(Proof, T) \in Nat
    BY <2>2, <2>4, SumNat
  <2>7. SumOver(Proof, T) = Proof[b] + SumOver(Proof, T \ {b})
    BY <2>1, <2>2, <2>4, SumOut
  <2>8. SumOver(Proof, T \ {b}) \in Nat
    BY <2>2, <2>4, SumNat, FS_Subset
  <2>9. Proof[b] \in Nat /\ Proof[b] # 0
    BY SMT, BestChainAssumption
  <2> QED
    BY SMT, <2>3, <2>5, <2>6, <2>7, <2>8, <2>9
<1> QED
  BY <1>1, <1>2

\* Index entries have different addresses.
LEMMA AddressFacts ==
    ASSUME NEW b \in Block
    PROVE  Address[b] \in Nat /\ \A c \in Block : Address[b] = Address[c] => b = c
<1>1. ASSUME NEW x \in Block PROVE Address[x] \in DOMAIN Memory /\ Memory[Address[x]] = x
  BY <1>1, BestChainAssumption DEF Address
<1>2. DOMAIN Memory \subseteq Nat
  BY SMT, BestChainAssumption
<1> QED
  BY <1>1, <1>2

\* CBlockIndexWorkComparator is a strict total order.
LEMMA WorseOrder ==
    ASSUME NEW s \in [Block -> Int]
    PROVE  /\ \A x, y \in Block : Worse(s, x, y) => ~Worse(s, y, x)
           /\ \A x, y \in Block : Worse(s, x, y) \/ Worse(s, y, x) \/ x = y
           /\ \A x, y, z \in Block : Worse(s, x, y) /\ Worse(s, y, z) => Worse(s, x, z)
<1>1. \A x \in Block : Work[x] \in Nat /\ Address[x] \in Nat /\ s[x] \in Int
  BY WorkGrows, AddressFacts
<1>2. \A x, y \in Block : Address[x] = Address[y] => x = y
  BY AddressFacts
<1> QED
  BY SMT, <1>1, <1>2 DEF Worse

\* So "not worse" is transitive.
LEMMA NotWorseTrans ==
    ASSUME NEW s \in [Block -> Int], NEW x \in Block, NEW y \in Block, NEW z \in Block,
           ~Worse(s, x, y), ~Worse(s, y, z)
    PROVE  ~Worse(s, x, z)
  BY WorseOrder

\* A block is not worse than the blocks before it.
LEMMA WorseBelow ==
    ASSUME NEW s \in [Block -> Int], NEW b \in Block, NEW c \in Chain[b]
    PROVE  ~Worse(s, b, c)
<1>1. c \in Block
  BY ChainFacts
<1>2. CASE b = c
  BY <1>2, WorseOrder
<1>3. CASE b # c
  BY SMT, <1>1, <1>3, WorkGrows DEF Worse
<1> QED
  BY <1>2, <1>3

\* Only the ids of the two blocks count.
LEMMA WorseSame ==
    ASSUME NEW s, NEW r, NEW x, NEW y, s[x] = r[x], s[y] = r[y]
    PROVE  Worse(s, x, y) <=> Worse(r, x, y)
  BY DEF Worse

-----------------------------------------------------------------------------
(* The inductive invariant. *)

\* Blocks are linked from their parents on; what waits has a parent that is not linked,
\* and a block is in neither set only behind a failed one.
LinkInv ==
    /\ Genesis \in linked /\ linked \subseteq data /\ data \subseteq Block /\ IsFiniteSet(data)
    /\ unlinked \subseteq data \ linked
    /\ \A b \in linked : Chain[b] \subseteq linked
    /\ \A c \in unlinked : Parent[c] \notin linked
    /\ "reconsider" \notin excuse => \A b \in data \ linked : b \in unlinked \/ Chain[b] \cap Failed # {}

\* A FAILED_CHILD mark has a cause.
MarkInv ==
    /\ child \subseteq Block
    /\ "reconsider" \notin excuse => \A b \in child : Chain[b] \cap invalid # {}

\* The types the other parts need; candidates, the tip and pindexMostWork are linked.
TypeInv ==
    /\ seq \in [Block -> Int] /\ nextSeq \in Int /\ precious \in [id : Int, work : Int]
    /\ candidates \subseteq linked /\ tip \in linked
    /\ thread \in [Thread -> {Idle, Null} \cup linked]

\* Unless a thread followed a stale pindexMostWork, the active chain is valid and no
\* candidate is worse than the tip.
TipInv ==
    /\ Chain[tip] \subseteq was
    /\ "stale" \notin excuse => /\ Chain[tip] \cap Failed = {}
                                /\ \A c \in candidates : ~Worse(seq, c, tip)

\* The valid block f has been active, and the valid blocks from it on are candidates.
Complete(f) ==
    /\ Valid(f) /\ Chain[f] \subseteq was
    /\ \A x \in Block : Valid(x) /\ ~Worse(seq, x, f) => x \in candidates

\* No valid block is better than the tip; a thread has yet to look or to move on.
Best == \A x \in Block : Valid(x) => ~Worse(seq, tip, x)
Going == \E u \in Thread : thread[u] \notin {Idle, tip}

\* With no exception: there is such a block, and the tip is the best valid one unless a
\* thread is on its way.
BestInv ==
    excuse = {} => /\ ~aborted
                   /\ \E f \in Block : Complete(f)
                   /\ Best \/ Going

Inv == LinkInv /\ MarkInv /\ TypeInv /\ TipInv /\ BestInv

-----------------------------------------------------------------------------
(* FindMostWorkChain and ActivateBestChainStep. *)

\* A finite set of blocks has a best one.
LEMMA BestExists ==
    ASSUME NEW s \in [Block -> Int], NEW U \in SUBSET Block, IsFiniteSet(U), U # {}
    PROVE  \E c \in U : \A d \in U \ {c} : Worse(s, d, c)
<1> DEFINE A == {T \in SUBSET U : T = {} \/ \E c \in T : \A d \in T \ {c} : Worse(s, d, c)}
<1>1. {} \in A
  OBVIOUS
<1>2. ASSUME NEW T \in SUBSET U, NEW x \in U, T \in A, x \notin T PROVE T \cup {x} \in A
  <2>1. CASE T = {}
    BY <2>1
  <2>2. CASE T # {}
    <3>1. PICK c \in T : \A d \in T \ {c} : Worse(s, d, c)
      BY <1>2, <2>2
    <3>2. c \in Block /\ x \in Block /\ x # c /\ (Worse(s, c, x) \/ Worse(s, x, c))
      BY <1>2, WorseOrder
    <3>3. CASE Worse(s, x, c)
      BY <3>1, <3>3
    <3>4. CASE Worse(s, c, x)
      <4>1. ASSUME NEW d \in T PROVE Worse(s, d, x)
        BY <3>1, <3>2, <3>4, WorseOrder
      <4> QED
        BY <4>1
    <3> QED
      BY <3>2, <3>3, <3>4
  <2> QED
    BY <2>1, <2>2
<1>3. U \in A
  <2> HIDE DEF A
  <2> QED
    BY <1>1, <1>2, SetInduction
<1> QED
  BY <1>3

\* The candidates FindMostWorkChain can choose from.
Usable == {c \in candidates : Branch(c) \cap Failed = {}}

\* What FindMostWorkChain finds, marks and erases.
LEMMA FoundFacts ==
    ASSUME LinkInv, TypeInv, NEW found, found = FindMostWorkChain
    PROVE  /\ found.most = Null => Usable = {}
           /\ found.most # Null => /\ found.most \in Usable
                                   /\ \A d \in Usable : d = found.most \/ Worse(seq, d, found.most)
           /\ \A m \in found.marked : m \in Block /\ \E l \in Chain[m] : l \in Failed /\ l \notin Chain[tip]
           /\ \A m \in found.erased : m \in found.marked \/ (m \in Failed /\ m \notin Chain[tip])
<1> DEFINE most == IF Usable = {} THEN Null
                   ELSE CHOOSE c \in Usable : \A d \in Usable \ {c} : Worse(seq, d, c)
           dropped == {c \in candidates \ Usable : most = Null \/ Worse(seq, most, c)}
           lastFailed(c) == Highest(Branch(c) \cap Failed)
           marked == UNION {Branch(c) \ Chain[lastFailed(c)] : c \in dropped}
           erased == marked \cup {lastFailed(c) : c \in dropped}
<1>1. found = [most |-> most, marked |-> marked, erased |-> erased]
  BY DEF FindMostWorkChain, Usable
<1>2. found.most = most /\ found.marked = marked /\ found.erased = erased
  <2> HIDE DEF most, marked, erased
  <2> QED
    BY SMT, <1>1
<1>3. candidates \subseteq Block /\ Usable \subseteq candidates
  BY DEF LinkInv, TypeInv, Usable
<1>4. IsFiniteSet(Usable)
  <2>1. Usable \in SUBSET data
    BY <1>3 DEF LinkInv, TypeInv
  <2> QED
    BY <2>1, FS_Subset DEF LinkInv
<1>5. Usable # {} => most \in Usable /\ \A d \in Usable \ {most} : Worse(seq, d, most)
  <2>1. ASSUME Usable # {} PROVE \E c \in Usable : \A d \in Usable \ {c} : Worse(seq, d, c)
    BY <1>3, <1>4, <2>1, BestExists DEF TypeInv
  <2> QED
    BY <2>1
<1>6. Null \notin Usable
  BY <1>3, BestChainAssumption
<1>7. ASSUME NEW c \in dropped
      PROVE  /\ lastFailed(c) \in Failed /\ lastFailed(c) \in Chain[c] /\ lastFailed(c) \notin Chain[tip]
             /\ lastFailed(c) \in Block
  <2> DEFINE B == Branch(c) \cap Failed
  <2>1. c \in Block /\ B \in SUBSET Chain[c] /\ B # {}
    BY <1>3 DEF Usable, Branch
  <2> HIDE DEF B
  <2>2. Highest(B) \in B
    BY <2>1, HighestIn
  <2>3. Chain[c] \subseteq Block
    BY <2>1, ChainFacts
  <2> QED
    BY <2>2, <2>3 DEF B, Branch
<1>8. ASSUME NEW m \in marked PROVE m \in Block /\ \E l \in Chain[m] : l \in Failed /\ l \notin Chain[tip]
  <2>1. PICK c \in dropped : m \in Branch(c) \ Chain[lastFailed(c)]
    OBVIOUS
  <2>2. c \in Block /\ m \in Chain[c]
    BY <1>3, <2>1 DEF Branch
  <2>3. lastFailed(c) \in Chain[c] /\ lastFailed(c) \in Failed /\ lastFailed(c) \notin Chain[tip]
    BY <1>7
  <2>4. m \in Block /\ lastFailed(c) \in Chain[m]
    BY <2>1, <2>2, <2>3, ChainFacts, ChainTotal
  <2> QED
    BY <2>3, <2>4
<1> HIDE DEF most, marked
<1>9. found.most = Null => Usable = {}
  BY <1>2, <1>5, <1>6
<1>10. found.most # Null => found.most \in Usable /\ \A d \in Usable : d = found.most \/ Worse(seq, d, found.most)
  BY <1>2, <1>5 DEF most
<1>11. \A m \in found.erased : m \in found.marked \/ (m \in Failed /\ m \notin Chain[tip])
  BY <1>2, <1>7
<1> QED
  BY <1>2, <1>8, <1>9, <1>10, <1>11

\* Where a step of ActivateBestChainStep ends.
LEMMA StepFacts ==
    ASSUME NEW most \in Block, NEW refused, tip \in Block,
           NEW step, step = ActivateBestChainStep(most, refused)
    PROVE  /\ step.tip \in Chain[most] /\ step.bad \subseteq Chain[most]
           /\ step.bad \cap Chain[step.tip] = {}
           /\ step.connected = FALSE => step.tip \in Chain[tip]
           /\ step.connected \in BOOLEAN
<1> DEFINE common == Chain[tip] \cap Chain[most]
           fork == Highest(common)
           path == Chain[most] \ Chain[fork]
           better == {b \in path : Work[b] > Work[tip]}
           goal == IF better = {} THEN most ELSE Lowest(better)
           stop == path \cap Chain[goal] \cap refused
           low == Lowest(stop)
<1>1. /\ stop = {} => step = [tip |-> goal, bad |-> {}, connected |-> TRUE]
      /\ stop # {} => step = [tip |-> Parent[low], bad |-> {low}, connected |-> Parent[low] # fork]
  BY DEF ActivateBestChainStep
<1>2. common \in SUBSET Chain[tip] /\ common # {}
  BY ChainFacts
<1>3. fork \in common
  <2> HIDE DEF common
  <2> QED
    BY <1>2, HighestIn
<1>4. fork \in Chain[tip] /\ fork \in Block
  BY <1>3, ChainFacts
<1>5. path \in SUBSET Chain[most] /\ Genesis \notin path
  BY <1>4, ChainFacts
<1>6. goal \in Chain[most]
  <2>1. better \in SUBSET Chain[most]
    BY <1>5
  <2> HIDE DEF better
  <2>2. better # {} => Lowest(better) \in Chain[most]
    BY <2>1, LowestIn
  <2> QED
    BY <2>2, ChainFacts
<1>7. CASE stop = {}
  <2>1. step.tip = goal /\ step.bad = {} /\ step.connected = TRUE
    <3> HIDE DEF goal, stop
    <3> QED
      BY SMT, <1>1, <1>7
  <2> QED
    BY <1>6, <2>1
<1>8. CASE stop # {}
  <2>1. stop \in SUBSET Chain[most] /\ Genesis \notin stop
    BY <1>5
  <2> HIDE DEF stop, fork
  <2>2. low \in Chain[most] /\ low # Genesis
    BY <1>8, <2>1, LowestIn
  <2> HIDE DEF low
  <2>3. low \in Block /\ Chain[low] \subseteq Chain[most]
    BY <2>2, ChainDown
  <2>4. Parent[low] \in Block /\ Chain[Parent[low]] = Chain[low] \ {low}
    BY <2>2, <2>3, ParentFacts
  <2>5. Parent[low] \in Chain[most] /\ low \notin Chain[Parent[low]]
    BY <2>3, <2>4, ChainFacts
  <2>6. step.tip = Parent[low] /\ step.bad = {low} /\ step.connected = (Parent[low] # fork)
    BY SMT, <1>1, <1>8
  <2> QED
    BY <1>4, <2>2, <2>5, <2>6
<1> QED
  BY <1>7, <1>8

-----------------------------------------------------------------------------
(* Blocks come in. *)

\* Where no block is linked, LinkInv needs only that no failure is forgotten.
LEMMA LinkKept ==
    ASSUME LinkInv, UNCHANGED <<linked, data, unlinked>>,
           "reconsider" \in excuse' \/ ("reconsider" \notin excuse /\ Failed \subseteq Failed')
    PROVE  LinkInv'
  BY DEF LinkInv

\* A thread enters, leaves or keeps its goal.
LEMMA ThreadKept ==
    ASSUME TypeInv, linked \subseteq linked', NEW t \in Thread, NEW v \in {Idle, Null} \cup linked',
           thread' = [thread EXCEPT ![t] = v]
    PROVE  thread' \in [Thread -> {Idle, Null} \cup linked'] /\ thread'[t] = v
<1>1. thread \in [Thread -> {Idle, Null} \cup linked']
  BY SMT DEF TypeInv
<1> QED
  BY <1>1

\* A thread that has yet to look for the best chain.
LEMMA NullGoing ==
    ASSUME NEW t \in Thread, thread'[t] = Null, tip' \in Block
    PROVE  Going'
  BY BestChainAssumption DEF Going

\* What is linked is a set of blocks.
LEMMA BlocksIn ==
    ASSUME LinkInv, TypeInv
    PROVE  /\ linked \subseteq Block /\ candidates \subseteq Block /\ tip \in Block /\ unlinked \subseteq Block
           /\ Chain[tip] \subseteq linked /\ seq \in [Block -> Int]
  BY DEF LinkInv, TypeInv

\* The blocks that ReceivedBlockTransactions links.
LEMMA WaitingFacts ==
    ASSUME LinkInv, NEW b \in Block, b \notin data, NEW c \in {b} \cup Waiting(b)
    PROVE  /\ c \in Block /\ c \in data \cup {b} /\ c \notin linked
           /\ b \in Chain[c] /\ Chain[c] \ Chain[b] \subseteq unlinked
<1>1. CASE c = b
  BY <1>1, ChainFacts DEF LinkInv
<1>2. CASE c \in Waiting(b)
  BY <1>2 DEF Waiting, LinkInv
<1> QED
  BY <1>1, <1>2

\* A block is linked with what waited for it, or waits: LinkInv is kept.
LEMMA ReceivedLinks ==
    ASSUME LinkInv, NEW b \in Block \ {Genesis}, b \notin data, ReceivedBlockTransactions(b),
           UNCHANGED <<invalid, child, excuse>>
    PROVE  LinkInv'
<1> DEFINE L == {b} \cup Waiting(b)
<1>1. data' = data \cup {b}
  BY DEF ReceivedBlockTransactions
<1>2. data' \subseteq Block /\ IsFiniteSet(data') /\ Failed' = Failed /\ b \notin linked
  <2>1. IsFiniteSet(data \cup {b})
    BY FS_AddElement DEF LinkInv
  <2> QED
    BY <1>1, <2>1 DEF LinkInv, Failed
<1>3. Parent[b] \in Block /\ Chain[Parent[b]] = Chain[b] \ {b}
  BY ParentFacts
<1>4. CASE Parent[b] \in linked
  <2>1. linked' = linked \cup L /\ unlinked' = unlinked \ L
    BY <1>4 DEF ReceivedBlockTransactions
  <2>2. Genesis \in linked' /\ linked' \subseteq data'
    BY <1>1, <2>1, WaitingFacts DEF LinkInv
  <2>3. unlinked' \subseteq data' \ linked'
    BY <1>1, <2>1 DEF LinkInv
  <2>4. ASSUME NEW c \in linked' PROVE Chain[c] \subseteq linked'
    <3>1. CASE c \in linked
      BY <2>1, <3>1 DEF LinkInv
    <3>2. CASE c \in L
      <4>1. c \in Block /\ b \in Chain[c] /\ Chain[c] \ Chain[b] \subseteq unlinked
        BY <3>2, WaitingFacts
      <4>2. ASSUME NEW d \in Chain[c] PROVE d \in linked'
        <5>1. CASE d \in Chain[b]
          BY <1>3, <1>4, <2>1, <5>1 DEF LinkInv
        <5>2. CASE d \notin Chain[b]
          <6>1. d \in unlinked /\ b \in Chain[d] /\ Chain[d] \subseteq Chain[c]
            BY <4>1, <5>2, ChainTotal, ChainDown
          <6>2. d \in Waiting(b)
            BY <4>1, <6>1 DEF Waiting
          <6> QED
            BY <2>1, <6>2
        <5> QED
          BY <5>1, <5>2
      <4> QED
        BY <4>2
    <3> QED
      BY <2>1, <3>1, <3>2
  <2>5. ASSUME NEW c \in unlinked', Parent[c] \in linked' PROVE FALSE
    <3>1. c \in unlinked /\ c \notin L /\ Parent[c] \notin linked /\ c \in Block /\ c # Genesis
      BY <2>1 DEF LinkInv
    <3>2. Parent[c] \in L
      BY <2>1, <2>5, <3>1
    <3>3. b \in Chain[Parent[c]] /\ Chain[Parent[c]] \ Chain[b] \subseteq unlinked
      BY <3>2, WaitingFacts
    <3>4. Chain[c] = Chain[Parent[c]] \cup {c}
      BY <3>1, ParentFacts, ChainFacts
    <3>5. c \in Waiting(b)
      BY <3>1, <3>3, <3>4 DEF Waiting
    <3> QED
      BY <3>1, <3>5
  <2>6. ASSUME "reconsider" \notin excuse', NEW c \in data' \ linked'
        PROVE  c \in unlinked' \/ Chain[c] \cap Failed' # {}
    <3>1. c \in data \ linked /\ c \notin L
      BY <1>1, <2>1, <2>6
    <3>2. c \in unlinked \/ Chain[c] \cap Failed # {}
      BY <2>6, <3>1 DEF LinkInv
    <3> QED
      BY <1>2, <2>1, <3>1, <3>2
  <2> HIDE DEF L
  <2> QED
    BY <1>2, <2>2, <2>3, <2>4, <2>5, <2>6 DEF LinkInv
<1>5. CASE Parent[b] \notin linked
  <2>1. linked' = linked /\ unlinked' = IF Parent[b] \in Failed THEN unlinked ELSE unlinked \cup {b}
    BY <1>5 DEF ReceivedBlockTransactions
  <2>2. unlinked \subseteq unlinked' /\ unlinked' \subseteq unlinked \cup {b}
        /\ (b \in unlinked' \/ Parent[b] \in Failed)
    BY <2>1
  <2>3. linked' \subseteq data' /\ unlinked' \subseteq data' \ linked' /\ Genesis \in linked'
    BY <1>1, <1>2, <2>1, <2>2 DEF LinkInv
  <2>4. \A c \in unlinked' : Parent[c] \notin linked'
    BY <1>5, <2>1, <2>2 DEF LinkInv
  <2>5. ASSUME "reconsider" \notin excuse', NEW c \in data' \ linked'
        PROVE  c \in unlinked' \/ Chain[c] \cap Failed' # {}
    <3>1. CASE c = b
      <4>1. Parent[b] \in Chain[b]
        BY <1>3, ChainFacts
      <4> QED
        BY <1>2, <2>2, <3>1, <4>1
    <3>2. CASE c # b
      <4>1. c \in unlinked \/ Chain[c] \cap Failed # {}
        BY <1>1, <2>1, <2>5, <3>2 DEF LinkInv
      <4> QED
        BY <1>2, <2>2, <4>1
    <3> QED
      BY <3>1, <3>2
  <2> QED
    BY <1>2, <2>1, <2>3, <2>4, <2>5 DEF LinkInv
<1> QED
  BY <1>4, <1>5

\* LoadBlockIndexDB computes again what is linked.
LEMMA RestartLinks ==
    ASSUME LinkInv, linked' = {b \in data : Chain[b] \subseteq data}, unlinked' = data \ linked',
           data' = data
    PROVE  LinkInv' /\ linked \subseteq linked'
<1>1. linked \subseteq linked'
  BY DEF LinkInv
<1>2. ASSUME NEW b \in linked' PROVE Chain[b] \subseteq linked'
  BY ChainDown DEF LinkInv
<1>3. ASSUME NEW c \in unlinked', Parent[c] \in linked' PROVE FALSE
  <2>1. c \in Block /\ c # Genesis /\ c \in data /\ c \notin linked'
    BY <1>1 DEF LinkInv
  <2>2. Chain[c] = Chain[Parent[c]] \cup {c}
    BY <2>1, ParentFacts, ChainFacts
  <2> QED
    BY <1>3, <2>1, <2>2
<1> QED
  BY <1>1, <1>2, <1>3 DEF LinkInv

\* The ids that ReceivedBlockTransactions gives are numbers, and only new blocks get one.
LEMMA ReceivedTypes ==
    ASSUME LinkInv, TypeInv, NEW b \in Block, b \notin data, Parent[b] \in linked,
           ReceivedBlockTransactions(b)
    PROVE  /\ seq' \in [Block -> Int] /\ nextSeq' \in Int
           /\ \A c \in Block \ ({b} \cup Waiting(b)) : seq'[c] = seq[c]
<1> DEFINE L == {b} \cup Waiting(b)
           ids == nextSeq..(nextSeq + Cardinality(L) - 1)
<1>1. Cardinality(L) \in Nat
  <2>1. IsFiniteSet(data \cup {b}) /\ L \in SUBSET (data \cup {b})
    BY FS_AddElement, WaitingFacts DEF LinkInv
  <2> QED
    BY <2>1, FS_Subset, FS_CardinalityType
<1>2. ids \subseteq Int /\ nextSeq + Cardinality(L) \in Int
  <2> HIDE DEF L
  <2> QED
    BY SMT, <1>1 DEF TypeInv
<1>3. nextSeq' = nextSeq + Cardinality(L)
      /\ \E f \in [L -> ids] : seq' = [c \in Block |-> IF c \in L THEN f[c] ELSE seq[c]]
  BY DEF ReceivedBlockTransactions
<1>4. PICK f \in [L -> ids] : seq' = [c \in Block |-> IF c \in L THEN f[c] ELSE seq[c]]
  BY <1>3
<1> HIDE DEF L, ids
<1>5. ASSUME NEW c \in Block PROVE (IF c \in L THEN f[c] ELSE seq[c]) \in Int
  BY <1>2 DEF TypeInv
<1>6. seq' \in [Block -> Int] /\ \A c \in Block \ L : seq'[c] = seq[c]
  BY <1>4, <1>5
<1> QED
  BY <1>2, <1>3, <1>6 DEF L

\* A block has come and is linked with what waited for it, or waits itself.
LEMMA ReceivedStep ==
    ASSUME Inv, NEW t \in Thread, NEW b \in Block \ {Genesis}, b \notin data,
           ReceivedBlockTransactions(b), thread' = [thread EXCEPT ![t] = Null],
           UNCHANGED <<invalid, child, tip, precious, aborted, was, excuse>>
    PROVE  Inv'
<1> DEFINE L == {b} \cup Waiting(b)
<1> USE DEF Inv
<1>1. LinkInv'
  BY ReceivedLinks
<1>2. MarkInv' /\ Failed' = Failed
  BY DEF MarkInv, Failed
<1>3. linked \subseteq linked'
  BY DEF ReceivedBlockTransactions
<1>4. thread' \in [Thread -> {Idle, Null} \cup linked'] /\ thread'[t] = Null
  BY <1>3, ThreadKept
<1>5. Going'
  BY <1>4, BlocksIn, NullGoing
<1>6. CASE Parent[b] \notin linked
  <2>1. UNCHANGED <<linked, seq, nextSeq, candidates>>
    BY <1>6 DEF ReceivedBlockTransactions
  <2>2. TypeInv'
    BY <1>4, <2>1 DEF TypeInv
  <2>3. TipInv'
    BY <1>2, <2>1 DEF TipInv
  <2>4. BestInv'
    BY <1>2, <1>5, <2>1 DEF BestInv, Complete, Valid
  <2> QED
    BY <1>1, <1>2, <2>2, <2>3, <2>4
<1>7. CASE Parent[b] \in linked
  <2>1. linked' = linked \cup L /\ candidates' = candidates \cup Prune(seq', L, tip)
    BY <1>7 DEF ReceivedBlockTransactions
  <2>2. seq' \in [Block -> Int] /\ nextSeq' \in Int /\ \A c \in Block \ L : seq'[c] = seq[c]
    BY <1>7, ReceivedTypes
  <2>3. \A c \in L : c \in Block /\ c \notin linked
    BY WaitingFacts
  <2> HIDE DEF L
  <2>4. TypeInv'
    BY <1>4, <2>1, <2>2 DEF TypeInv, Prune
  <2>5. \A x \in linked : x \in Block /\ seq'[x] = seq[x]
    BY <2>2, <2>3, BlocksIn
  <2>6. \A x, y \in linked : Worse(seq', x, y) <=> Worse(seq, x, y)
    BY <2>5, WorseSame
  <2>7. TipInv'
    <3>1. ASSUME "stale" \notin excuse, NEW c \in candidates' PROVE ~Worse(seq', c, tip)
      <4>1. CASE c \in candidates
        BY <2>6, <3>1, <4>1 DEF TipInv, TypeInv
      <4>2. CASE c \in Prune(seq', L, tip)
        BY <4>2 DEF Prune
      <4> QED
        BY <2>1, <4>1, <4>2
    <3> QED
      BY <1>2, <3>1 DEF TipInv
  <2>8. BestInv'
    <3> SUFFICES ASSUME excuse = {} PROVE \E f \in Block : Complete(f)'
      BY <1>5 DEF BestInv
    <3>1. PICK f \in Block : Complete(f)
      BY DEF BestInv
    <3>2. f \in linked /\ Valid(f)' /\ (Chain[f] \subseteq was)'
      BY <1>2, <1>3, <3>1 DEF Complete, Valid
    <3>3. f \in candidates
      BY <3>1, WorseOrder DEF Complete, TypeInv
    <3>4. ~Worse(seq', f, tip)
      BY <2>6, <3>2, <3>3 DEF TipInv, TypeInv
    <3>5. ASSUME NEW x \in Block, Valid(x)', ~Worse(seq', x, f) PROVE x \in candidates'
      <4>1. CASE x \in L
        <5>1. ~Worse(seq', x, tip)
          BY <2>2, <3>4, <3>5, NotWorseTrans, BlocksIn
        <5> QED
          BY <2>1, <4>1, <5>1 DEF Prune
      <4>2. CASE x \notin L
        <5>1. x \in linked /\ Valid(x)
          BY <1>2, <2>1, <3>5, <4>2 DEF Valid
        <5>2. ~Worse(seq, x, f)
          BY <2>6, <3>2, <3>5, <5>1
        <5> QED
          BY <2>1, <3>1, <5>1, <5>2 DEF Complete
      <4> QED
        BY <4>1, <4>2
    <3> QED
      BY <3>2, <3>5 DEF Complete
  <2> QED
    BY <1>1, <1>2, <2>4, <2>7, <2>8
<1> QED
  BY <1>6, <1>7

\* A malformed block is marked; it has no data, so no linked block is after it.
LEMMA MalformedStep ==
    ASSUME Inv, NEW b \in Block, b \notin data, invalid' = invalid \cup {b},
           UNCHANGED <<data, linked, seq, nextSeq, unlinked, candidates, thread, child, tip, precious,
                       aborted, was, excuse>>
    PROVE  Inv'
<1> USE DEF Inv
<1>1. Failed' = Failed \cup {b}
  BY DEF Failed
<1>2. LinkInv'
  BY <1>1, LinkKept DEF LinkInv
<1>3. MarkInv' /\ TypeInv'
  BY DEF MarkInv, TypeInv
<1>4. \A x \in linked : b \notin Chain[x]
  BY DEF LinkInv
<1>5. \A x : Valid(x)' <=> Valid(x)
  BY <1>1, <1>4 DEF Valid
<1>6. TipInv'
  BY <1>1, <1>4 DEF TipInv, TypeInv
<1>7. BestInv'
  BY <1>5 DEF BestInv, Complete, Best, Going
<1> QED
  BY <1>2, <1>3, <1>6, <1>7

\* Nothing but the thread has changed.
LEMMA UnwantedStep ==
    ASSUME Inv, NEW t \in Thread, thread' = [thread EXCEPT ![t] = Null],
           UNCHANGED <<data, linked, seq, nextSeq, unlinked, candidates, invalid, child, tip, precious,
                       aborted, was, excuse>>
    PROVE  Inv'
<1> USE DEF Inv
<1>1. thread' \in [Thread -> {Idle, Null} \cup linked'] /\ thread'[t] = Null
  BY ThreadKept
<1>2. Going'
  BY <1>1, BlocksIn, NullGoing
<1>3. LinkInv' /\ MarkInv' /\ TypeInv' /\ TipInv'
  BY <1>1 DEF LinkInv, MarkInv, TypeInv, TipInv, Failed
<1>4. BestInv'
  BY <1>2 DEF BestInv, Complete, Valid, Failed
<1> QED
  BY <1>3, <1>4

\* ProcessNewBlock keeps the invariant, and so does AcceptBlockHeader.
LEMMA ProcessStep ==
    ASSUME Inv, NEW t \in Thread, NEW b \in Block \ {Genesis}, NEW fRequested \in BOOLEAN,
           ProcessNewBlock(t, b, fRequested)
    PROVE  Inv'
<1> DEFINE unwanted == b \in data \/ (~fRequested /\ Work[b] <= Work[tip])
<1>1. UNCHANGED <<child, tip, holder, precious, rejected, calls, aborted, turn, was, excuse>>
  BY DEF ProcessNewBlock, rest
<1>2. CASE unwanted
  BY <1>1, <1>2, UnwantedStep DEF ProcessNewBlock
<1>3. CASE ~unwanted /\ b \in Malformed
  BY <1>1, <1>3, MalformedStep DEF ProcessNewBlock
<1>4. CASE ~unwanted /\ b \notin Malformed
  BY <1>1, <1>4, ReceivedStep DEF ProcessNewBlock
<1> QED
  BY <1>2, <1>3, <1>4

LEMMA HeaderStep ==
    ASSUME Inv, NEW t \in Thread, NEW b \in Block \ {Genesis}, AcceptBlockHeader(t, b)
    PROVE  Inv'
<1>1. UNCHANGED <<data, linked, seq, nextSeq, unlinked, invalid, child, candidates, tip, thread, precious,
                  aborted, was, excuse>>
  BY DEF AcceptBlockHeader, rest
<1> QED
  BY <1>1 DEF Inv, LinkInv, MarkInv, TypeInv, TipInv, BestInv, Complete, Valid, Best, Going, Failed

-----------------------------------------------------------------------------
(* ActivateBestChain. *)

\* With a complete set of candidates, the best of those FindMostWorkChain can choose from
\* is the best valid block.
LEMMA BestOfUsable ==
    ASSUME Inv, NEW f \in Block, Complete(f),
           NEW m \in Usable, \A d \in Usable : d = m \/ Worse(seq, d, m)
    PROVE  \A x \in Block : Valid(x) => ~Worse(seq, m, x)
<1>1. seq \in [Block -> Int] /\ m \in Block
  BY BlocksIn DEF Inv, Usable
<1>2. \A x \in Block : Valid(x) /\ ~Worse(seq, x, f) => x \in Usable
  BY DEF Complete, Valid, Usable, Branch
<1>3. f \in Usable
  BY <1>1, <1>2, WorseOrder DEF Complete
<1>4. ~Worse(seq, m, f)
  BY <1>1, <1>3, WorseOrder
<1>5. ASSUME NEW x \in Block, Valid(x), Worse(seq, m, x) PROVE FALSE
  <2>1. ~Worse(seq, x, f)
    BY <1>1, <1>4, <1>5, NotWorseTrans, WorseOrder
  <2>2. x \in Usable /\ (x = m \/ Worse(seq, x, m))
    BY <1>2, <1>5, <2>1
  <2> QED
    BY <1>1, <1>5, <2>2, WorseOrder
<1> QED
  BY <1>5

\* What FindMostWorkChain marks and erases lies behind a failed block outside the active
\* chain.
Behind(K, E) ==
    /\ \A m \in K : m \in Block /\ \E l \in Chain[m] : l \in Failed /\ l \notin Chain[tip]
    /\ \A m \in E : m \in K \/ (m \in Failed /\ m \notin Chain[tip])

\* Nothing of it is in the chain of a block whose branch has no failed one.
LEMMA BehindNotIn ==
    ASSUME NEW K, NEW E, Behind(K, E), NEW x \in Block, Branch(x) \cap Failed = {}
    PROVE  Chain[x] \cap K = {} /\ x \notin E
<1>1. ASSUME NEW m \in Chain[x] \cap K PROVE FALSE
  <2>1. PICK l \in Chain[m] : l \in Failed /\ l \notin Chain[tip]
    BY <1>1 DEF Behind
  <2>2. l \in Chain[x]
    BY <2>1, ChainDown
  <2> QED
    BY <2>1, <2>2 DEF Branch
<1> QED
  BY <1>1, ChainFacts DEF Behind, Branch

\* The new marks have the cause of the failed block before them.
LEMMA MarksKept ==
    ASSUME MarkInv, NEW K, NEW E, Behind(K, E), child' = child \cup K, invalid \subseteq invalid',
           excuse \subseteq excuse'
    PROVE  MarkInv'
<1>1. child' \subseteq Block
  BY DEF MarkInv, Behind
<1>2. ASSUME "reconsider" \notin excuse', NEW m \in child' PROVE Chain[m] \cap invalid' # {}
  <2>1. CASE m \in child
    BY <1>2, <2>1 DEF MarkInv
  <2>2. CASE m \in K
    <3>1. PICK l \in Chain[m] : l \in Failed
      BY <2>2 DEF Behind
    <3>2. m \in Block /\ l \in Block /\ Chain[l] \subseteq Chain[m] /\ l \in Chain[l]
      BY <2>2, ChainDown, ChainFacts DEF Behind
    <3>3. CASE l \in invalid
      BY <3>2, <3>3
    <3>4. CASE l \in child
      <4>1. Chain[l] \cap invalid # {}
        BY <1>2, <3>4 DEF MarkInv
      <4> QED
        BY <3>2, <4>1
    <3> QED
      BY <3>1, <3>3, <3>4 DEF Failed
  <2> QED
    BY <2>1, <2>2
<1> QED
  BY <1>1, <1>2 DEF MarkInv

\* A turn that ends the loop: the tip is what FindMostWorkChain found, or another thread
\* has brought it there.
LEMMA EndStep ==
    ASSUME Inv, NEW t \in Thread, NEW K, NEW E, Behind(K, E), child' = child \cup K, candidates' = candidates \ E,
           thread' = [thread EXCEPT ![t] = Idle],
           \/ K = {} /\ E = {} /\ thread[t] = tip
           \/ Usable = {}
           \/ tip \in Usable /\ \A d \in Usable : d = tip \/ Worse(seq, d, tip),
           UNCHANGED <<linked, data, unlinked, seq, nextSeq, precious, invalid, tip, aborted, was, excuse>>
    PROVE  Inv'
<1> USE DEF Inv
<1>1. Failed' = Failed \cup K /\ Failed \subseteq Failed'
  BY DEF Failed
<1>2. LinkInv'
  BY <1>1, LinkKept
<1>3. MarkInv'
  BY MarksKept
<1>4. thread' \in [Thread -> {Idle, Null} \cup linked'] /\ \A u \in Thread \ {t} : thread'[u] = thread[u]
  <2>1. thread' \in [Thread -> {Idle, Null} \cup linked']
    BY ThreadKept
  <2> QED
    BY <2>1 DEF TypeInv
<1>5. TypeInv'
  BY <1>4 DEF TypeInv
<1>6. ASSUME NEW x \in Block, Valid(x) PROVE Valid(x)' /\ x \notin E
  <2>1. Chain[x] \cap K = {} /\ x \notin E
    BY <1>6, BehindNotIn DEF Valid, Branch
  <2> QED
    BY <1>1, <1>6, <2>1 DEF Valid
<1>7. \A x : Valid(x)' => Valid(x)
  BY <1>1 DEF Valid
<1>8. TipInv'
  <2>1. tip \in Block /\ Chain[tip] \cap K = {}
    <3>1. tip \in Block /\ Branch(tip) \cap Failed = {}
      BY BlocksIn DEF Branch
    <3> QED
      BY <3>1, BehindNotIn
  <2> QED
    BY <1>1, <2>1 DEF TipInv
<1>9. BestInv'
  <2> SUFFICES ASSUME excuse = {} PROVE (\E f \in Block : Complete(f)') /\ (Best' \/ Going')
    BY DEF BestInv
  <2>1. PICK f \in Block : Complete(f)
    BY DEF BestInv
  <2>2. Complete(f)'
    BY <1>6, <1>7, <2>1 DEF Complete
  <2>3. CASE K = {} /\ E = {} /\ thread[t] = tip
    <3>1. CASE Best
      BY <1>7, <2>2, <3>1 DEF Best
    <3>2. CASE Going
      <4>1. PICK u \in Thread : thread[u] \notin {Idle, tip}
        BY <3>2 DEF Going
      <4>2. thread'[u] = thread[u]
        BY <1>4, <2>3, <4>1
      <4> QED
        BY <2>2, <4>1, <4>2 DEF Going
    <3> QED
      BY <2>2, <3>1, <3>2 DEF BestInv
  <2>4. CASE Usable = {}
    <3>1. f \in candidates
      BY <2>1, WorseOrder DEF Complete, TypeInv
    <3>2. f \in Usable
      BY <2>1, <3>1 DEF Usable, Complete, Valid, Branch
    <3> QED
      BY <2>4, <3>2
  <2>5. CASE tip \in Usable /\ \A d \in Usable : d = tip \/ Worse(seq, d, tip)
    <3>1. Best
      BY <2>1, <2>5, BestOfUsable DEF Best
    <3>2. Best'
      BY <1>7, <3>1 DEF Best
    <3> QED
      BY <2>2, <3>2
  <2> QED
    BY <2>3, <2>4, <2>5
<1> QED
  BY <1>2, <1>3, <1>5, <1>8, <1>9

\* A turn that moves the tip to new towards most, with the refused blocks in bad; P is
\* what is left of the candidates.
Move(t, K, E, most, new, bad, connected, P) ==
    /\ child' = child \cup K /\ Behind(K, E) /\ most \in linked
    /\ new \in Chain[most] /\ bad \subseteq Chain[most] /\ bad \cap Chain[new] = {}
    /\ connected \in BOOLEAN
    /\ connected = FALSE => new \in Chain[tip] /\ P = candidates \ E
    /\ connected = TRUE => P = Prune(seq, candidates \ E, new)
    /\ tip' = new /\ aborted' = (connected /\ P = {})
    /\ candidates' = P \ bad /\ invalid' = invalid \cup bad
    /\ thread' = [thread EXCEPT ![t] = IF bad # {} THEN Null ELSE IF new = most THEN Idle ELSE most]
    /\ was' = was \cup Chain[new] /\ excuse \subseteq excuse'
    /\ "stale" \notin excuse' => most \in Usable /\ \A d \in Usable : d = most \/ Worse(seq, d, most)
    /\ "turned" \notin excuse' => bad \cap was = {}
    /\ UNCHANGED <<linked, data, unlinked, seq, nextSeq, precious>>

\* Such a turn keeps the invariant: the floor stays, or the new tip becomes it.
LEMMA MoveStep ==
    ASSUME Inv, NEW t \in Thread, NEW K, NEW E, NEW most, NEW new, NEW bad, NEW connected, NEW P,
           Move(t, K, E, most, new, bad, connected, P)
    PROVE  Inv'
<1> USE DEF Inv
<1>0. /\ child' = child \cup K /\ Behind(K, E) /\ most \in linked
      /\ new \in Chain[most] /\ bad \subseteq Chain[most] /\ bad \cap Chain[new] = {}
      /\ connected \in BOOLEAN
      /\ connected = FALSE => new \in Chain[tip] /\ P = candidates \ E
      /\ connected = TRUE => P = Prune(seq, candidates \ E, new)
      /\ tip' = new /\ aborted' = (connected /\ P = {})
      /\ candidates' = P \ bad /\ invalid' = invalid \cup bad
      /\ was' = was \cup Chain[new] /\ excuse \subseteq excuse'
      /\ "stale" \notin excuse' => most \in Usable /\ \A d \in Usable : d = most \/ Worse(seq, d, most)
      /\ "turned" \notin excuse' => bad \cap was = {}
      /\ UNCHANGED <<linked, data, unlinked, seq, nextSeq, precious>>
  BY DEF Move
<1> USE <1>0
<1>1. Failed' = Failed \cup K \cup bad /\ Failed \subseteq Failed'
  BY DEF Failed
<1>2. most \in Block /\ new \in linked /\ new \in Block /\ tip \in Block /\ seq \in [Block -> Int]
      /\ candidates \subseteq linked /\ linked \subseteq Block
  BY BlocksIn DEF LinkInv, TypeInv
<1>3. LinkInv'
  BY <1>1, LinkKept
<1>4. MarkInv'
  BY MarksKept
<1>5. P \subseteq candidates \ E
  <2>1. CASE connected = TRUE
    BY <2>1 DEF Prune
  <2>2. CASE connected = FALSE
    BY <2>2
  <2> QED
    BY <2>1, <2>2
<1> DEFINE v == IF bad # {} THEN Null ELSE IF new = most THEN Idle ELSE most
<1>6. thread' \in [Thread -> {Idle, Null} \cup linked'] /\ thread'[t] = v
  <2>1. v \in {Idle, Null} \cup linked' /\ thread' = [thread EXCEPT ![t] = v] /\ linked \subseteq linked'
    BY DEF Move
  <2> HIDE DEF v
  <2> QED
    BY <2>1, ThreadKept
<1>7. TypeInv'
  BY <1>2, <1>5, <1>6 DEF TypeInv
<1>8. ASSUME "stale" \notin excuse' PROVE Chain[most] \cap (Failed \cup K) = {} /\ most \notin E
  <2>1. Branch(most) \cap Failed = {} /\ Chain[tip] \cap Failed = {}
    BY <1>8 DEF Usable, TipInv
  <2>2. Chain[most] \cap K = {} /\ most \notin E
    BY <1>2, <2>1, BehindNotIn
  <2> QED
    BY <2>1, <2>2 DEF Branch
<1>9. Chain[new] \subseteq Chain[most]
  BY <1>2, ChainDown
<1>10. TipInv'
  <2>1. Chain[tip'] \subseteq was'
    OBVIOUS
  <2>2. ASSUME "stale" \notin excuse' PROVE Chain[new] \cap Failed' = {}
    BY <1>1, <1>8, <1>9, <2>2
  <2>3. ASSUME "stale" \notin excuse', NEW c \in candidates' PROVE ~Worse(seq, c, new)
    <3>1. c \in P /\ c \in candidates
      BY <1>5
    <3>2. CASE connected = TRUE
      BY <3>1, <3>2 DEF Prune
    <3>3. CASE connected = FALSE
      <4>1. ~Worse(seq, c, tip)
        BY <2>3, <3>1 DEF TipInv
      <4>2. ~Worse(seq, tip, new)
        BY <1>2, <3>3, WorseBelow
      <4> QED
        BY <1>2, <3>1, <4>1, <4>2, NotWorseTrans
    <3> QED
      BY <3>2, <3>3
  <2> QED
    BY <2>1, <2>2, <2>3 DEF TipInv
<1>11. ASSUME excuse' = {} PROVE ~aborted' /\ (\E f \in Block : Complete(f)') /\ (Best' \/ Going')
  <2>1. excuse = {} /\ "stale" \notin excuse' /\ bad \cap was = {}
    BY <1>11
  <2>2. PICK f \in Block : Complete(f)
    BY <2>1 DEF BestInv
  <2>3. ~aborted'
    <3>1. most \in candidates \ E
      BY <1>8, <2>1 DEF Usable
    <3>2. ~Worse(seq, most, new)
      BY <1>2, WorseBelow
    <3>3. connected = TRUE => most \in P
      BY <3>1, <3>2 DEF Prune
    <3> QED
      BY <3>3
  <2>4. \A x : Valid(x)' => Valid(x)
    BY <1>1 DEF Valid
  <2>5. ASSUME NEW x \in Block, Valid(x)', x \in candidates, connected = TRUE => ~Worse(seq, x, new)
        PROVE  x \in candidates'
    <3>1. Valid(x) /\ x \notin bad
      BY <1>1, <2>4, <2>5, ChainFacts DEF Valid
    <3>2. x \notin E
      <4>1. Branch(x) \cap Failed = {}
        BY <3>1 DEF Valid, Branch
      <4> QED
        BY <4>1, BehindNotIn
    <3>3. x \in P
      <4>1. CASE connected = TRUE
        BY <2>5, <3>2, <4>1 DEF Prune
      <4>2. CASE connected = FALSE
        BY <2>5, <3>2, <4>2
      <4> QED
        BY <4>1, <4>2
    <3> QED
      BY <3>1, <3>3
  <2>6. \E g \in Block : Complete(g)'
    <3>1. CASE connected = TRUE /\ Worse(seq, f, new)
      <4>1. Valid(new)' /\ (Chain[new] \subseteq was)'
        BY <1>2, <1>10, <2>1 DEF Valid, TipInv
      <4>2. ASSUME NEW x \in Block, Valid(x)', ~Worse(seq, x, new) PROVE x \in candidates'
        <5>1. ~Worse(seq, x, f)
          BY <1>2, <3>1, <4>2, WorseOrder
        <5>2. x \in candidates
          BY <2>2, <2>4, <4>2, <5>1 DEF Complete
        <5> QED
          BY <2>5, <4>2, <5>2
      <4> QED
        BY <1>2, <4>1, <4>2 DEF Complete
    <3>2. CASE connected = TRUE => ~Worse(seq, f, new)
      <4>0. Branch(f) \cap Failed = {}
        BY <2>2 DEF Complete, Valid, Branch
      <4>1. Chain[f] \cap K = {}
        BY <4>0, BehindNotIn
      <4>2. Valid(f)' /\ (Chain[f] \subseteq was)'
        BY <1>1, <2>1, <2>2, <4>1 DEF Complete, Valid
      <4>3. ASSUME NEW x \in Block, Valid(x)', ~Worse(seq, x, f) PROVE x \in candidates'
        <5>1. x \in candidates
          BY <2>2, <2>4, <4>3 DEF Complete
        <5>2. connected = TRUE => ~Worse(seq, x, new)
          BY <1>2, <3>2, <4>3, NotWorseTrans
        <5> QED
          BY <2>5, <4>3, <5>1, <5>2
      <4> QED
        BY <4>2, <4>3 DEF Complete
    <3> QED
      BY <3>1, <3>2
  <2>7. Best' \/ Going'
    <3>1. CASE bad # {}
      BY <1>2, <1>6, <3>1, NullGoing
    <3>2. CASE bad = {} /\ new = most
      <4>1. \A x \in Block : Valid(x) => ~Worse(seq, most, x)
        BY <2>1, <2>2, BestOfUsable
      <4> QED
        BY <2>4, <3>2, <4>1 DEF Best
    <3>3. CASE bad = {} /\ new # most
      <4>1. thread'[t] = most /\ most \notin {Idle, tip'}
        BY <1>2, <1>6, <3>3, BestChainAssumption
      <4> QED
        BY <4>1 DEF Going
    <3> QED
      BY <3>1, <3>2, <3>3
  <2> QED
    BY <2>3, <2>6, <2>7
<1> QED
  BY <1>3, <1>4, <1>7, <1>10, <1>11 DEF BestInv

\* A turn of the loop.
LEMMA ActivateStep ==
    ASSUME Inv, NEW t \in Thread, ActivateBestChain(t)
    PROVE  Inv'
<1> DEFINE first == thread[t] = Null
           Most(found) == IF first THEN found.most ELSE thread[t]
           C(found) == IF first THEN candidates \ found.erased ELSE candidates
<1>1. PICK found \in {FindMostWorkChain} :
         /\ child' = IF first THEN child \cup found.marked ELSE child
         /\ \/ /\ Most(found) \in {Null, tip}
               /\ candidates' = C(found)
               /\ thread' = [thread EXCEPT ![t] = Idle]
               /\ UNCHANGED <<invalid, tip, rejected, aborted, was, excuse>>
            \/ /\ Most(found) \notin {Null, tip}
               /\ \E refused \in SUBSET Refusable :
                  \E step \in {ActivateBestChainStep(Most(found), refused)} :
                  LET P == IF step.connected THEN Prune(seq, C(found), step.tip) ELSE C(found)
                  IN  /\ tip' = step.tip
                      /\ aborted' = (step.connected /\ P = {})
                      /\ InvalidBlockFound(P, step.bad)
                      /\ rejected' = rejected \cup step.bad
                      /\ thread' = [thread EXCEPT ![t] = Onward(Most(found), step)]
                      /\ was' = was \cup Chain[step.tip]
                      /\ excuse' = excuse \cup (IF Most(found) = found.most THEN {} ELSE {"stale"})
                                       \cup (IF step.bad \cap was = {} THEN {} ELSE {"turned"})
  BY DEF ActivateBestChain
<1>2. UNCHANGED <<linked, data, unlinked, seq, nextSeq, precious>> /\ thread[t] # Idle
  BY DEF ActivateBestChain, index
<1> DEFINE K == IF first THEN found.marked ELSE {}
           E == IF first THEN found.erased ELSE {}
           most == Most(found)
<1>3. Behind(K, E)
  <2>1. Behind(found.marked, found.erased)
    BY FoundFacts DEF Behind, Inv
  <2>2. Behind({}, {})
    BY DEF Behind
  <2> QED
    BY <2>1, <2>2
<1>4. child' = child \cup K /\ C(found) = candidates \ E
  BY <1>1
<1>5. /\ found.most = Null => Usable = {}
      /\ found.most # Null => /\ found.most \in Usable
                              /\ \A d \in Usable : d = found.most \/ Worse(seq, d, found.most)
  BY FoundFacts DEF Inv
<1>6. CASE most \in {Null, tip}
  <2>1. candidates' = candidates \ E /\ thread' = [thread EXCEPT ![t] = Idle]
        /\ UNCHANGED <<invalid, tip, rejected, aborted, was, excuse>>
    BY <1>1, <1>4, <1>6
  <2>2. \/ K = {} /\ E = {} /\ thread[t] = tip
        \/ Usable = {}
        \/ tip \in Usable /\ \A d \in Usable : d = tip \/ Worse(seq, d, tip)
    <3>1. CASE first
      BY <1>5, <1>6, <3>1
    <3>2. CASE ~first
      BY <1>6, <3>2
    <3> QED
      BY <3>1, <3>2
  <2> HIDE DEF K, E
  <2> QED
    BY <1>2, <1>3, <1>4, <2>1, <2>2, EndStep
<1>7. CASE most \notin {Null, tip}
  <2> DEFINE P(step) == IF step.connected THEN Prune(seq, C(found), step.tip) ELSE C(found)
  <2>0. PICK refused \in SUBSET Refusable : \E step \in {ActivateBestChainStep(most, refused)} :
           /\ tip' = step.tip
           /\ aborted' = (step.connected /\ P(step) = {})
           /\ InvalidBlockFound(P(step), step.bad)
           /\ thread' = [thread EXCEPT ![t] = Onward(most, step)]
           /\ was' = was \cup Chain[step.tip]
           /\ excuse' = excuse \cup (IF most = found.most THEN {} ELSE {"stale"})
                            \cup (IF step.bad \cap was = {} THEN {} ELSE {"turned"})
    BY <1>1, <1>7
  <2>1. PICK step \in {ActivateBestChainStep(most, refused)} :
           /\ tip' = step.tip
           /\ aborted' = (step.connected /\ P(step) = {})
           /\ InvalidBlockFound(P(step), step.bad)
           /\ thread' = [thread EXCEPT ![t] = Onward(most, step)]
           /\ was' = was \cup Chain[step.tip]
           /\ excuse' = excuse \cup (IF most = found.most THEN {} ELSE {"stale"})
                            \cup (IF step.bad \cap was = {} THEN {} ELSE {"turned"})
    BY <2>0
  <2>2. most \in linked
    <3>1. CASE first
      BY <1>5, <1>7, <3>1 DEF Usable, Inv, TypeInv
    <3>2. CASE ~first
      <4>1. thread[t] \in {Idle, Null} \cup linked
        BY DEF Inv, TypeInv
      <4> QED
        BY <1>2, <3>2, <4>1
    <3> QED
      BY <3>1, <3>2
  <2>3. most # Null
    BY <1>7
  <2> HIDE DEF K, E, most, C
  <2>4. most \in Block /\ tip \in Block
    BY <2>2, BlocksIn DEF Inv
  <2>5. /\ step.tip \in Chain[most] /\ step.bad \subseteq Chain[most]
        /\ step.bad \cap Chain[step.tip] = {}
        /\ step.connected = FALSE => step.tip \in Chain[tip]
        /\ step.connected \in BOOLEAN
    BY <2>4, StepFacts
  <2>6. /\ step.connected = FALSE => P(step) = candidates \ E
        /\ step.connected = TRUE => P(step) = Prune(seq, candidates \ E, step.tip)
    BY <1>4
  <2>7. candidates' = P(step) \ step.bad /\ invalid' = invalid \cup step.bad
    BY <2>1 DEF InvalidBlockFound
  <2>8. thread' = [thread EXCEPT ![t] = IF step.bad # {} THEN Null ELSE IF step.tip = most THEN Idle ELSE most]
    BY <2>1 DEF Onward
  <2>9. excuse \subseteq excuse' /\ ("stale" \notin excuse' => most = found.most)
        /\ ("turned" \notin excuse' => step.bad \cap was = {})
    BY <2>1
  <2>10. "stale" \notin excuse' => most \in Usable /\ \A d \in Usable : d = most \/ Worse(seq, d, most)
    BY <1>5, <2>3, <2>9
  <2> DEFINE Q == P(step)
  <2>11. tip' = step.tip /\ aborted' = (step.connected /\ Q = {}) /\ was' = was \cup Chain[step.tip]
    BY <2>1
  <2>12. /\ step.connected = FALSE => step.tip \in Chain[tip] /\ Q = candidates \ E
         /\ step.connected = TRUE => Q = Prune(seq, candidates \ E, step.tip)
         /\ candidates' = Q \ step.bad
    BY <2>5, <2>6, <2>7
  <2> HIDE DEF Q, P
  <2>13. Move(t, K, E, most, step.tip, step.bad, step.connected, Q)
    BY <1>2, <1>3, <1>4, <2>2, <2>5, <2>7, <2>8, <2>9, <2>10, <2>11, <2>12 DEF Move
  <2> QED
    BY <2>13, MoveStep
<1> QED
  BY <1>6, <1>7

-----------------------------------------------------------------------------
(* The operator, the sporks and restarts. *)

\* What InvalidateBlock undoes: the tip goes back to before b, or stays where it is.
Undone(b) == IF b \in Chain[tip] THEN {c \in Chain[tip] : b \in Chain[c]} ELSE {}

LEMMA InvalidateTip ==
    ASSUME NEW b \in Block \ {Genesis}, tip \in Block,
           NEW new, Undone(b) = {} => new = tip, Undone(b) # {} => new = Parent[b]
    PROVE  new \in Chain[tip] /\ b \notin Chain[new] /\ Chain[new] \cap Undone(b) = {}
<1> DEFINE undone == Undone(b)
<1> USE DEF Undone
<1>1. CASE b \in Chain[tip]
  <2>1. tip \in undone /\ new = Parent[b]
    BY <1>1, ChainFacts
  <2>2. new \in Block /\ Chain[new] = Chain[b] \ {b} /\ Chain[b] \subseteq Chain[tip]
    BY <1>1, <2>1, ParentFacts, ChainDown
  <2>3. new \in Chain[tip]
    BY <2>2, ChainFacts
  <2>4. ASSUME NEW c \in Chain[new], c \in undone PROVE FALSE
    <3>1. c \in Chain[b] /\ c # b /\ b \in Chain[c]
      BY <1>1, <2>2, <2>4
    <3> QED
      BY <3>1, ChainDown
  <2> QED
    BY <2>2, <2>3, <2>4
<1>2. CASE b \notin Chain[tip]
  BY <1>2, ChainFacts
<1> QED
  BY <1>1, <1>2

\* InvalidateBlock puts back every valid block that is as good as the new tip, the floor
\* from now on.
LEMMA InvalidateStep ==
    ASSUME Inv, NEW t \in Thread, NEW b \in Block \ {Genesis}, InvalidateBlock(t, b)
    PROVE  Inv'
<1> USE DEF Inv
<1> DEFINE undone == Undone(b)
<1>1. /\ invalid' = invalid \cup {b} /\ child' = child \cup undone
      /\ tip' = IF undone = {} THEN tip ELSE Parent[b]
      /\ candidates' = (candidates \ ({b} \cup undone)) \cup Readded(tip', Failed')
      /\ thread' = [thread EXCEPT ![t] = Null]
      /\ UNCHANGED <<linked, data, unlinked, seq, nextSeq, precious, aborted, was, excuse>>
  BY DEF InvalidateBlock, index, Failed, Undone
<1>2. tip \in Block /\ seq \in [Block -> Int] /\ linked \subseteq Block /\ candidates \subseteq linked
      /\ Chain[tip] \subseteq linked
  BY BlocksIn DEF TypeInv
<1>3. \A c \in undone : c \in Block /\ b \in Chain[c]
  BY <1>2 DEF Undone
<1>4. tip' \in Chain[tip] /\ b \notin Chain[tip'] /\ Chain[tip'] \cap undone = {}
  <2>1. PICK new : (Undone(b) = {} => new = tip) /\ (Undone(b) # {} => new = Parent[b]) /\ tip' = new
    BY <1>1
  <2>2. new \in Chain[tip] /\ b \notin Chain[new] /\ Chain[new] \cap Undone(b) = {}
    BY <1>2, <2>1, InvalidateTip
  <2> QED
    BY <2>1, <2>2
<1> HIDE DEF undone
<1>5. tip' \in Block /\ tip' \in linked /\ Chain[tip'] \subseteq Chain[tip]
  BY <1>2, <1>4, ChainDown
<1>6. Failed' = Failed \cup undone \cup {b} /\ Failed \subseteq Failed'
  BY <1>1 DEF Failed
<1>7. LinkInv'
  BY <1>1, <1>6, LinkKept
<1>8. MarkInv'
  BY <1>1, <1>3 DEF MarkInv
<1>9. thread' \in [Thread -> {Idle, Null} \cup linked'] /\ thread'[t] = Null
  <2>1. linked \subseteq linked'
    BY <1>1
  <2> QED
    BY <1>1, <2>1, ThreadKept
<1>10. TypeInv'
  BY <1>1, <1>5, <1>9 DEF TypeInv, Readded
<1>11. TipInv'
  <2>1. ASSUME "stale" \notin excuse', NEW c \in candidates' PROVE ~Worse(seq', c, tip')
    <3>1. CASE c \in candidates
      <4>1. ~Worse(seq, c, tip)
        BY <1>1, <2>1, <3>1 DEF TipInv
      <4>2. ~Worse(seq, tip, tip')
        BY <1>2, <1>4, WorseBelow
      <4>3. c \in Block
        BY <1>2, <3>1
      <4> QED
        BY <1>1, <1>2, <1>5, <4>1, <4>2, <4>3, NotWorseTrans
    <3>2. CASE c \in Readded(tip', Failed')
      BY <1>1, <3>2 DEF Readded
    <3> QED
      BY <1>1, <3>1, <3>2
  <2>2. "stale" \notin excuse' => Chain[tip'] \cap Failed' = {}
    BY <1>1, <1>4, <1>5, <1>6 DEF TipInv
  <2>3. Chain[tip'] \subseteq was'
    BY <1>1, <1>5 DEF TipInv
  <2> QED
    BY <2>1, <2>2, <2>3 DEF TipInv
<1>12. BestInv'
  <2> SUFFICES ASSUME excuse' = {} PROVE ~aborted' /\ (\E f \in Block : Complete(f)') /\ Going'
    BY DEF BestInv
  <2>1. ~aborted'
    BY <1>1 DEF BestInv
  <2>2. Going'
    BY <1>5, <1>9, NullGoing
  <2>3. PICK f \in Block : f = tip'
    BY <1>5
  <2>4. Valid(f)' /\ (Chain[f] \subseteq was)'
    BY <1>1, <1>5, <1>11, <2>3 DEF Valid, TipInv
  <2>5. ASSUME NEW x \in Block, Valid(x)', ~Worse(seq', x, f) PROVE x \in candidates'
    <3>1. x \in linked /\ x \notin Failed'
      BY <1>1, <2>5, ChainFacts DEF Valid
    <3>2. x \in Readded(tip', Failed')
      BY <1>1, <2>3, <2>5, <3>1 DEF Readded
    <3> QED
      BY <1>1, <3>2
  <2> QED
    BY <2>1, <2>2, <2>4, <2>5 DEF Complete
<1> QED
  BY <1>7, <1>8, <1>10, <1>11, <1>12

\* ResetBlockFailureFlags takes flags away and adds candidates that are better than the tip.
LEMMA ResetFacts ==
    ASSUME NEW B, ResetBlockFailureFlags(B)
    PROVE  /\ Failed' \subseteq Failed /\ child' \subseteq child
           /\ candidates \subseteq candidates'
           /\ \A c \in candidates' : c \in candidates \/ (c \in linked /\ Worse(seq, tip, c))
           /\ B = {} => candidates' = candidates /\ invalid' = invalid /\ child' = child
<1>1. invalid' = invalid \ Reset(B) /\ child' = child \ Reset(B)
  BY DEF ResetBlockFailureFlags
<1>2. PICK cleared : candidates' = candidates \cup {c \in (linked \cap Failed) \ cleared :
                                            Worse(seq, tip, c) /\ \E b \in B : b \in Chain[c]}
  BY DEF ResetBlockFailureFlags
<1>3. Failed' \subseteq Failed /\ child' \subseteq child
  BY <1>1 DEF Failed
<1>4. /\ candidates \subseteq candidates'
      /\ \A c \in candidates' : c \in candidates \/ (c \in linked /\ Worse(seq, tip, c))
  BY <1>2
<1>5. ASSUME B = {} PROVE candidates' = candidates /\ invalid' = invalid /\ child' = child
  <2>1. Reset(B) = {}
    BY <1>5 DEF Reset
  <2>2. candidates' = candidates
    BY <1>2, <1>5
  <2> QED
    BY <1>1, <2>1, <2>2
<1> QED
  BY <1>3, <1>4, <1>5

\* Flags are cleared; the tip stays or goes back.
LEMMA ResetStep ==
    ASSUME Inv, NEW t \in Thread, NEW B, ResetBlockFailureFlags(B), tip' \in Chain[tip],
           thread' = [thread EXCEPT ![t] = Null],
           excuse' = IF B = {} THEN excuse ELSE excuse \cup {"reconsider"},
           UNCHANGED <<linked, data, unlinked, seq, nextSeq, precious, aborted, was>>
    PROVE  Inv'
<1> USE DEF Inv
<1>1. tip \in Block /\ seq \in [Block -> Int] /\ linked \subseteq Block /\ candidates \subseteq linked
      /\ Chain[tip] \subseteq linked
  BY BlocksIn DEF TypeInv
<1>2. tip' \in Block /\ tip' \in linked /\ Chain[tip'] \subseteq Chain[tip]
  BY <1>1, ChainDown
<1>3. /\ Failed' \subseteq Failed /\ child' \subseteq child
      /\ \A c \in candidates' : c \in candidates \/ (c \in linked /\ Worse(seq, tip, c))
      /\ B = {} => candidates' = candidates /\ invalid' = invalid /\ child' = child
  BY ResetFacts
<1>4. "reconsider" \in excuse' \/ (B = {} /\ excuse' = excuse)
  OBVIOUS
<1>5. LinkInv'
  <2>1. B = {} => Failed' = Failed
    BY <1>3 DEF Failed
  <2> QED
    BY <1>4, <2>1, LinkKept DEF LinkInv
<1>6. MarkInv'
  BY <1>3, <1>4 DEF MarkInv
<1>7. thread' \in [Thread -> {Idle, Null} \cup linked'] /\ thread'[t] = Null
  BY ThreadKept
<1>8. TypeInv'
  BY <1>2, <1>3, <1>7 DEF TypeInv
<1>9. TipInv'
  <2>1. ASSUME "stale" \notin excuse', NEW c \in candidates' PROVE ~Worse(seq', c, tip')
    <3>1. c \in Block /\ "stale" \notin excuse
      BY <1>1, <1>3, <2>1
    <3>2. ~Worse(seq, c, tip)
      BY <1>1, <1>3, <3>1, WorseOrder DEF TipInv
    <3>3. ~Worse(seq, tip, tip')
      BY <1>1, WorseBelow
    <3> QED
      BY <1>1, <1>2, <3>1, <3>2, <3>3, NotWorseTrans
  <2>2. "stale" \notin excuse' => Chain[tip'] \cap Failed' = {}
    BY <1>2, <1>3 DEF TipInv
  <2>3. Chain[tip'] \subseteq was'
    BY <1>2 DEF TipInv
  <2> QED
    BY <2>1, <2>2, <2>3 DEF TipInv
<1>10. BestInv'
  <2> SUFFICES ASSUME excuse' = {} PROVE ~aborted' /\ (\E f \in Block : Complete(f)') /\ Going'
    BY DEF BestInv
  <2>1. Going'
    BY <1>2, <1>7, NullGoing
  <2>2. excuse = {} /\ candidates' = candidates /\ Failed' = Failed
    BY <1>3, <1>4 DEF Failed
  <2> QED
    BY <2>1, <2>2 DEF BestInv, Complete, Valid
<1> QED
  BY <1>5, <1>6, <1>8, <1>9, <1>10

\* reconsiderblock and ReprocessBlocks keep the invariant.
LEMMA ReconsiderStep ==
    ASSUME Inv, NEW t \in Thread, NEW b \in Block \ {Genesis}, ReconsiderBlock(t, b)
    PROVE  Inv'
<1>1. ResetBlockFailureFlags({b}) /\ thread' = [thread EXCEPT ![t] = Null] /\ excuse' = excuse \cup {"reconsider"}
      /\ UNCHANGED <<linked, data, unlinked, seq, nextSeq, precious, aborted, was, tip>>
  BY DEF ReconsiderBlock, index
<1>2. tip' \in Chain[tip] /\ excuse' = IF {b} = {} THEN excuse ELSE excuse \cup {"reconsider"}
  BY <1>1, BlocksIn, ChainFacts DEF Inv
<1> QED
  BY <1>1, <1>2, ResetStep

LEMMA ReprocessStep ==
    ASSUME Inv, NEW t \in Thread, NEW recent, NEW b \in Block, ReprocessBlocks(t, recent, b)
    PROVE  Inv'
<1>1. ResetBlockFailureFlags(recent) /\ thread' = [thread EXCEPT ![t] = Null] /\ tip' \in Chain[tip]
      /\ excuse' = (IF recent = {} THEN excuse ELSE excuse \cup {"reconsider"})
      /\ UNCHANGED <<linked, data, unlinked, seq, nextSeq, precious, aborted, was>>
  BY DEF ReprocessBlocks, index
<1> QED
  BY <1>1, ResetStep

\* A block that gets a smaller id is worse than no block that it was not worse than.
LEMMA Promoted ==
    ASSUME NEW r \in [Block -> Int], NEW b \in Block, NEW id \in Int, ~(id > r[b]),
           NEW s, s = [r EXCEPT ![b] = id], NEW x \in Block, x # b, NEW y \in Block, ~Worse(s, x, y)
    PROVE  ~Worse(r, x, y)
<1>1. s[x] = r[x] /\ (y # b => s[y] = r[y]) /\ s[b] = id
  OBVIOUS
<1>2. CASE y # b
  BY <1>1, <1>2, WorseSame
<1>3. CASE y = b
  <2>1. Work[x] \in Int /\ Work[y] \in Int /\ r[x] \in Int /\ r[y] \in Int
    BY SMT, WorkGrows
  <2> QED
    BY SMT, <1>1, <1>3, <2>1 DEF Worse
<1> QED
  BY <1>2, <1>3

\* PreciousBlock keeps the invariant: if the tip has overtaken the floor, it is the floor
\* from now on.
LEMMA PreciousStep ==
    ASSUME Inv, NEW t \in Thread, NEW b \in Block \ {Genesis}, PreciousBlock(t, b)
    PROVE  Inv'
<1> USE DEF Inv
<1> DEFINE id == IF Work[tip] > precious.work THEN -1 ELSE precious.id
           s == [seq EXCEPT ![b] = id]
<1>1. thread' = [thread EXCEPT ![t] = Null]
      /\ UNCHANGED <<linked, data, unlinked, nextSeq, invalid, child, tip, was>>
  BY DEF PreciousBlock
<1>2. tip \in Block /\ seq \in [Block -> Int] /\ linked \subseteq Block /\ candidates \subseteq linked
      /\ tip \in linked /\ Failed' = Failed /\ Work[tip] \in Int /\ Work[b] \in Int
  <2>1. Work[tip] \in Int /\ Work[b] \in Int
    BY SMT, WorkGrows, BlocksIn
  <2> QED
    BY <1>1, <2>1, BlocksIn DEF TypeInv, Failed
<1>3. CASE Work[b] < Work[tip]
  <2>1. UNCHANGED <<seq, precious, candidates, aborted, excuse>>
    BY SMT, <1>2, <1>3 DEF PreciousBlock
  <2> QED
    BY <1>1, <2>1, UnwantedStep
<1>4. CASE ~(Work[b] < Work[tip])
  <2>1. /\ seq' = s /\ precious' = [id |-> id - 1, work |-> Work[tip]]
        /\ IF b \in linked \ Failed
           THEN /\ candidates' = Prune(s, candidates \cup {b}, tip)
                /\ aborted' = (candidates' = {})
           ELSE candidates' = candidates \ {b} /\ UNCHANGED aborted
        /\ excuse' = excuse \cup (IF id > seq[b] THEN {"demoted"} ELSE {})
    BY <1>4 DEF PreciousBlock
  <2>2. id \in Int /\ id - 1 \in Int
    BY SMT DEF TypeInv
  <2>3. s \in [Block -> Int] /\ \A x \in Block : x # b => s[x] = seq[x]
    <3> HIDE DEF id
    <3> QED
      BY <1>2, <2>2
  <2>4. precious' \in [id : Int, work : Int]
    <3> HIDE DEF id
    <3> QED
      BY SMT, <1>2, <2>1, <2>2
  <2>5. ASSUME "demoted" \notin excuse', NEW x \in Block, x # b, NEW y \in Block, ~Worse(s, x, y)
        PROVE  ~Worse(seq, x, y)
    <3>1. ~(id > seq[b]) /\ s = [seq EXCEPT ![b] = id]
      BY <2>1, <2>5
    <3> HIDE DEF id, s
    <3> QED
      BY <1>2, <2>2, <2>5, <3>1, Promoted
  <2> HIDE DEF id, s
  <2>6. LinkInv' /\ MarkInv'
    BY <1>1, <1>2, <2>1, LinkKept DEF MarkInv
  <2>7. linked \subseteq linked' /\ candidates' \subseteq linked' /\ excuse \subseteq excuse'
    BY <1>1, <1>2, <2>1 DEF Prune
  <2>8. thread' \in [Thread -> {Idle, Null} \cup linked'] /\ thread'[t] = Null
    BY <1>1, <2>7, ThreadKept
  <2>9. TypeInv'
    BY <1>1, <1>2, <2>1, <2>3, <2>4, <2>7, <2>8 DEF TypeInv
  <2>10. \A x, y \in Block : x # b /\ y # b => (Worse(s, x, y) <=> Worse(seq, x, y))
    BY <2>3, WorseSame
  <2>11. "stale" \notin excuse => tip \notin Failed
    BY <1>2, ChainFacts DEF TipInv
  <2>12. TipInv'
    <3>1. ASSUME "stale" \notin excuse', NEW c \in candidates' PROVE ~Worse(s, c, tip)
      <4>1. CASE b \in linked \ Failed
        BY <2>1, <4>1 DEF Prune
      <4>2. CASE b \notin linked \ Failed
        <5>1. c \in candidates /\ c # b /\ tip # b /\ "stale" \notin excuse
          BY <1>2, <2>1, <2>7, <2>11, <3>1, <4>2
        <5>2. ~Worse(seq, c, tip)
          BY <5>1 DEF TipInv
        <5> QED
          BY <1>2, <2>10, <5>1, <5>2
      <4> QED
        BY <4>1, <4>2
    <3>2. "stale" \notin excuse' => "stale" \notin excuse
      BY <2>7
    <3> QED
      BY <1>1, <1>2, <2>1, <3>1, <3>2 DEF TipInv
  <2>13. BestInv'
    <3> SUFFICES ASSUME excuse' = {} PROVE ~aborted' /\ (\E g \in Block : Complete(g)') /\ Going'
      BY DEF BestInv
    <3>1. Going'
      BY <1>1, <1>2, <2>8, NullGoing
    <3>2. excuse = {} /\ "demoted" \notin excuse' /\ ~aborted
      BY <2>7 DEF BestInv
    <3>3. PICK f \in Block : Complete(f)
      BY <3>2 DEF BestInv
    <3>4. \A x : Valid(x)' <=> Valid(x)
      BY <1>1, <1>2 DEF Valid
    <3>5. ASSUME NEW x \in Block, Valid(x), x # b, ~Worse(s, x, f) PROVE x \in candidates
      BY <2>5, <3>2, <3>3, <3>5 DEF Complete
    <3>6. \A x \in Block : Valid(x) => x \in linked \ Failed
      BY ChainFacts DEF Valid
    <3>7. CASE b \notin linked \ Failed
      <4>1. ASSUME NEW x \in Block, Valid(x)', ~Worse(s, x, f) PROVE x \in candidates'
        BY <2>1, <3>4, <3>5, <3>6, <3>7, <4>1
      <4>2. Complete(f)'
        BY <1>1, <2>1, <3>3, <3>4, <4>1 DEF Complete
      <4> QED
        BY <2>1, <3>1, <3>2, <3>7, <4>2
    <3>8. CASE b \in linked \ Failed
      <4>1. candidates' = Prune(s, candidates \cup {b}, tip) /\ aborted' = (candidates' = {})
        BY <2>1, <3>8
      <4>2. ASSUME NEW x \in Block, Valid(x), ~Worse(s, x, f), ~Worse(s, x, tip) PROVE x \in candidates'
        BY <3>5, <4>1, <4>2 DEF Prune
      <4>3. \E g \in Block : Complete(g)'
        <5>1. CASE Worse(s, f, tip)
          <6>1. Valid(tip) /\ Chain[tip] \subseteq was
            BY <1>2, <3>2 DEF Valid, TipInv
          <6>2. ASSUME NEW x \in Block, Valid(x)', ~Worse(s, x, tip) PROVE x \in candidates'
            <7>1. ~Worse(s, x, f)
              BY <1>2, <2>3, <5>1, <6>2, WorseOrder
            <7> QED
              BY <3>4, <4>2, <6>2, <7>1
          <6>3. PICK g \in Block : g = tip
            BY <1>2
          <6>4. Complete(g)'
            BY <1>1, <2>1, <3>4, <6>1, <6>2, <6>3 DEF Complete
          <6> QED
            BY <6>4
        <5>2. CASE ~Worse(s, f, tip)
          <6>1. ASSUME NEW x \in Block, Valid(x)', ~Worse(s, x, f) PROVE x \in candidates'
            <7>1. ~Worse(s, x, tip)
              BY <1>2, <2>3, <5>2, <6>1, NotWorseTrans
            <7> QED
              BY <3>4, <4>2, <6>1, <7>1
          <6>2. Complete(f)'
            BY <1>1, <2>1, <3>3, <3>4, <6>1 DEF Complete
          <6> QED
            BY <6>2
        <5> QED
          BY <5>1, <5>2
      <4>4. ~aborted'
        <5>1. PICK g \in Block : Complete(g)'
          BY <4>3
        <5>2. g \in candidates'
          BY <2>1, <2>3, <5>1, WorseOrder DEF Complete
        <5> QED
          BY <4>1, <5>2
      <4> QED
        BY <3>1, <4>3, <4>4
    <3> QED
      BY <3>7, <3>8
  <2> QED
    BY <2>6, <2>9, <2>12, <2>13
<1> QED
  BY <1>3, <1>4

\* A restart makes every valid block that is as good as the tip a candidate.
LEMMA RestartStep ==
    ASSUME Inv, NEW t \in Thread, Restart(t)
    PROVE  Inv'
<1> USE DEF Inv
<1>1. /\ child' \subseteq child /\ UNCHANGED <<data, invalid, tip>>
      /\ seq' = [b \in Block |-> 0] /\ nextSeq' = 1 /\ precious' = [id |-> -1, work |-> 0]
      /\ linked' = {b \in data : Chain[b] \subseteq data} /\ unlinked' = data \ linked'
      /\ candidates' = Prune(seq', linked' \ Failed', tip)
      /\ aborted' = (candidates' = {})
      /\ thread' = [u \in Thread |-> IF u = t THEN Null ELSE Idle]
      /\ excuse' = excuse \ {"turned", "demoted"} /\ was' = Chain[tip]
  BY DEF Restart, Failed
<1>2. LinkInv' /\ linked \subseteq linked'
  BY <1>1, RestartLinks
<1>3. MarkInv' /\ Failed' \subseteq Failed /\ excuse' \subseteq excuse
  BY <1>1 DEF MarkInv, Failed
<1>4. seq' \in [Block -> Int] /\ nextSeq' \in Int /\ precious' \in [id : Int, work : Int]
  BY SMT, <1>1
<1>5. tip' \in linked' /\ tip \in Block /\ tip' = tip
  BY <1>1, <1>2, BlocksIn DEF TypeInv
<1>6. thread' \in [Thread -> {Idle, Null} \cup linked'] /\ thread'[t] = Null
  BY <1>1
<1>7. TypeInv'
  BY <1>1, <1>4, <1>5, <1>6 DEF TypeInv, Prune
<1>8. "stale" \notin excuse' => Chain[tip] \cap Failed' = {}
  <2>1. "stale" \notin excuse' => "stale" \notin excuse
    BY <1>1
  <2> QED
    BY <1>3, <2>1 DEF TipInv
<1>9. TipInv'
  BY <1>1, <1>8 DEF TipInv, Prune
<1>10. BestInv'
  <2> SUFFICES ASSUME excuse' = {} PROVE ~aborted' /\ (\E f \in Block : Complete(f)') /\ Going'
    BY DEF BestInv
  <2>1. Going'
    BY <1>5, <1>6, NullGoing
  <2>2. PICK f \in Block : f = tip
    BY <1>5
  <2>3. Valid(f)' /\ (Chain[f] \subseteq was)'
    BY <1>1, <1>5, <1>8, <2>2 DEF Valid
  <2>4. ASSUME NEW x \in Block, Valid(x)', ~Worse(seq', x, f) PROVE x \in candidates'
    <3>1. x \in linked' /\ x \notin Failed'
      BY <2>4, ChainFacts DEF Valid
    <3> QED
      BY <1>1, <2>2, <2>4, <3>1 DEF Prune
  <2>5. f \in candidates'
    BY <1>4, <2>3, <2>4, WorseOrder
  <2> QED
    BY <1>1, <2>1, <2>3, <2>4, <2>5 DEF Complete
<1> QED
  BY <1>2, <1>3, <1>7, <1>9, <1>10

-----------------------------------------------------------------------------
(* The theorems. *)

\* The genesis block alone.
LEMMA InitInv == ASSUME Init PROVE Inv
<1> USE DEF Init
<1>1. Genesis \in Block
  BY BestChainAssumption
<1>2. Chain[Genesis] = {Genesis}
  <2>1. ASSUME NEW c \in Ancestors[Genesis] PROVE FALSE
    <3>1. c \in Block /\ Chain[c] \subseteq Ancestors[Genesis]
      BY <1>1, ChainIs, BestChainAssumption
    <3> QED
      BY <1>1, <3>1, ChainIs, ChainFacts
  <2> QED
    BY <1>1, <2>1, ChainIs
<1>3. LinkInv
  BY <1>1, <1>2, FS_Singleton DEF LinkInv
<1>4. MarkInv /\ Failed = {}
  BY DEF MarkInv, Failed
<1>5. seq \in [Block -> Int] /\ nextSeq \in Int /\ precious \in [id : Int, work : Int]
  BY SMT
<1>6. TypeInv
  BY <1>5 DEF TypeInv
<1>7. TipInv
  <2>1. ~Worse(seq, Genesis, Genesis)
    BY <1>1, <1>5, WorseOrder
  <2> QED
    BY <1>2, <1>4, <2>1 DEF TipInv
<1>8. Valid(Genesis) /\ \A x : Valid(x) => x = Genesis
  BY <1>4 DEF Valid
<1>9. Complete(Genesis) /\ Best
  BY <1>1, <1>2, <1>5, <1>8, WorseOrder DEF Complete, Best
<1>10. BestInv
  BY <1>1, <1>9 DEF BestInv
<1> QED
  BY <1>3, <1>4, <1>6, <1>7, <1>10 DEF Inv

\* Every step keeps the invariant.
LEMMA StepInv == ASSUME Inv, [Next]_vars PROVE Inv'
<1>1. CASE UNCHANGED vars
  BY <1>1 DEF vars, Inv, LinkInv, MarkInv, TypeInv, TipInv, BestInv, Complete, Valid, Best, Going, Failed
<1>2. CASE Next
  <2>1. PICK t \in Thread :
           \/ ActivateBestChain(t)
           \/ \E b \in Block \ {Genesis} :
                 \/ AcceptBlockHeader(t, b) \/ InvalidateBlock(t, b) \/ ReconsiderBlock(t, b) \/ PreciousBlock(t, b)
                 \/ \E fRequested \in BOOLEAN : ProcessNewBlock(t, b, fRequested)
           \/ \E recent \in SUBSET rejected, b \in Block : ReprocessBlocks(t, recent, b)
           \/ Restart(t)
    BY <1>2 DEF Next
  <2> QED
    BY <2>1, ActivateStep, HeaderStep, InvalidateStep, ReconsiderStep, PreciousStep, ProcessStep,
       ReprocessStep, RestartStep
<1> QED
  BY <1>1, <1>2

\* So it always holds.
LEMMA InvHolds == Spec => []Inv
  BY InitInv, StepInv, PTL DEF Spec

\* When every thread has left ActivateBestChain and no exception was made, no valid block
\* is better than the tip, for any blocks, threads and calls.
THEOREM BestChainBecomesActive == Spec => []BestChainActive
<1>1. Inv => BestChainActive
  BY DEF Inv, BestInv, BestChainActive, Quiet, Best, Going
<1> QED
  BY <1>1, InvHolds, PTL

\* setBlockIndexCandidates has nothing worse than the tip or not linked, and at rest every
\* valid block that is as good as the tip: what CheckBlockIndex asserts.
THEOREM CandidatesStayExact == Spec => []CandidatesExact
<1>1. ASSUME Inv PROVE CandidatesExact
  <2>1. ASSUME Quiet, excuse = {}, NEW b \in Block, Valid(b), ~Worse(seq, b, tip) PROVE b \in candidates
    <3>1. seq \in [Block -> Int] /\ tip \in Block
      BY <1>1, BlocksIn DEF Inv
    <3>2. Best
      BY <1>1, <2>1 DEF Inv, BestInv, Quiet, Going
    <3>3. PICK f \in Block : Complete(f)
      BY <1>1, <2>1 DEF Inv, BestInv
    <3>4. ~Worse(seq, tip, f)
      BY <3>2, <3>3 DEF Best, Complete
    <3>5. ~Worse(seq, b, f)
      BY <2>1, <3>1, <3>4, NotWorseTrans
    <3> QED
      BY <2>1, <3>3, <3>5 DEF Complete
  <2> QED
    BY <1>1, <2>1 DEF Inv, CandidatesExact, TipInv, TypeInv
<1> QED
  BY <1>1, InvHolds, PTL

\* No failed block is active, PruneBlockIndexCandidates finds a candidate, and each
\* FAILED_CHILD mark has a cause.
THEOREM ActiveChainStaysValid == Spec => []ActiveChainValid
<1>1. Inv => ActiveChainValid
  BY DEF Inv, MarkInv, TipInv, BestInv, ActiveChainValid
<1> QED
  BY <1>1, InvHolds, PTL

\* A block is linked exactly if it and its ancestors have their data, in whatever order
\* they came.
THEOREM LinkedStaysExact == Spec => []LinkedExact
<1>1. ASSUME Inv PROVE LinkedExact
  <2>0. LinkInv
    BY <1>1 DEF Inv
  <2>1. ASSUME "reconsider" \notin excuse, NEW b \in data, Chain[b] \cap Failed = {}, Chain[b] \subseteq data,
               b \notin linked
        PROVE  FALSE
    <3> DEFINE B == Chain[b] \ linked
    <3>1. b \in Block /\ B \in SUBSET Chain[b] /\ B # {}
      BY <2>0, <2>1, ChainFacts DEF LinkInv
    <3> HIDE DEF B
    <3>2. PICK c \in B : \A d \in B : c \in Chain[d]
      BY <3>1, LowestIn
    <3>3. c \in Chain[b] /\ c \in Block /\ c \notin linked /\ c # Genesis /\ Chain[c] \subseteq Chain[b]
      BY <2>0, <3>1, <3>2, ChainDown DEF B, LinkInv
    <3>4. c \in unlinked
      BY <2>0, <2>1, <3>3 DEF LinkInv
    <3>5. Parent[c] \notin linked
      BY <2>0, <3>4 DEF LinkInv
    <3>6. Parent[c] \in Block /\ Chain[Parent[c]] = Chain[c] \ {c} /\ Parent[c] \in Chain[Parent[c]]
      BY <3>3, ParentFacts, ChainFacts
    <3>7. Parent[c] \in B
      BY <3>3, <3>5, <3>6 DEF B
    <3> QED
      BY <3>2, <3>6, <3>7
  <2> QED
    BY <2>0, <2>1 DEF LinkedExact, LinkInv
<1> QED
  BY <1>1, InvHolds, PTL
=============================================================================
