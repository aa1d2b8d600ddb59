-------------------------- MODULE CheckQueueProofs --------------------------
(***************************************************************************)
(* Proofs about CheckQueue for any number of threads, batch size and       *)
(* checks.                                                                 *)
(*                                                                         *)
(* The inductive invariant adds to the two properties what a thread holds  *)
(* at each point of Loop: only one that works has checks, and one that     *)
(* waits, was woken or is outside owes nothing to nTodo.  All that a       *)
(* thread does with the mutex ends in LoopHead, so one lemma about it,     *)
(* from what the threads other than the one that has the mutex account     *)
(* for, serves every entry to it.                                          *)
(***************************************************************************)
EXTENDS CheckQueue, Sums, TLAPS

\* Unless a step names another prover.
USE Zenon

Places == {"out", "lock", "waiting", "woken", "work"}

TypeOK ==
    /\ queue \in Seq(BOOLEAN) /\ nIdle \in Nat /\ nTotal \in Nat /\ fAllOk \in BOOLEAN /\ nTodo \in Nat
    /\ pc \in [Threads -> Places] /\ batch \in [Threads -> Seq(BOOLEAN)]
    /\ nNow \in [Threads -> Nat] /\ fOk \in [Threads -> BOOLEAN]
    /\ want \in BOOLEAN /\ result \in [got : BOOLEAN, want : BOOLEAN] /\ added \in Nat /\ rounds \in Nat

\* What thread t, at place p, holds.
Holds(t, p, n, b) ==
    /\ p \in {"out", "waiting", "woken"} => n = 0
    /\ p = "work" => n > 0
    /\ p # "work" => b = <<>>
    /\ p = "out" => t = Master

IdleIn(S, pcs) == {t \in S : pcs[t] \in {"waiting", "woken"}}
InLoop(S, pcs, now) == {t \in S : pcs[t] \in {"waiting", "woken", "work"} \/ now[t] > 0}
NoneFails(S, now, ok, b) == \A t \in S : now[t] > 0 => ok[t] /\ AllTrue(b[t])

IInv ==
    /\ TypeOK
    /\ \A t \in Threads : Holds(t, pc[t], nNow[t], batch[t])
    /\ nTodo = Len(queue) + SumOver(nNow, Threads)
    /\ nIdle = Cardinality(IdleIn(Threads, pc))
    /\ nTotal = Cardinality(InLoop(Threads, pc, nNow))
    /\ result.got = result.want
    /\ want <=> fAllOk /\ AllTrue(queue) /\ NoneFails(Threads, nNow, fOk, batch)
    /\ pc[Master] = "out" /\ added = 0 => queue = <<>> /\ \A t \in Threads : nNow[t] = 0

\* What LoopHead is given: the account of all threads but t, which has the mutex.
Entered(t, pcs, total, idle, ok, todo) ==
    LET others == Threads \ {t}
    IN  /\ pc[t] # "out" /\ pc[t] # "work" /\ ok \in BOOLEAN
        /\ pcs \in [Threads -> Places] /\ (pcs[Master] = "out" => pc[Master] = "out")
        /\ \A u \in others : Holds(u, pcs[u], nNow[u], batch[u])
        /\ todo = Len(queue) + SumOver(nNow, others)
        /\ idle = Cardinality(IdleIn(others, pcs))
        /\ total = Cardinality(InLoop(others, pcs, nNow)) + 1
        /\ want <=> ok /\ AllTrue(queue) /\ NoneFails(others, nNow, fOk, batch)

-----------------------------------------------------------------------------
LEMMA ThreadsFinite == IsFiniteSet(Threads) /\ Master \in Threads
<1>1. IsFiniteSet(Workers \cup {Master})
  BY QueueAssumption, FS_AddElement
<1> QED
  BY <1>1 DEF Threads

\* A thread counts as one.
LEMMA CountOne ==
    ASSUME NEW S \in SUBSET Threads, NEW t \in Threads
    PROVE  /\ Cardinality(S \ {t}) \in Nat
           /\ Cardinality(S) = Cardinality(S \ {t}) + (IF t \in S THEN 1 ELSE 0)
<1>1. IsFiniteSet(S) /\ IsFiniteSet(S \ {t})
  BY ThreadsFinite, FS_Subset
<1>2. Cardinality(S) \in Nat /\ Cardinality(S \ {t}) \in Nat
  BY <1>1, FS_CardinalityType
<1>3. CASE t \in S
  <2>1. Cardinality(S \ {t}) = Cardinality(S) - 1
    BY <1>1, <1>3, FS_RemoveElement
  <2> QED
    BY SMT, <1>2, <1>3, <2>1
<1>4. CASE t \notin S
  <2>1. S \ {t} = S
    BY <1>4
  <2> QED
    BY SMT, <1>2, <1>4, <2>1
<1> QED
  BY <1>3, <1>4

LEMMA IdleOne ==
    ASSUME NEW p \in [Threads -> Places], NEW t \in Threads
    PROVE  /\ Cardinality(IdleIn(Threads \ {t}, p)) \in Nat
           /\ Cardinality(IdleIn(Threads, p)) = Cardinality(IdleIn(Threads \ {t}, p))
                                                  + (IF p[t] \in {"waiting", "woken"} THEN 1 ELSE 0)
<1>1. IdleIn(Threads, p) \in SUBSET Threads /\ IdleIn(Threads, p) \ {t} = IdleIn(Threads \ {t}, p)
  BY DEF IdleIn
<1>2. t \in IdleIn(Threads, p) <=> p[t] \in {"waiting", "woken"}
  BY DEF IdleIn
<1>3. /\ Cardinality(IdleIn(Threads, p) \ {t}) \in Nat
      /\ Cardinality(IdleIn(Threads, p)) =
           Cardinality(IdleIn(Threads, p) \ {t}) + (IF t \in IdleIn(Threads, p) THEN 1 ELSE 0)
  BY <1>1, CountOne
<1> QED
  BY <1>1, <1>2, <1>3

LEMMA InLoopOne ==
    ASSUME NEW p \in [Threads -> Places], NEW n \in [Threads -> Nat], NEW t \in Threads
    PROVE  /\ Cardinality(InLoop(Threads \ {t}, p, n)) \in Nat
           /\ Cardinality(InLoop(Threads, p, n)) =
                Cardinality(InLoop(Threads \ {t}, p, n))
                  + (IF p[t] \in {"waiting", "woken", "work"} \/ n[t] > 0 THEN 1 ELSE 0)
<1>1. InLoop(Threads, p, n) \in SUBSET Threads /\ InLoop(Threads, p, n) \ {t} = InLoop(Threads \ {t}, p, n)
  BY DEF InLoop
<1>2. t \in InLoop(Threads, p, n) <=> (p[t] \in {"waiting", "woken", "work"} \/ n[t] > 0)
  BY DEF InLoop
<1>3. /\ Cardinality(InLoop(Threads, p, n) \ {t}) \in Nat
      /\ Cardinality(InLoop(Threads, p, n)) =
           Cardinality(InLoop(Threads, p, n) \ {t}) + (IF t \in InLoop(Threads, p, n) THEN 1 ELSE 0)
  BY <1>1, CountOne
<1> QED
  BY <1>1, <1>2, <1>3

LEMMA NowOne ==
    ASSUME NEW n \in [Threads -> Nat], NEW t \in Threads
    PROVE  /\ SumOver(n, Threads \ {t}) \in Nat /\ SumOver(n, Threads) \in Nat
           /\ SumOver(n, Threads) = n[t] + SumOver(n, Threads \ {t})
<1>1. IsFiniteSet(Threads \ {t}) /\ IsFiniteSet(Threads)
  BY ThreadsFinite, FS_Subset
<1>2. (\A x \in Threads : n[x] \in Nat) /\ \A x \in Threads \ {t} : n[x] \in Nat
  OBVIOUS
<1> QED
  BY <1>1, <1>2, SumNat, SumOut

-----------------------------------------------------------------------------
LEMMA MaxOfTwo == ASSUME NEW a \in Nat, NEW b \in Nat PROVE Max({a, b}) = IF a >= b THEN a ELSE b
<1>1. Max({a, b}) = CHOOSE x \in {a, b} : \A y \in {a, b} : x >= y
  BY DEF Max
<1>2. \E x \in {a, b} : \A y \in {a, b} : x >= y
  BY SMT
<1>3. Max({a, b}) \in {a, b} /\ \A y \in {a, b} : Max({a, b}) >= y
  BY <1>1, <1>2
<1> QED
  BY SMT, <1>3

LEMMA MinOfTwo == ASSUME NEW a \in Nat, NEW b \in Nat PROVE Min({a, b}) = IF a <= b THEN a ELSE b
<1>1. Min({a, b}) = CHOOSE x \in {a, b} : \A y \in {a, b} : x <= y
  BY DEF Min
<1>2. \E x \in {a, b} : \A y \in {a, b} : x <= y
  BY SMT
<1>3. Min({a, b}) \in {a, b} /\ \A y \in {a, b} : Min({a, b}) <= y
  BY <1>1, <1>2
<1> QED
  BY SMT, <1>3

\* A share of the queue is neither empty nor more than the queue.
LEMMA BatchFits ==
    ASSUME NEW n \in Nat \ {0}, NEW total \in Nat, NEW idle \in Nat
    PROVE  BatchOf(n, total, idle) \in 1..n
<1> DEFINE q == n \div (total + idle + 1)
<1>1. q \in Nat /\ q <= n
  BY SMT
<1> HIDE DEF q
<1>2. BatchSize \in Nat
  BY QueueAssumption
<1>3. Min({BatchSize, q}) \in Nat /\ Min({BatchSize, q}) <= n
  BY SMT, <1>1, <1>2, MinOfTwo
<1>4. Max({1, Min({BatchSize, q})}) \in 1..n
  BY SMT, <1>3, MaxOfTwo
<1> QED
  BY <1>4 DEF BatchOf, q

\* Taking the end off a queue loses and repeats nothing.
LEMMA CutQueue ==
    ASSUME NEW s \in Seq(BOOLEAN), NEW n \in 1..Len(s)
    PROVE  LET front == SubSeq(s, 1, Len(s) - n)
               back == SubSeq(s, Len(s) - n + 1, Len(s))
           IN  /\ front \in Seq(BOOLEAN) /\ back \in Seq(BOOLEAN)
               /\ Len(front) + n = Len(s)
               /\ AllTrue(s) <=> AllTrue(front) /\ AllTrue(back)
<1> DEFINE m == Len(s) - n
           front == SubSeq(s, 1, m)
           back == SubSeq(s, m + 1, Len(s))
<1>1. Len(s) \in Nat /\ m \in 0..Len(s) /\ m + n = Len(s) /\ DOMAIN s = 1..Len(s)
  BY SMT
<1> HIDE DEF m
<1>2. /\ front \in Seq(BOOLEAN) /\ Len(front) = m /\ DOMAIN front = 1..m
      /\ \A i \in 1..m : front[i] = s[i]
  BY SMT, <1>1
<1>3. /\ back \in Seq(BOOLEAN) /\ Len(back) = n /\ DOMAIN back = 1..n
      /\ \A i \in 1..n : back[i] = s[m + i]
  BY SMTT(30), <1>1
<1> HIDE DEF front, back
<1>4. ASSUME AllTrue(s) PROVE AllTrue(front) /\ AllTrue(back)
  <2>1. \A i \in 1..m : i \in 1..Len(s)
    BY SMT, <1>1
  <2>2. \A i \in 1..n : m + i \in 1..Len(s)
    BY SMT, <1>1
  <2> QED
    BY <1>1, <1>2, <1>3, <1>4, <2>1, <2>2 DEF AllTrue
<1>5. ASSUME AllTrue(front), AllTrue(back) PROVE AllTrue(s)
  <2> SUFFICES ASSUME NEW i \in 1..Len(s) PROVE s[i]
    BY <1>1 DEF AllTrue
  <2>1. CASE i \in 1..m
    BY <1>2, <1>5, <2>1 DEF AllTrue
  <2>2. CASE i \notin 1..m
    <3>1. i - m \in 1..n /\ m + (i - m) = i
      BY SMT, <1>1, <2>2
    <3>2. back[i - m] = s[i]
      BY <1>3, <3>1
    <3>3. back[i - m]
      BY <1>3, <1>5, <3>1 DEF AllTrue
    <3> QED
      BY <3>2, <3>3
  <2> QED
    BY <2>1, <2>2
<1> QED
  BY <1>1, <1>2, <1>3, <1>4, <1>5 DEF front, back, m

LEMMA AllTrueEmpty == AllTrue(<<>>)
<1>1. DOMAIN <<>> = {}
  BY SMT
<1> QED
  BY <1>1 DEF AllTrue

\* An addition to the queue.
LEMMA AllTrueConcat ==
    ASSUME NEW s \in Seq(BOOLEAN), NEW b \in Seq(BOOLEAN)
    PROVE  /\ s \o b \in Seq(BOOLEAN) /\ Len(s \o b) = Len(s) + Len(b)
           /\ AllTrue(s \o b) <=> AllTrue(s) /\ AllTrue(b)
<1> DEFINE m == Len(s)
           k == Len(b)
           c == s \o b
<1>1. m \in Nat /\ k \in Nat /\ DOMAIN s = 1..m /\ DOMAIN b = 1..k
  BY SMT
<1>2. c \in Seq(BOOLEAN) /\ Len(c) = m + k /\ DOMAIN c = 1..(m + k)
  BY SMT
<1>3. (\A i \in 1..m : c[i] = s[i]) /\ \A i \in 1..k : c[m + i] = b[i]
  BY SMT
<1> HIDE DEF m, k, c
<1>4. ASSUME AllTrue(c) PROVE AllTrue(s) /\ AllTrue(b)
  <2>1. (\A i \in 1..m : i \in 1..(m + k)) /\ \A i \in 1..k : m + i \in 1..(m + k)
    BY SMT, <1>1
  <2> QED
    BY <1>1, <1>2, <1>3, <1>4, <2>1 DEF AllTrue
<1>5. ASSUME AllTrue(s), AllTrue(b) PROVE AllTrue(c)
  <2> SUFFICES ASSUME NEW i \in 1..(m + k) PROVE c[i]
    BY <1>2 DEF AllTrue
  <2>1. CASE i \in 1..m
    BY <1>1, <1>3, <1>5, <2>1 DEF AllTrue
  <2>2. CASE i \notin 1..m
    <3>1. i - m \in 1..k /\ m + (i - m) = i
      BY SMT, <1>1, <2>2
    <3>2. c[i] = b[i - m] /\ b[i - m]
      BY <1>1, <1>3, <1>5, <3>1 DEF AllTrue
    <3> QED
      BY <3>2
  <2> QED
    BY <2>1, <2>2
<1> QED
  BY <1>2, <1>4, <1>5 DEF m, k, c

-----------------------------------------------------------------------------
\* A batch goes from the queue to the thread.
LEMMA TakeBatchKeeps ==
    ASSUME IInv, NEW t \in Threads, NEW pcs, NEW total, NEW idle, NEW ok, NEW todo,
           Entered(t, pcs, total, idle, ok, todo), queue # <<>>,
           TakeBatch(t, pcs, total, idle, ok, todo)
    PROVE  IInv'
<1> DEFINE n == BatchOf(Len(queue), total, idle)
           others == Threads \ {t}
<1>0. TypeOK
  BY DEF IInv
<1>1. pcs \in [Threads -> Places] /\ ok \in BOOLEAN
  BY DEF Entered
<1>2. Cardinality(IdleIn(others, pcs)) \in Nat /\ Cardinality(InLoop(others, pcs, nNow)) \in Nat
  BY <1>0, <1>1, IdleOne, InLoopOne DEF TypeOK
<1>3. total \in Nat /\ idle \in Nat
  BY SMT, <1>2 DEF Entered
<1>4. Len(queue) \in Nat \ {0}
  BY SMT, <1>0 DEF TypeOK
<1>5. n \in 1..Len(queue)
  BY <1>3, <1>4, BatchFits
<1>6. n \in Nat /\ n > 0
  BY SMT, <1>4, <1>5
<1>7. /\ pc' = [pcs EXCEPT ![t] = "work"] /\ nTotal' = total /\ nIdle' = idle /\ nTodo' = todo /\ fAllOk' = ok
      /\ nNow' = [nNow EXCEPT ![t] = n] /\ fOk' = [fOk EXCEPT ![t] = ok]
      /\ batch' = [batch EXCEPT ![t] = SubSeq(queue, Len(queue) - n + 1, Len(queue))]
      /\ queue' = SubSeq(queue, 1, Len(queue) - n)
      /\ want' = want /\ result' = result /\ added' = added /\ rounds' = rounds
  BY DEF TakeBatch
<1> HIDE DEF n
<1> DEFINE back == SubSeq(queue, Len(queue) - n + 1, Len(queue))
<1>8. /\ queue' \in Seq(BOOLEAN) /\ back \in Seq(BOOLEAN) /\ Len(queue') + n = Len(queue)
      /\ AllTrue(queue) <=> AllTrue(queue') /\ AllTrue(back)
  BY <1>0, <1>5, <1>7, CutQueue DEF TypeOK
<1>9. batch' = [batch EXCEPT ![t] = back]
  BY <1>7
<1> HIDE DEF back
<1>10. /\ pc' \in [Threads -> Places] /\ nNow' \in [Threads -> Nat] /\ batch' \in [Threads -> Seq(BOOLEAN)]
       /\ fOk' \in [Threads -> BOOLEAN]
       /\ pc'[t] = "work" /\ nNow'[t] = n /\ batch'[t] = back /\ fOk'[t] = ok
       /\ \A u \in others : pc'[u] = pcs[u] /\ nNow'[u] = nNow[u] /\ batch'[u] = batch[u] /\ fOk'[u] = fOk[u]
  <2>1. pc' \in [Threads -> Places] /\ pc'[t] = "work" /\ \A u \in others : pc'[u] = pcs[u]
    BY <1>1, <1>7 DEF Places
  <2>2. nNow' \in [Threads -> Nat] /\ nNow'[t] = n /\ \A u \in others : nNow'[u] = nNow[u]
    BY <1>0, <1>6, <1>7 DEF TypeOK
  <2>3. batch' \in [Threads -> Seq(BOOLEAN)] /\ batch'[t] = back /\ \A u \in others : batch'[u] = batch[u]
    BY <1>0, <1>8, <1>9 DEF TypeOK
  <2>4. fOk' \in [Threads -> BOOLEAN] /\ fOk'[t] = ok /\ \A u \in others : fOk'[u] = fOk[u]
    BY <1>0, <1>1, <1>7 DEF TypeOK
  <2> QED
    BY <2>1, <2>2, <2>3, <2>4
<1>11. SumOver(nNow', others) = SumOver(nNow, others)
  BY <1>10, SumSame
<1>12. IdleIn(others, pc') = IdleIn(others, pcs) /\ InLoop(others, pc', nNow') = InLoop(others, pcs, nNow)
  BY <1>10 DEF IdleIn, InLoop
<1>13. Len(queue') \in Nat /\ Len(queue) = Len(queue') + n
  BY SMT, <1>0, <1>6, <1>8 DEF TypeOK
<1>14. /\ SumOver(nNow', others) \in Nat /\ SumOver(nNow', Threads) \in Nat
       /\ SumOver(nNow', Threads) = nNow'[t] + SumOver(nNow', others)
  BY <1>10, NowOne
<1>15. nTodo' = Len(queue') + SumOver(nNow', Threads) /\ nTodo' \in Nat
  <2>1. todo = Len(queue) + SumOver(nNow, others)
    BY DEF Entered
  <2> QED
    <3>1. nTodo' = todo /\ nNow'[t] = n
      BY <1>7, <1>10
    <3> HIDE DEF others
    <3> QED
      BY SMT, <1>6, <1>11, <1>13, <1>14, <2>1, <3>1
<1>16. TypeOK'
  BY <1>0, <1>1, <1>3, <1>7, <1>8, <1>10, <1>15 DEF TypeOK
<1>17. \A u \in Threads : Holds(u, pc'[u], nNow'[u], batch'[u])
  BY <1>6, <1>10 DEF Entered, Holds
<1>18. nIdle' = Cardinality(IdleIn(Threads, pc'))
  <2>1. Cardinality(IdleIn(Threads, pc')) = Cardinality(IdleIn(others, pcs)) + 0
    BY <1>10, <1>12, IdleOne
  <2> QED
    BY SMT, <1>2, <1>7, <2>1 DEF Entered
<1>19. nTotal' = Cardinality(InLoop(Threads, pc', nNow'))
  <2>1. Cardinality(InLoop(Threads, pc', nNow')) = Cardinality(InLoop(others, pcs, nNow)) + 1
    BY <1>10, <1>12, InLoopOne
  <2> QED
    BY <1>7, <2>1 DEF Entered
<1>20. want' <=> fAllOk' /\ AllTrue(queue') /\ NoneFails(Threads, nNow', fOk', batch')
  <2>1. want <=> ok /\ AllTrue(queue') /\ AllTrue(back) /\ NoneFails(others, nNow, fOk, batch)
    BY <1>8 DEF Entered
  <2>2. NoneFails(Threads, nNow', fOk', batch') <=> ok /\ AllTrue(back) /\ NoneFails(others, nNow, fOk, batch)
    BY <1>6, <1>10 DEF NoneFails
  <2> QED
    BY <1>7, <2>1, <2>2
<1>21. ~(pc'[Master] = "out" /\ added' = 0)
  <2> SUFFICES ASSUME pc'[Master] = "out", added' = 0 PROVE FALSE
    OBVIOUS
  <2>1. pcs[Master] = "out"
    BY <1>10, ThreadsFinite
  <2> QED
    BY <1>7, <2>1 DEF Entered, IInv
<1> QED
  BY <1>7, <1>15, <1>16, <1>17, <1>18, <1>19, <1>20, <1>21 DEF IInv

\* With an empty queue the thread, now at p, has nothing left: what others have is all
\* there is.
Settled(t, p, pcs, total, idle, ok, todo) ==
    /\ pc' \in [Threads -> Places] /\ nNow' \in [Threads -> Nat] /\ nNow'[t] = 0 /\ pc'[t] = p
    /\ \A u \in Threads : u # t => nNow'[u] = nNow[u] /\ pc'[u] = pcs[u]
    /\ todo \in Nat /\ idle \in Nat /\ total - 1 \in Nat /\ total \in Nat
    /\ todo = Len(queue') + SumOver(nNow', Threads) /\ todo = SumOver(nNow', Threads)
    /\ \A u \in Threads : Holds(u, pc'[u], nNow'[u], batch'[u])
    /\ Cardinality(IdleIn(Threads, pc')) = idle + (IF p = "waiting" THEN 1 ELSE 0)
    /\ Cardinality(InLoop(Threads, pc', nNow')) = (total - 1) + (IF p = "waiting" THEN 1 ELSE 0)
    /\ want <=> ok /\ AllTrue(queue') /\ NoneFails(Threads, nNow', fOk', batch')

LEMMA QueueEmpty ==
    ASSUME IInv, NEW t \in Threads, NEW pcs, NEW total, NEW idle, NEW ok, NEW todo,
           Entered(t, pcs, total, idle, ok, todo), queue = <<>>,
           nNow' = [nNow EXCEPT ![t] = 0], queue' = queue, batch' = batch, fOk' = fOk,
           NEW p \in {"out", "waiting"}, pc' = [pcs EXCEPT ![t] = p], p = "out" => t = Master
    PROVE  Settled(t, p, pcs, total, idle, ok, todo)
<1> DEFINE others == Threads \ {t}
<1>0. TypeOK
  BY DEF IInv
<1>1. pcs \in [Threads -> Places] /\ ok \in BOOLEAN
  BY DEF Entered
<1>2. /\ pc' \in [Threads -> Places] /\ nNow' \in [Threads -> Nat] /\ nNow'[t] = 0 /\ pc'[t] = p
      /\ \A u \in others : nNow'[u] = nNow[u] /\ pc'[u] = pcs[u]
  <2>1. 0 \in Nat
    BY SMT
  <2> QED
    BY <1>0, <1>1, <2>1 DEF TypeOK, Places
<1>3. Cardinality(IdleIn(others, pcs)) \in Nat /\ Cardinality(InLoop(others, pcs, nNow)) \in Nat
  BY <1>0, <1>1, IdleOne, InLoopOne DEF TypeOK
<1>4. idle \in Nat /\ total \in Nat /\ total - 1 \in Nat /\ total - 1 = Cardinality(InLoop(others, pcs, nNow))
  BY SMT, <1>3 DEF Entered
<1>5. SumOver(nNow', others) = SumOver(nNow, others)
  BY <1>2, SumSame
<1>6. /\ SumOver(nNow', others) \in Nat /\ SumOver(nNow', Threads) \in Nat
      /\ SumOver(nNow', Threads) = nNow'[t] + SumOver(nNow', others)
  BY <1>2, NowOne
<1>7. Len(queue') = 0
  BY SMT
<1>8. todo \in Nat /\ todo = Len(queue') + SumOver(nNow', Threads) /\ todo = SumOver(nNow', Threads)
  <2>1. todo = Len(queue) + SumOver(nNow, others)
    BY DEF Entered
  <2> QED
    BY SMT, <1>2, <1>5, <1>6, <1>7, <2>1
<1>9. batch[t] = <<>>
  BY DEF IInv, Entered, Holds
<1>10. \A u \in Threads : Holds(u, pc'[u], nNow'[u], batch'[u])
  BY <1>2, <1>9 DEF Entered, Holds
<1>11. IdleIn(others, pc') = IdleIn(others, pcs) /\ InLoop(others, pc', nNow') = InLoop(others, pcs, nNow)
  BY <1>2 DEF IdleIn, InLoop
<1>12. p \in {"waiting", "woken"} <=> p = "waiting"
  OBVIOUS
<1>13. Cardinality(IdleIn(Threads, pc')) = idle + (IF p = "waiting" THEN 1 ELSE 0)
  BY <1>2, <1>11, <1>12, IdleOne DEF Entered
<1>14. (p \in {"waiting", "woken", "work"} \/ nNow'[t] > 0) <=> p = "waiting"
  <2>1. ~(nNow'[t] > 0)
    BY SMT, <1>2
  <2> QED
    BY <2>1
<1>15. Cardinality(InLoop(Threads, pc', nNow')) = (total - 1) + (IF p = "waiting" THEN 1 ELSE 0)
  <2>1. Cardinality(InLoop(Threads, pc', nNow')) =
          Cardinality(InLoop(others, pc', nNow'))
            + (IF pc'[t] \in {"waiting", "woken", "work"} \/ nNow'[t] > 0 THEN 1 ELSE 0)
    BY <1>2, InLoopOne
  <2> QED
    BY <1>2, <1>4, <1>11, <1>14, <2>1
<1>16. NoneFails(Threads, nNow', fOk', batch') <=> NoneFails(others, nNow, fOk, batch)
  <2>1. ~(nNow'[t] > 0)
    BY SMT, <1>2
  <2> QED
    BY <1>2, <2>1 DEF NoneFails
<1> QED
  BY <1>2, <1>4, <1>8, <1>10, <1>13, <1>15, <1>16 DEF Entered, Settled

\* The master returns: every check has been accounted for.
LEMMA ReturnKeeps ==
    ASSUME IInv, NEW t \in Threads, NEW pcs, NEW total, NEW idle, NEW ok, NEW todo,
           Entered(t, pcs, total, idle, ok, todo), queue = <<>>, MayReturn(t, todo),
           Return(t, pcs, total, idle, ok, todo)
    PROVE  IInv'
<1>0. TypeOK /\ ok \in BOOLEAN
  BY DEF IInv, Entered
<1>1. /\ pc' = [pcs EXCEPT ![t] = "out"] /\ nTotal' = total - 1 /\ nIdle' = idle /\ nTodo' = todo /\ fAllOk' = TRUE
      /\ nNow' = [nNow EXCEPT ![t] = 0] /\ result' = [got |-> ok, want |-> want]
      /\ want' = TRUE /\ added' = 0 /\ rounds' = rounds + 1
      /\ queue' = queue /\ batch' = batch /\ fOk' = fOk /\ t = Master /\ todo = 0
  BY DEF Return, MayReturn
<1>2. Settled(t, "out", pcs, total, idle, ok, todo)
  BY <1>1, QueueEmpty
<1>3. \A u \in Threads : nNow'[u] = 0
  <2> SUFFICES ASSUME NEW u \in Threads PROVE nNow'[u] = 0
    OBVIOUS
  <2>1. nNow'[u] <= SumOver(nNow', Threads)
    BY <1>2, SumAbove, ThreadsFinite DEF Settled
  <2>2. nNow'[u] \in Nat
    BY <1>2 DEF Settled
  <2> QED
    BY SMT, <1>1, <1>2, <2>1, <2>2 DEF Settled
<1>4. Cardinality(IdleIn(Threads, pc')) = nIdle' /\ Cardinality(InLoop(Threads, pc', nNow')) = nTotal'
  BY SMT, <1>1, <1>2 DEF Settled
<1>5. AllTrue(queue') /\ NoneFails(Threads, nNow', fOk', batch')
  <2>1. \A u \in Threads : ~(nNow'[u] > 0)
    BY SMT, <1>3
  <2> QED
    BY <1>1, <2>1, AllTrueEmpty DEF NoneFails
<1>6. result' \in [got : BOOLEAN, want : BOOLEAN] /\ result'.got = result'.want
  <2>1. want = ok
    <3>1. (want <=> ok) /\ want \in BOOLEAN /\ ok \in BOOLEAN
      BY <1>0, <1>2, <1>5 DEF TypeOK, Settled
    <3> QED
      BY SMT, <3>1
  <2> QED
    BY <1>0, <1>1, <2>1
<1>7. added' \in Nat /\ rounds' \in Nat
  BY SMT, <1>0, <1>1 DEF TypeOK
<1>8. TypeOK'
  BY <1>0, <1>1, <1>2, <1>6, <1>7 DEF TypeOK, Settled
<1> QED
  BY <1>1, <1>2, <1>3, <1>4, <1>5, <1>6, <1>8 DEF IInv, Settled

\* A thread without work waits.
LEMMA BlockOnKeeps ==
    ASSUME IInv, NEW t \in Threads, NEW pcs, NEW total, NEW idle, NEW ok, NEW todo,
           Entered(t, pcs, total, idle, ok, todo), queue = <<>>,
           BlockOn(t, pcs, total, idle, ok, todo)
    PROVE  IInv'
<1>0. TypeOK /\ ok \in BOOLEAN
  BY DEF IInv, Entered
<1>1. /\ pc' = [pcs EXCEPT ![t] = "waiting"] /\ nTotal' = total /\ nIdle' = idle + 1 /\ nTodo' = todo /\ fAllOk' = ok
      /\ nNow' = [nNow EXCEPT ![t] = 0] /\ result' = result
      /\ want' = want /\ added' = added /\ rounds' = rounds
      /\ queue' = queue /\ batch' = batch /\ fOk' = fOk
  BY DEF BlockOn
<1>2. Settled(t, "waiting", pcs, total, idle, ok, todo)
  BY <1>1, QueueEmpty
<1>3. /\ nIdle' \in Nat
      /\ Cardinality(IdleIn(Threads, pc')) = nIdle' /\ Cardinality(InLoop(Threads, pc', nNow')) = nTotal'
  BY SMT, <1>1, <1>2 DEF Settled
<1>4. TypeOK'
  BY <1>0, <1>1, <1>2, <1>3 DEF TypeOK, Settled
<1>5. ASSUME pc'[Master] = "out", added' = 0 PROVE \A u \in Threads : nNow'[u] = 0
  <2>1. Master # t /\ pc[Master] = "out"
    BY <1>2, <1>5, ThreadsFinite DEF Entered, Settled
  <2> QED
    BY <1>1, <1>2, <1>5, <2>1 DEF IInv, Settled
<1>6. (want' <=> fAllOk' /\ AllTrue(queue') /\ NoneFails(Threads, nNow', fOk', batch')) /\ result'.got = result'.want
  BY <1>1, <1>2 DEF IInv, Settled
<1> QED
  BY <1>1, <1>2, <1>3, <1>4, <1>5, <1>6 DEF IInv, Settled

LEMMA LoopHeadKeeps ==
    ASSUME IInv, NEW t \in Threads, NEW pcs, NEW total, NEW idle, NEW ok, NEW todo,
           Entered(t, pcs, total, idle, ok, todo),
           LoopHead(t, pcs, total, idle, ok, todo)
    PROVE  IInv'
<1>1. CASE queue # <<>>
  BY <1>1, TakeBatchKeeps DEF LoopHead
<1>2. CASE queue = <<>> /\ MayReturn(t, todo)
  BY <1>2, ReturnKeeps DEF LoopHead
<1>3. CASE queue = <<>> /\ ~MayReturn(t, todo)
  BY <1>3, BlockOnKeeps DEF LoopHead
<1> QED
  BY <1>1, <1>2, <1>3

\* What the thread with the mutex has besides the others.
LEMMA Account ==
    ASSUME IInv, NEW t \in Threads
    PROVE  /\ nTodo = Len(queue) + (nNow[t] + SumOver(nNow, Threads \ {t}))
           /\ Len(queue) \in Nat /\ nNow[t] \in Nat /\ SumOver(nNow, Threads \ {t}) \in Nat
           /\ nIdle = Cardinality(IdleIn(Threads \ {t}, pc)) + (IF pc[t] \in {"waiting", "woken"} THEN 1 ELSE 0)
           /\ Cardinality(IdleIn(Threads \ {t}, pc)) \in Nat
           /\ nTotal = Cardinality(InLoop(Threads \ {t}, pc, nNow))
                         + (IF pc[t] \in {"waiting", "woken", "work"} \/ nNow[t] > 0 THEN 1 ELSE 0)
           /\ Cardinality(InLoop(Threads \ {t}, pc, nNow)) \in Nat
           /\ NoneFails(Threads, nNow, fOk, batch) <=>
                NoneFails(Threads \ {t}, nNow, fOk, batch) /\ (nNow[t] > 0 => fOk[t] /\ AllTrue(batch[t]))
<1>0. pc \in [Threads -> Places] /\ nNow \in [Threads -> Nat] /\ queue \in Seq(BOOLEAN)
  BY DEF IInv, TypeOK
<1>1. SumOver(nNow, Threads) = nNow[t] + SumOver(nNow, Threads \ {t}) /\ SumOver(nNow, Threads \ {t}) \in Nat
  BY <1>0, NowOne
<1>2. Len(queue) \in Nat /\ nNow[t] \in Nat
  BY SMT, <1>0
<1>3. NoneFails(Threads, nNow, fOk, batch) <=>
         NoneFails(Threads \ {t}, nNow, fOk, batch) /\ (nNow[t] > 0 => fOk[t] /\ AllTrue(batch[t]))
  BY DEF NoneFails
<1> QED
  BY <1>0, <1>1, <1>2, <1>3, IdleOne, InLoopOne DEF IInv

LEMMA EnterKeeps == ASSUME IInv, NEW t \in Threads, Enter(t) PROVE IInv'
<1> DEFINE others == Threads \ {t}
<1>0. /\ pc \in [Threads -> Places] /\ pc[t] = "lock" /\ fAllOk \in BOOLEAN /\ fOk[t] \in BOOLEAN
      /\ \A u \in Threads : Holds(u, pc[u], nNow[u], batch[u])
  BY DEF IInv, TypeOK, Enter
<1>1. CASE nNow[t] = 0
  <2>1. LoopHead(t, pc, nTotal + 1, nIdle, fAllOk, nTodo)
    BY <1>1 DEF Enter
  <2>2. ~(nNow[t] > 0)
    BY SMT, <1>1
  <2>3. nTodo = Len(queue) + SumOver(nNow, others)
    BY SMT, <1>1, Account
  <2>4. nIdle = Cardinality(IdleIn(others, pc))
    <3>1. ~(pc[t] \in {"waiting", "woken"})
      BY <1>0
    <3> QED
      BY SMT, <3>1, Account
  <2>5. nTotal + 1 = Cardinality(InLoop(others, pc, nNow)) + 1
    <3>1. ~(pc[t] \in {"waiting", "woken", "work"} \/ nNow[t] > 0)
      BY <1>0, <2>2
    <3>2. nTotal = Cardinality(InLoop(others, pc, nNow)) + 0 /\ Cardinality(InLoop(others, pc, nNow)) \in Nat
      BY <3>1, Account
    <3> QED
      BY SMT, <3>2
  <2>6. want <=> fAllOk /\ AllTrue(queue) /\ NoneFails(others, nNow, fOk, batch)
    BY <2>2, Account DEF IInv
  <2>7. Entered(t, pc, nTotal + 1, nIdle, fAllOk, nTodo)
    BY <1>0, <2>3, <2>4, <2>5, <2>6 DEF Entered
  <2> QED
    BY <2>1, <2>7, LoopHeadKeeps
<1>2. CASE nNow[t] # 0
  <2> DEFINE todo == nTodo - nNow[t]
             pcs == IF todo = 0 /\ t # Master THEN NotifyMaster(pc) ELSE pc
             ok == fAllOk /\ fOk[t]
  <2>1. LoopHead(t, pcs, nTotal, nIdle, ok, todo)
    BY <1>2 DEF Enter
  <2>2. nNow[t] > 0
    <3>1. nNow[t] \in Nat
      BY Account
    <3> QED
      BY SMT, <1>2, <3>1
  <2>3. todo = Len(queue) + SumOver(nNow, others)
    BY SMT, Account
  <2>4. /\ pcs \in [Threads -> Places] /\ pcs[t] = pc[t]
        /\ \A u \in Threads : pcs[u] # pc[u] => pc[u] = "waiting" /\ pcs[u] = "woken"
    <3> HIDE DEF todo
    <3>1. CASE pcs = pc
      BY <1>0, <3>1
    <3>2. CASE pcs = [pc EXCEPT ![Master] = "woken"] /\ t # Master /\ pc[Master] = "waiting"
      BY <1>0, <3>2, ThreadsFinite DEF Places
    <3> QED
      BY <3>1, <3>2 DEF NotifyMaster
  <2> HIDE DEF pcs, todo
  <2>5. IdleIn(others, pcs) = IdleIn(others, pc) /\ InLoop(others, pcs, nNow) = InLoop(others, pc, nNow)
    BY <2>4 DEF IdleIn, InLoop
  <2>6. nIdle = Cardinality(IdleIn(others, pcs))
    <3>1. ~(pc[t] \in {"waiting", "woken"})
      BY <1>0
    <3> QED
      BY SMT, <2>5, <3>1, Account
  <2>7. nTotal = Cardinality(InLoop(others, pcs, nNow)) + 1
    BY <2>2, <2>5, Account
  <2>8. want <=> ok /\ AllTrue(queue) /\ NoneFails(others, nNow, fOk, batch)
    <3>1. batch[t] = <<>>
      BY <1>0 DEF Holds
    <3> QED
      BY <2>2, <3>1, Account, AllTrueEmpty DEF IInv
  <2>9. \A u \in others : Holds(u, pcs[u], nNow[u], batch[u])
    BY <1>0, <2>4 DEF Holds
  <2>10. ok \in BOOLEAN /\ (pcs[Master] = "out" => pc[Master] = "out")
    BY <1>0, <2>4, ThreadsFinite
  <2> HIDE DEF ok
  <2>11. Entered(t, pcs, nTotal, nIdle, ok, todo)
    BY <1>0, <2>3, <2>4, <2>6, <2>7, <2>8, <2>9, <2>10 DEF Entered
  <2> QED
    BY <2>1, <2>11, LoopHeadKeeps
<1> QED
  BY <1>1, <1>2

LEMMA WakeUpKeeps == ASSUME IInv, NEW t \in Threads, WakeUp(t) PROVE IInv'
<1> DEFINE others == Threads \ {t}
<1>0. /\ pc \in [Threads -> Places] /\ pc[t] = "woken" /\ fAllOk \in BOOLEAN
      /\ \A u \in Threads : Holds(u, pc[u], nNow[u], batch[u])
  BY DEF IInv, TypeOK, WakeUp
<1>1. LoopHead(t, pc, nTotal, nIdle - 1, fAllOk, nTodo)
  BY DEF WakeUp
<1>2. nNow[t] = 0
  BY <1>0 DEF Holds
<1>3. nTodo = Len(queue) + SumOver(nNow, others)
  BY SMT, <1>2, Account
<1>4. nIdle - 1 = Cardinality(IdleIn(others, pc))
  <2>1. nIdle = Cardinality(IdleIn(others, pc)) + 1 /\ Cardinality(IdleIn(others, pc)) \in Nat
    BY <1>0, Account
  <2> QED
    BY SMT, <2>1
<1>5. nTotal = Cardinality(InLoop(others, pc, nNow)) + 1
  BY <1>0, Account
<1>6. want <=> fAllOk /\ AllTrue(queue) /\ NoneFails(others, nNow, fOk, batch)
  <2>1. ~(nNow[t] > 0)
    BY SMT, <1>2
  <2> QED
    BY <2>1, Account DEF IInv
<1>7. Entered(t, pc, nTotal, nIdle - 1, fAllOk, nTodo)
  BY <1>0, <1>3, <1>4, <1>5, <1>6 DEF Entered
<1> QED
  BY <1>1, <1>7, LoopHeadKeeps

\* The batch is executed: its result takes the place of its checks.
LEMMA WorkKeeps == ASSUME IInv, NEW t \in Threads, Work(t) PROVE IInv'
<1> DEFINE ok == fOk[t] /\ AllTrue(batch[t])
<1>0. TypeOK /\ pc[t] = "work" /\ nNow[t] > 0
  BY DEF IInv, Work, Holds
<1>1. /\ pc' = [pc EXCEPT ![t] = "lock"] /\ fOk' = [fOk EXCEPT ![t] = ok] /\ batch' = [batch EXCEPT ![t] = <<>>]
      /\ queue' = queue /\ nIdle' = nIdle /\ nTotal' = nTotal /\ fAllOk' = fAllOk /\ nTodo' = nTodo
      /\ nNow' = nNow /\ want' = want /\ result' = result /\ added' = added /\ rounds' = rounds
  BY DEF Work
<1>2. ok \in BOOLEAN
  OBVIOUS
<1> HIDE DEF ok
<1>3. pc' \in [Threads -> Places] /\ pc'[t] = "lock" /\ \A u \in Threads : u # t => pc'[u] = pc[u]
  BY <1>0, <1>1 DEF TypeOK, Places
<1>4. fOk' \in [Threads -> BOOLEAN] /\ fOk'[t] = ok /\ \A u \in Threads : u # t => fOk'[u] = fOk[u]
  BY <1>0, <1>1, <1>2 DEF TypeOK
<1>5. /\ batch' \in [Threads -> Seq(BOOLEAN)] /\ batch'[t] = <<>>
      /\ \A u \in Threads : u # t => batch'[u] = batch[u]
  <2>1. <<>> \in Seq(BOOLEAN)
    BY SMT
  <2> QED
    BY <1>0, <1>1, <2>1 DEF TypeOK
<1>6. TypeOK'
  BY <1>0, <1>1, <1>3, <1>4, <1>5 DEF TypeOK
<1>7. \A u \in Threads : Holds(u, pc'[u], nNow'[u], batch'[u])
  BY <1>1, <1>3, <1>5 DEF IInv, Holds
<1>8. IdleIn(Threads, pc') = IdleIn(Threads, pc)
  BY <1>0, <1>3 DEF IdleIn
<1>9. InLoop(Threads, pc', nNow') = InLoop(Threads, pc, nNow)
  BY <1>0, <1>1, <1>3 DEF InLoop
<1>10. NoneFails(Threads, nNow', fOk', batch') <=> NoneFails(Threads, nNow, fOk, batch)
  <2>1. ASSUME NEW u \in Threads PROVE fOk'[u] /\ AllTrue(batch'[u]) <=> fOk[u] /\ AllTrue(batch[u])
    <3>1. CASE u = t
      BY <1>4, <1>5, <3>1, AllTrueEmpty DEF ok
    <3>2. CASE u # t
      BY <1>4, <1>5, <3>2
    <3> QED
      BY <3>1, <3>2
  <2> QED
    BY <1>1, <2>1 DEF NoneFails
<1>11. pc'[Master] = "out" => pc[Master] = "out"
  BY <1>3, ThreadsFinite
<1> QED
  BY <1>1, <1>6, <1>7, <1>8, <1>9, <1>10, <1>11 DEF IInv

\* A thread that waits counts as idle until it has the mutex, whoever woke it.
LEMMA WokenKeeps ==
    ASSUME IInv, pc' \in [Threads -> Places],
           \A u \in Threads : pc'[u] # pc[u] => pc[u] = "waiting" /\ pc'[u] = "woken"
    PROVE  /\ IdleIn(Threads, pc') = IdleIn(Threads, pc) /\ InLoop(Threads, pc', nNow) = InLoop(Threads, pc, nNow)
           /\ \A u \in Threads : Holds(u, pc'[u], nNow[u], batch[u])
           /\ pc'[Master] = "out" => pc[Master] = "out"
<1>1. IdleIn(Threads, pc') = IdleIn(Threads, pc) /\ InLoop(Threads, pc', nNow) = InLoop(Threads, pc, nNow)
  BY DEF IdleIn, InLoop
<1>2. \A u \in Threads : Holds(u, pc'[u], nNow[u], batch[u])
  BY DEF IInv, Holds
<1> QED
  BY <1>1, <1>2, ThreadsFinite

LEMMA SpuriousWakeUpKeeps == ASSUME IInv, NEW t \in Threads, SpuriousWakeUp(t) PROVE IInv'
<1>0. TypeOK /\ pc[t] = "waiting" /\ pc' = [pc EXCEPT ![t] = "woken"]
  BY DEF IInv, SpuriousWakeUp
<1>1. /\ queue' = queue /\ nIdle' = nIdle /\ nTotal' = nTotal /\ fAllOk' = fAllOk /\ nTodo' = nTodo /\ fOk' = fOk
      /\ nNow' = nNow /\ batch' = batch /\ want' = want /\ result' = result /\ added' = added /\ rounds' = rounds
  BY DEF SpuriousWakeUp
<1>2. /\ pc' \in [Threads -> Places]
      /\ \A u \in Threads : pc'[u] # pc[u] => pc[u] = "waiting" /\ pc'[u] = "woken"
  BY <1>0 DEF TypeOK, Places
<1>3. TypeOK'
  BY <1>0, <1>1, <1>2 DEF TypeOK
<1> QED
  BY <1>1, <1>2, <1>3, WokenKeeps DEF IInv

LEMMA AddKeeps == ASSUME IInv, NEW b \in Batches, Add(b) PROVE IInv'
<1>0. TypeOK /\ b \in Seq(BOOLEAN)
  BY QueueAssumption DEF IInv
<1>1. /\ queue' = queue \o b /\ nTodo' = nTodo + Len(b) /\ want' = (want /\ AllTrue(b)) /\ added' = added + Len(b)
      /\ nIdle' = nIdle /\ nTotal' = nTotal /\ fAllOk' = fAllOk /\ batch' = batch /\ nNow' = nNow /\ fOk' = fOk
      /\ result' = result /\ rounds' = rounds
  BY DEF Add
<1>2. PICK S \in Notified(Len(b)) : pc' = [t \in Threads |-> IF t \in S THEN "woken" ELSE pc[t]]
  BY DEF Add
<1>3. \A u \in S : pc[u] = "waiting"
  BY DEF Notified
<1>4. /\ pc' \in [Threads -> Places]
      /\ \A u \in Threads : pc'[u] # pc[u] => pc[u] = "waiting" /\ pc'[u] = "woken"
  BY <1>0, <1>2, <1>3 DEF TypeOK, Places
<1>5. /\ queue' \in Seq(BOOLEAN) /\ Len(queue') = Len(queue) + Len(b)
      /\ AllTrue(queue') <=> AllTrue(queue) /\ AllTrue(b)
  BY <1>0, <1>1, AllTrueConcat DEF TypeOK
<1>6. Len(b) \in Nat /\ Len(queue) \in Nat /\ SumOver(nNow, Threads) \in Nat
  <2>1. Len(b) \in Nat /\ Len(queue) \in Nat
    BY SMT, <1>0 DEF TypeOK
  <2>2. \A u \in Threads : nNow[u] \in Nat
    BY <1>0 DEF TypeOK
  <2> QED
    BY <2>1, <2>2, SumNat, ThreadsFinite
<1>7. nTodo' \in Nat /\ added' \in Nat /\ nTodo' = Len(queue') + SumOver(nNow, Threads)
  <2>1. nTodo = Len(queue) + SumOver(nNow, Threads) /\ added \in Nat
    BY <1>0 DEF IInv, TypeOK
  <2> QED
    BY SMT, <1>1, <1>5, <1>6, <2>1
<1>8. want' \in BOOLEAN
  BY <1>1
<1>9. TypeOK'
  BY <1>0, <1>1, <1>4, <1>5, <1>7, <1>8 DEF TypeOK
<1>10. want' <=> fAllOk' /\ AllTrue(queue') /\ NoneFails(Threads, nNow', fOk', batch')
  BY <1>1, <1>5 DEF IInv
<1>11. ASSUME pc'[Master] = "out", added' = 0 PROVE queue' = <<>> /\ \A t \in Threads : nNow'[t] = 0
  <2>1. added = 0 /\ Len(b) = 0
    BY SMT, <1>0, <1>1, <1>6, <1>11 DEF TypeOK
  <2>2. queue = <<>> /\ \A t \in Threads : nNow[t] = 0
    BY <1>4, <1>11, <2>1, WokenKeeps DEF IInv
  <2>3. queue' = <<>>
    BY SMT, <1>0, <1>1, <2>1, <2>2
  <2> QED
    BY <1>1, <2>2, <2>3
<1> QED
  BY <1>1, <1>4, <1>7, <1>9, <1>10, <1>11, WokenKeeps DEF IInv

LEMMA WaitKeeps == ASSUME IInv, Wait PROVE IInv'
<1>0. TypeOK /\ pc[Master] = "out" /\ pc' = [pc EXCEPT ![Master] = "lock"] /\ Master \in Threads
  BY ThreadsFinite DEF IInv, Wait
<1>1. /\ queue' = queue /\ nIdle' = nIdle /\ nTotal' = nTotal /\ fAllOk' = fAllOk /\ nTodo' = nTodo /\ fOk' = fOk
      /\ nNow' = nNow /\ batch' = batch /\ want' = want /\ result' = result /\ added' = added /\ rounds' = rounds
  BY DEF Wait
<1>2. pc' \in [Threads -> Places] /\ pc'[Master] = "lock" /\ \A u \in Threads : u # Master => pc'[u] = pc[u]
  BY <1>0 DEF TypeOK, Places
<1>3. TypeOK'
  BY <1>0, <1>1, <1>2 DEF TypeOK
<1>4. \A u \in Threads : Holds(u, pc'[u], nNow'[u], batch'[u])
  BY <1>0, <1>1, <1>2 DEF IInv, Holds
<1>5. IdleIn(Threads, pc') = IdleIn(Threads, pc) /\ InLoop(Threads, pc', nNow) = InLoop(Threads, pc, nNow)
  BY <1>0, <1>2 DEF IdleIn, InLoop
<1> QED
  BY <1>1, <1>2, <1>3, <1>4, <1>5 DEF IInv

-----------------------------------------------------------------------------
LEMMA InitIInv == Init => IInv
<1> SUFFICES ASSUME Init PROVE IInv
  OBVIOUS
<1>0. 0 \in Nat /\ <<>> \in Seq(BOOLEAN) /\ Len(<<>>) = 0 /\ ~(0 > 0)
  BY SMT
<1>1. TypeOK
  BY <1>0 DEF Init, TypeOK, Places
<1>2. \A t \in Threads : nNow[t] = 0 /\ batch[t] = <<>> /\ pc[t] \in {"out", "lock"} /\ (pc[t] = "out" => t = Master)
  BY DEF Init
<1>3. \A t \in Threads : Holds(t, pc[t], nNow[t], batch[t])
  BY <1>2 DEF Holds
<1>4. SumOver(nNow, Threads) = 0
  BY <1>2, SumOfZeros, ThreadsFinite
<1>5. nTodo = Len(queue) + SumOver(nNow, Threads)
  <2>1. nTodo = 0 /\ queue = <<>>
    BY DEF Init
  <2> QED
    BY SMT, <1>0, <1>4, <2>1
<1>6. IdleIn(Threads, pc) = {} /\ InLoop(Threads, pc, nNow) = {}
  BY <1>0, <1>2 DEF IdleIn, InLoop
<1>7. nIdle = Cardinality(IdleIn(Threads, pc)) /\ nTotal = Cardinality(InLoop(Threads, pc, nNow))
  BY <1>6, FS_EmptySet DEF Init
<1>8. NoneFails(Threads, nNow, fOk, batch) /\ AllTrue(queue)
  BY <1>0, <1>2, AllTrueEmpty DEF NoneFails, Init
<1> QED
  BY <1>1, <1>2, <1>3, <1>5, <1>7, <1>8 DEF IInv, Init

LEMMA NextIInv == IInv /\ [Next]_vars => IInv'
<1> SUFFICES ASSUME IInv, [Next]_vars PROVE IInv'
  OBVIOUS
<1>1. CASE \E t \in Threads : Enter(t)
  BY <1>1, EnterKeeps
<1>2. CASE \E t \in Threads : WakeUp(t)
  BY <1>2, WakeUpKeeps
<1>3. CASE \E t \in Threads : Work(t)
  BY <1>3, WorkKeeps
<1>4. CASE \E t \in Threads : SpuriousWakeUp(t)
  BY <1>4, SpuriousWakeUpKeeps
<1>5. CASE \E b \in Batches : Add(b)
  BY <1>5, AddKeeps
<1>6. CASE Wait
  BY <1>6, WaitKeeps
<1>7. CASE UNCHANGED vars
  BY <1>7 DEF vars, IInv, TypeOK
<1> QED
  BY <1>1, <1>2, <1>3, <1>4, <1>5, <1>6, <1>7 DEF Next, Step

\* Whatever the number of worker threads, the batch size and the interleaving, Wait
\* returns true exactly when every check of the block succeeded, and a failure is never
\* lost between the queue, the batches and fAllOk.
THEOREM ChecksAccountedFor == Spec => []NoFailureLost
<1>1. IInv => NoFailureLost
  BY DEF IInv, NoFailureLost, NoneFails
<1> QED
  BY <1>1, InitIInv, NextIInv, PTL DEF Spec

\* nTodo, nIdle and nTotal are exact at every release of the mutex, and between two blocks
\* nothing is left in the queue or with a worker, so one block's checks never count for
\* the next.
THEOREM CountsStayExact == Spec => []CountersExact
<1>1. IInv => CountersExact
  <2> SUFFICES ASSUME IInv PROVE CountersExact
    OBVIOUS
  <2>1. nTodo = Len(queue) + FoldSet(LAMBDA t, n : nNow[t] + n, 0, Threads)
    BY DEF IInv, SumOver
  <2>2. \A t \in Threads : nNow[t] = 0 => pc[t] # "work"
    <3>1. ~(0 > 0)
      BY SMT
    <3> QED
      BY <3>1 DEF IInv, Holds
  <2>3. /\ nIdle = Cardinality({t \in Threads : pc[t] \in {"waiting", "woken"}})
        /\ nTotal = Cardinality({t \in Threads : pc[t] \in {"waiting", "woken", "work"} \/ nNow[t] > 0})
    BY DEF IInv, IdleIn, InLoop
  <2>4. pc[Master] = "out" /\ added = 0 => queue = <<>> /\ \A t \in Threads : pc[t] # "work" /\ nNow[t] = 0
    BY <2>2 DEF IInv
  <2> QED
    BY <2>1, <2>3, <2>4 DEF CountersExact
<1> QED
  BY <1>1, InitIInv, NextIInv, PTL DEF Spec
=============================================================================
