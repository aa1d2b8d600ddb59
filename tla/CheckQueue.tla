----------------------------- MODULE CheckQueue -----------------------------
(***************************************************************************)
(* CCheckQueue and CCheckQueueControl (checkqueue.h): the master adds      *)
(* batches of script checks, then joins the workers in Loop until all are  *)
(* done and Wait returns whether all succeeded.                            *)
(* A check is its result.  A step is what a thread does while it holds the *)
(* mutex, or the execution of one batch.  fQuit is never set.              *)
(***************************************************************************)
EXTENDS Naturals, Sequences, FiniteSets, SequencesExt, FiniteSetsExt

CONSTANTS
    Workers,            \* the threads of -par
    Master,             \* the thread in ConnectBlock
    BatchSize,          \* nBatchSize
    Batches,            \* what one Add may add
    MaxChecks,          \* bound: checks added before one Wait
    MaxRounds           \* bound: blocks checked

Threads == Workers \cup {Master}

ASSUME QueueAssumption ==
    /\ Master \notin Workers /\ IsFiniteSet(Workers)
    /\ BatchSize \in Nat \ {0} /\ Batches \subseteq Seq(BOOLEAN)
    /\ MaxChecks \in Nat /\ MaxRounds \in Nat

VARIABLES
    queue, nIdle, nTotal, fAllOk, nTodo,
    pc,         \* of each thread: "out", "lock", "waiting", "woken" or "work"
    batch,      \* vChecks of each thread
    nNow, fOk,  \* of each thread
    want,       \* whether all checks added since the last Wait succeed
    result,     \* what the last Wait returned
    added, rounds

vars == <<queue, nIdle, nTotal, fAllOk, nTodo, pc, batch, nNow, fOk, want, result, added, rounds>>

AllTrue(s) == \A i \in DOMAIN s : s[i]

-----------------------------------------------------------------------------
\* How many checks to take from n of them.
BatchOf(n, total, idle) == Max({1, Min({BatchSize, n \div (total + idle + 1)})})

\* With an empty queue: all is done, and the thread is the master.
MayReturn(t, todo) == t = Master /\ todo = 0

\* Loop returns in the master, and the status is reset for the next block.
Return(t, pcs, total, idle, ok, todo) ==
    /\ pc' = [pcs EXCEPT ![t] = "out"]
    /\ nTotal' = total - 1 /\ nIdle' = idle /\ nTodo' = todo /\ fAllOk' = TRUE
    /\ nNow' = [nNow EXCEPT ![t] = 0]
    /\ result' = [got |-> ok, want |-> want]
    /\ want' = TRUE /\ added' = 0 /\ rounds' = rounds + 1
    /\ UNCHANGED <<queue, batch, fOk>>

\* cond.wait; the checks of the thread's last batch are accounted for.
BlockOn(t, pcs, total, idle, ok, todo) ==
    /\ pc' = [pcs EXCEPT ![t] = "waiting"]
    /\ nTotal' = total /\ nIdle' = idle + 1 /\ nTodo' = todo /\ fAllOk' = ok
    /\ nNow' = [nNow EXCEPT ![t] = 0]
    /\ UNCHANGED <<queue, batch, fOk, want, result, added, rounds>>

\* A batch moves from the end of the queue to the thread.
TakeBatch(t, pcs, total, idle, ok, todo) ==
    LET n == BatchOf(Len(queue), total, idle)
    IN  /\ pc' = [pcs EXCEPT ![t] = "work"]
        /\ nTotal' = total /\ nIdle' = idle /\ nTodo' = todo /\ fAllOk' = ok
        /\ nNow' = [nNow EXCEPT ![t] = n]
        /\ batch' = [batch EXCEPT ![t] = SubSeq(queue, Len(queue) - n + 1, Len(queue))]
        /\ queue' = SubSeq(queue, 1, Len(queue) - n)
        /\ fOk' = [fOk EXCEPT ![t] = ok]
        /\ UNCHANGED <<want, result, added, rounds>>

\* From "logically, the do loop starts here" to the release of the mutex.
LoopHead(t, pcs, total, idle, ok, todo) ==
    IF queue # <<>> THEN TakeBatch(t, pcs, total, idle, ok, todo)
    ELSE IF MayReturn(t, todo) THEN Return(t, pcs, total, idle, ok, todo)
    ELSE BlockOn(t, pcs, total, idle, ok, todo)

\* condMaster.notify_one().
NotifyMaster(pcs) == IF pcs[Master] = "waiting" THEN [pcs EXCEPT ![Master] = "woken"] ELSE pcs

\* Seeded fault: the worker that ends the last batch does not notify the master.
EnterQuiet(t) ==
    /\ pc[t] = "lock"
    /\ IF nNow[t] = 0
         THEN LoopHead(t, pc, nTotal + 1, nIdle, fAllOk, nTodo)
         ELSE LoopHead(t, pc, nTotal, nIdle, fAllOk /\ fOk[t], nTodo - nNow[t])

\* Seeded fault: the result of the batch replaces that of the others.
EnterOverwrites(t) ==
    /\ pc[t] = "lock"
    /\ IF nNow[t] = 0
         THEN LoopHead(t, pc, nTotal + 1, nIdle, fAllOk, nTodo)
         ELSE LET todo == nTodo - nNow[t]
                  pcs == IF todo = 0 /\ t # Master THEN NotifyMaster(pc) ELSE pc
              IN  LoopHead(t, pcs, nTotal, nIdle, fOk[t], todo)

\* The thread gets the mutex on entering Loop, or with a batch done.
Enter(t) ==
    /\ pc[t] = "lock"
    /\ IF nNow[t] = 0
         THEN LoopHead(t, pc, nTotal + 1, nIdle, fAllOk, nTodo)
         ELSE LET todo == nTodo - nNow[t]
                  pcs == IF todo = 0 /\ t # Master THEN NotifyMaster(pc) ELSE pc
              IN  LoopHead(t, pcs, nTotal, nIdle, fAllOk /\ fOk[t], todo)

\* A notified thread has the mutex again.
WakeUp(t) ==
    /\ pc[t] = "woken"
    /\ LoopHead(t, pc, nTotal, nIdle - 1, fAllOk, nTodo)

\* A condition variable may wake a thread nobody notified.
SpuriousWakeUp(t) ==
    /\ pc[t] = "waiting" /\ pc' = [pc EXCEPT ![t] = "woken"]
    /\ UNCHANGED <<queue, nIdle, nTotal, fAllOk, nTodo, batch, nNow, fOk, want, result, added, rounds>>

\* The batch is executed, without the mutex, up to the first failure.
Work(t) ==
    /\ pc[t] = "work" /\ pc' = [pc EXCEPT ![t] = "lock"]
    /\ fOk' = [fOk EXCEPT ![t] = @ /\ AllTrue(batch[t])]
    /\ batch' = [batch EXCEPT ![t] = <<>>]
    /\ UNCHANGED <<queue, nIdle, nTotal, fAllOk, nTodo, nNow, want, result, added, rounds>>

\* condWorker.notify_one() for one check, notify_all() for more, neither for none.
Notified(n) ==
    LET waiting == {t \in Workers : pc[t] = "waiting"}
        number == IF n > 1 THEN Cardinality(waiting) ELSE Min({n, Cardinality(waiting)})
    IN  {S \in SUBSET waiting : Cardinality(S) = number}

\* Seeded fault: checks that come while others are at work are not counted.
AddUncounted(b) ==
    /\ pc[Master] = "out" /\ rounds < MaxRounds /\ added + Len(b) <= MaxChecks
    /\ queue' = queue \o b /\ nTodo' = IF nTodo = 0 THEN Len(b) ELSE nTodo
    /\ want' = (want /\ AllTrue(b)) /\ added' = added + Len(b)
    /\ \E S \in Notified(Len(b)) : pc' = [t \in Threads |-> IF t \in S THEN "woken" ELSE pc[t]]
    /\ UNCHANGED <<nIdle, nTotal, fAllOk, batch, nNow, fOk, result, rounds>>

\* Add, by the master.
Add(b) ==
    /\ pc[Master] = "out" /\ rounds < MaxRounds /\ added + Len(b) <= MaxChecks
    /\ queue' = queue \o b /\ nTodo' = nTodo + Len(b)
    /\ want' = (want /\ AllTrue(b)) /\ added' = added + Len(b)
    /\ \E S \in Notified(Len(b)) : pc' = [t \in Threads |-> IF t \in S THEN "woken" ELSE pc[t]]
    /\ UNCHANGED <<nIdle, nTotal, fAllOk, batch, nNow, fOk, result, rounds>>

\* CCheckQueueControl::Wait, called once for every block, by the destructor at the latest.
Wait ==
    /\ pc[Master] = "out" /\ rounds < MaxRounds
    /\ pc' = [pc EXCEPT ![Master] = "lock"]
    /\ UNCHANGED <<queue, nIdle, nTotal, fAllOk, nTodo, batch, nNow, fOk, want, result, added, rounds>>

Init ==
    /\ queue = <<>> /\ nIdle = 0 /\ nTotal = 0 /\ fAllOk = TRUE /\ nTodo = 0
    /\ pc = [t \in Threads |-> IF t = Master THEN "out" ELSE "lock"]
    /\ batch = [t \in Threads |-> <<>>] /\ nNow = [t \in Threads |-> 0]
    /\ fOk = [t \in Threads |-> TRUE]
    /\ want = TRUE /\ result = [got |-> TRUE, want |-> TRUE] /\ added = 0 /\ rounds = 0

Step(t) == Enter(t) \/ WakeUp(t) \/ Work(t)

Next ==
    \/ \E t \in Threads : Step(t) \/ SpuriousWakeUp(t)
    \/ \E b \in Batches : Add(b)
    \/ Wait

\* Threads that are not blocked run: the mutex is released and handed on, scripts end.
Spec == Init /\ [][Next]_vars /\ \A t \in Threads : WF_vars(Step(t))

-----------------------------------------------------------------------------
\* Wait says that all checks of the block succeeded exactly when they all did, and no
\* failure is lost on its way: a check that failed or will fail is in the queue, in a
\* thread's batch or result, or in fAllOk.
NoFailureLost ==
    /\ result.got = result.want
    /\ want <=> fAllOk /\ AllTrue(queue) /\ \A t \in Threads : nNow[t] > 0 => fOk[t] /\ AllTrue(batch[t])

\* "Number of verifications that haven't completed yet. This includes elements that are no
\* longer queued, but still in the worker's own batches"; between two blocks it is zero
\* and nothing is left over.  The thread counts size the batches: idle threads wait or
\* were just woken, and the total counts those inside Loop.
CountersExact ==
    /\ nTodo = Len(queue) + FoldSet(LAMBDA t, n : nNow[t] + n, 0, Threads)
    /\ pc[Master] = "out" /\ added = 0 => queue = <<>> /\ \A t \in Threads : pc[t] # "work" /\ nNow[t] = 0
    /\ nIdle = Cardinality({t \in Threads : pc[t] \in {"waiting", "woken"}})
    /\ nTotal = Cardinality({t \in Threads : pc[t] \in {"waiting", "woken", "work"} \/ nNow[t] > 0})

\* Wait returns: no wake-up is lost between a worker and the master.
WaitReturns == pc[Master] = "lock" ~> pc[Master] = "out"
=============================================================================
