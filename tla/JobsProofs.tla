----------------------------- MODULE JobsProofs -----------------------------
(***************************************************************************)
(* Proofs about Jobs, for any number of processes, workers, jobs, crashes  *)
(* and faults.  IInv is inductive; SingleRunner, HolderOwnsRow and         *)
(* FailsOnLastAttempt are conjuncts of it.  From it: the refinement of the *)
(* queue's promise, that stop() drains, that rows are orphaned by faults   *)
(* only, and that no job starts a second early.                            *)
(***************************************************************************)
EXTENDS Jobs, TLAPS

\* Every retry delay is a number of ticks.
LEMMA BackoffType == ASSUME NEW n \in 1 .. MaxAttempts PROVE Backoff(n) \in Int
  BY JobsAssumption DEF Backoff

LEMMA InitIInv == Init => IInv
<1> SUFFICES ASSUME Init PROVE IInv
  OBVIOUS
<1> USE JobsAssumption DEF Init
<1>1. (CHOOSE q \in Queues : TRUE) \in Queues
  OBVIOUS
<1>2. TypeOK
  BY <1>1 DEF TypeOK, Ids, NoJob, Statuses, Places
<1>3. InClaim /\ HoldsARow /\ WriterCommits
  BY DEF InClaim, HoldsARow, WriterCommits, Claiming, Holding
<1>4. SingleRunner /\ HolderOwnsRow /\ FailsOnLastAttempt
  BY DEF SingleRunner, HolderOwnsRow, FailsOnLastAttempt, Holding
<1>5. FreshIds
  BY DEF FreshIds
<1> QED
  BY <1>2, <1>3, <1>4, <1>5 DEF IInv

\* The type invariant alone is not inductive: a claim stays below MaxAttempts because the
\* row it commits is still pending.
LEMMA StepTypeOK == IInv /\ [Next]_vars => TypeOK'
<1> SUFFICES ASSUME IInv, [Next]_vars PROVE TypeOK'
  OBVIOUS
<1> USE JobsAssumption DEF IInv, TypeOK, table, worker, bounds, WorkersOf, Drops, Commits, Goto
<1>1. CASE Tick
  BY <1>1 DEF Tick
<1>2. ASSUME NEW h \in Handles, Create(h) \/ Close(h) PROVE TypeOK'
  BY <1>2 DEF Create, Close
<1>3. ASSUME NEW h \in Handles, Process(h) PROVE TypeOK'
  BY <1>3 DEF Process, Places
<1>4. ASSUME NEW h \in Handles, Crash(h) PROVE TypeOK'
  BY <1>4 DEF Crash, Places
<1>5. ASSUME NEW h \in Handles, NEW delay \in Delays, Enqueue(h, delay) PROVE TypeOK'
  BY <1>5 DEF Enqueue, Statuses, Ids
<1>6. ASSUME NEW w \in Workers, Poll(w) \/ Handler(w) \/ Wait(w) \/ HandlerStop(w) \/ HandlerCloses(w) PROVE TypeOK'
  BY <1>6 DEF Poll, Handler, Wait, HandlerStop, HandlerCloses, Places
<1>7. ASSUME NEW w \in Workers, ClaimSelect(w) PROVE TypeOK'
  <2>1. /\ pc' \in [Workers -> Places]
        /\ conn' \in [Handles -> Workers \cup {Nobody}]
        /\ stale' \in [Workers -> BOOLEAN]
    <3>1. \/ /\ pc' = [pc EXCEPT ![w] = "backOff"] \/ pc' = [pc EXCEPT ![w] = "idle"]
             /\ UNCHANGED <<conn, stale>>
          \/ /\ pc' = [pc EXCEPT ![w] = "update"]
             /\ conn' = [conn EXCEPT ![HandleOf[w]] = w]
             /\ stale' = [stale EXCEPT ![w] = FALSE]
      BY <1>7 DEF ClaimSelect
    <3>2. pc' \in [Workers -> Places]
      BY <3>1 DEF Places
    <3>3. conn' \in [Handles -> Workers \cup {Nobody}]
      BY <3>1
    <3>4. stale' \in [Workers -> BOOLEAN]
      BY <3>1
    <3> QED
      BY <3>2, <3>3, <3>4
  <2>2. job' \in [Workers -> Ids \cup {NoJob}] /\ tried' \in [Workers -> 0 .. MaxAttempts]
    <3>1. CASE UNCHANGED <<job, tried>>
      BY <3>1
    <3>2. ASSUME NEW j \in Ids, job' = [job EXCEPT ![w] = j], tried' = [tried EXCEPT ![w] = attempts[j]]
          PROVE  job' \in [Workers -> Ids \cup {NoJob}] /\ tried' \in [Workers -> 0 .. MaxAttempts]
      BY <3>2
    <3> QED
      BY <1>7, <3>1, <3>2 DEF ClaimSelect, Claimable
  <2> QED
    BY <1>7, <2>1, <2>2 DEF ClaimSelect
<1>8. ASSUME NEW w \in Workers, ClaimUpdate(w) \/ ClaimRefused(w) \/ ClaimLost(w) PROVE TypeOK'
  BY <1>8 DEF ClaimUpdate, ClaimRefused, ClaimLost, Places
<1>9. ASSUME NEW w \in Workers, ClaimCommit(w) PROVE TypeOK'
  <2>1. job[w] \in Ids /\ attempts[job[w]] < MaxAttempts /\ tried[w] = attempts[job[w]]
    BY <1>9 DEF ClaimCommit, InClaim, Claiming, FailsOnLastAttempt
  <2> QED
    BY <1>9, <2>1 DEF ClaimCommit, Statuses, Places
<1>10. ASSUME NEW w \in Workers, MarkDone(w) PROVE TypeOK'
  <2>1. job[w] \in Ids
    BY <1>10 DEF MarkDone, HoldsARow, Holding
  <2> QED
    BY <1>10, <2>1 DEF MarkDone, Statuses, Places
<1>11. ASSUME NEW w \in Workers, MarkFailed(w) PROVE TypeOK'
  <2>1. job[w] \in Ids /\ tried[w] \in 1 .. MaxAttempts
    BY <1>11 DEF MarkFailed, HoldsARow, Holding
  <2>2. Backoff(tried[w]) \in Int
    BY <2>1, BackoffType
  <2>3. status' \in [Ids -> Statuses] /\ due' \in [Ids -> Int]
    BY <1>11, <2>1, <2>2 DEF MarkFailed, Statuses
  <2> QED
    BY <1>11, <2>3 DEF MarkFailed, Places
<1>12. ASSUME NEW w \in Workers, MarkClosed(w) \/ MarkFault(w) PROVE TypeOK'
  BY <1>12 DEF MarkClosed, MarkFault, MarkDiscarded, Places
<1>13. ASSUME NEW c \in Callers, StopStep(c) PROVE TypeOK'
  BY <1>13 DEF StopStep, StopCheck, StopClose, StopReturn
<1>14. CASE UNCHANGED vars
  BY <1>14 DEF vars
<1> QED
  BY <1>1, <1>2, <1>3, <1>4, <1>5, <1>6, <1>7, <1>8, <1>9, <1>10, <1>11, <1>12, <1>13, <1>14
  DEF Next, WorkerStep

\* Conjuncts of IInv that relate workers to rows, as one formula.
RowInv == /\ FreshIds
          /\ InClaim
          /\ HoldsARow
          /\ WriterCommits
          /\ SingleRunner
          /\ HolderOwnsRow
          /\ FailsOnLastAttempt

\* Steps that touch neither the rows' statuses nor a transaction, and move workers only
\* within the places outside a claim, or within those that hold a job.
LEMMA QuietStep ==
  ASSUME IInv, TypeOK',
         UNCHANGED <<lastId, status, queue, attempts, writer, stale, conn, job, tried>>,
         \A w \in Workers : \/ pc'[w] = pc[w]
                            \/ pc'[w] \in Holding /\ pc[w] \in Holding
                            \/ /\ pc[w] \notin Holding \cup Claiming
                               /\ pc'[w] \notin Holding \cup Claiming
  PROVE  RowInv'
<1> USE DEF IInv, Holding, Claiming
<1>1. InClaim'
  BY DEF InClaim
<1>2. HoldsARow' /\ HolderOwnsRow' /\ FailsOnLastAttempt'
  BY DEF HoldsARow, HolderOwnsRow, FailsOnLastAttempt
<1>3. WriterCommits'
  BY DEF WriterCommits, TypeOK
<1>4. SingleRunner' /\ FreshIds'
  BY DEF SingleRunner, FreshIds
<1> QED
  BY <1>1, <1>2, <1>3, <1>4 DEF RowInv

\* A new row has an id that no worker knows.
LEMMA EnqueueStep ==
  ASSUME IInv, TypeOK', NEW h \in Handles, NEW delay \in Delays, Enqueue(h, delay)
  PROVE  RowInv'
<1> USE JobsAssumption DEF IInv, TypeOK, Enqueue, Commits, worker, bounds, Holding, Claiming
<1>1. /\ lastId + 1 \in Ids
      /\ status[lastId + 1] = "absent"
      /\ attempts[lastId + 1] = 0
  BY DEF Ids, FreshIds
<1>2. InClaim'
  <2>1. \A w \in Workers : pc[w] # "commit"
    BY DEF InClaim, Writable
  <2> QED
    BY <2>1 DEF InClaim
<1>3. HoldsARow' /\ WriterCommits' /\ SingleRunner'
  BY DEF HoldsARow, WriterCommits, SingleRunner
<1>4. HolderOwnsRow'
  BY <1>1 DEF HolderOwnsRow, HoldsARow
<1>5. FailsOnLastAttempt'
  BY <1>1 DEF FailsOnLastAttempt
<1>6. FreshIds'
  BY DEF FreshIds, Ids
<1> QED
  BY <1>2, <1>3, <1>4, <1>5, <1>6 DEF RowInv

\* The transaction reads a pending row, and nobody else has the handle's connection.
LEMMA SelectStep ==
  ASSUME IInv, TypeOK', NEW w \in Workers, ClaimSelect(w) PROVE RowInv'
<1> USE JobsAssumption DEF IInv, TypeOK, table, bounds, Holding, Claiming
<1>1. CASE pc'[w] # "update"
  BY <1>1, QuietStep DEF ClaimSelect
<1>2. CASE pc'[w] = "update"
  <2>1. PICK j \in Claimable(HandleOf[w]) :
           /\ conn[HandleOf[w]] = Nobody
           /\ pc[w] = "claim"
           /\ pc' = [pc EXCEPT ![w] = "update"]
           /\ conn' = [conn EXCEPT ![HandleOf[w]] = w]
           /\ stale' = [stale EXCEPT ![w] = FALSE]
           /\ job' = [job EXCEPT ![w] = j]
           /\ tried' = [tried EXCEPT ![w] = attempts[j]]
           /\ UNCHANGED <<lastId, status, queue, attempts, writer>>
    BY <1>2 DEF ClaimSelect
  <2>2. j \in Ids /\ status[j] = "pending" /\ queue[j] = QueueOf[HandleOf[w]]
    BY DEF Claimable
  <2>3. InClaim'
    BY <2>1, <2>2 DEF InClaim
  <2>4. HoldsARow' /\ HolderOwnsRow' /\ SingleRunner'
    BY <2>1 DEF HoldsARow, HolderOwnsRow, SingleRunner
  <2>5. WriterCommits'
    BY <2>1 DEF WriterCommits
  <2>6. FreshIds' /\ FailsOnLastAttempt'
    BY <2>1 DEF FreshIds, FailsOnLastAttempt
  <2> QED
    BY <2>3, <2>4, <2>5, <2>6 DEF RowInv
<1> QED
  BY <1>1, <1>2

LEMMA UpdateStep ==
  ASSUME IInv, TypeOK', NEW w \in Workers, ClaimUpdate(w) PROVE RowInv'
<1> USE JobsAssumption DEF IInv, TypeOK, table, bounds, Holding, Claiming, ClaimUpdate, Goto
<1>1. InClaim'
  BY DEF InClaim
<1>2. HoldsARow' /\ HolderOwnsRow' /\ SingleRunner'
  BY DEF HoldsARow, HolderOwnsRow, SingleRunner
<1>3. WriterCommits'
  BY DEF WriterCommits
<1>4. FreshIds' /\ FailsOnLastAttempt'
  BY DEF FreshIds, FailsOnLastAttempt
<1> QED
  BY <1>1, <1>2, <1>3, <1>4 DEF RowInv

\* The refused worker leaves the transaction; the lock, if held, is another worker's, or
\* is released with it.
LEMMA RefusedStep ==
  ASSUME IInv, TypeOK', NEW w \in Workers, ClaimRefused(w) \/ ClaimLost(w) PROVE RowInv'
<1> USE JobsAssumption DEF IInv, TypeOK, table, bounds, Holding, Claiming, ClaimRefused, ClaimLost, Goto, Drops
<1>1. \A v \in Workers : pc[v] \in {"update", "commit"} /\ v # w => HandleOf[v] # HandleOf[w]
  BY DEF InClaim
<1>2. InClaim'
  BY <1>1 DEF InClaim
<1>3. HoldsARow' /\ HolderOwnsRow' /\ SingleRunner'
  BY DEF HoldsARow, HolderOwnsRow, SingleRunner
<1>4. WriterCommits'
  BY DEF WriterCommits
<1>5. FreshIds' /\ FailsOnLastAttempt'
  BY DEF FreshIds, FailsOnLastAttempt
<1> QED
  BY <1>2, <1>3, <1>4, <1>5 DEF RowInv

\* The committed row was pending, so no other worker holds it; every other transaction
\* is outdated by the commit.
LEMMA CommitStep ==
  ASSUME IInv, TypeOK', NEW w \in Workers, ClaimCommit(w) PROVE RowInv'
<1> USE JobsAssumption DEF IInv, TypeOK, table, bounds, Holding, Claiming, ClaimCommit, Goto, Commits
<1>1. /\ job[w] \in Ids
      /\ status[job[w]] = "pending"
      /\ queue[job[w]] = QueueOf[HandleOf[w]]
      /\ tried[w] = attempts[job[w]]
      /\ attempts[job[w]] < MaxAttempts
      /\ writer = w
      /\ \A v \in Workers : pc[v] = "commit" => v = w
  BY DEF InClaim, FailsOnLastAttempt
<1>2. \A v \in Workers : pc[v] \in {"update", "commit"} /\ v # w => HandleOf[v] # HandleOf[w]
  BY DEF InClaim
<1>3. \A v \in Workers : pc[v] \in Holding => job[v] # job[w]
  BY <1>1 DEF HolderOwnsRow
<1>4. InClaim'
  <2>1. \A v \in Workers : pc'[v] = "update" => pc[v] = "update" /\ stale'[v] /\ v # w
    OBVIOUS
  <2>2. \A v \in Workers : pc[v] = "update" /\ v # w => job[v] \in Ids /\ conn'[HandleOf[v]] = v
    BY <1>2 DEF InClaim
  <2>3. \A v \in Workers : pc'[v] # "commit"
    BY <1>1
  <2> QED
    BY <2>1, <2>2, <2>3 DEF InClaim
<1>5. HoldsARow' /\ SingleRunner' /\ WriterCommits'
  BY <1>1, <1>3 DEF HoldsARow, SingleRunner, WriterCommits
<1>6. HolderOwnsRow'
  BY <1>1, <1>3 DEF HolderOwnsRow, HoldsARow
<1>7. FreshIds' /\ FailsOnLastAttempt'
  BY <1>1 DEF FreshIds, FailsOnLastAttempt
<1> QED
  BY <1>4, <1>5, <1>6, <1>7 DEF RowInv

\* The worker's row is running, so no transaction that can still commit has selected it.
LEMMA MarkStep ==
  ASSUME IInv, TypeOK', NEW w \in Workers, MarkDone(w) \/ MarkFailed(w) PROVE RowInv'
<1> USE JobsAssumption DEF IInv, TypeOK, table, bounds, Holding, Claiming, Goto, Commits, Drops
<1>1. /\ job[w] \in Ids
      /\ status[job[w]] = "running"
      /\ tried[w] = attempts[job[w]]
      /\ pc[w] \in {"succeeded", "erred"}
      /\ writer = Nobody
      /\ \A v \in Workers : pc[v] # "commit"
      /\ \A v \in Workers : pc[v] \in Holding /\ v # w => job[v] # job[w]
  BY DEF MarkDone, MarkFailed, Writable, HoldsARow, HolderOwnsRow, InClaim, SingleRunner
<1>2. /\ pc' = [pc EXCEPT ![w] = "poll"]
      /\ \E st \in {"done", "failed", "pending"} :
            /\ status' = [status EXCEPT ![job[w]] = st]
            /\ st = "failed" => attempts[job[w]] = MaxAttempts
            /\ st = "pending" => attempts[job[w]] < MaxAttempts
      /\ stale' = [v \in Workers |-> pc[v] = "update"]
      /\ Drops(w)
      /\ UNCHANGED <<lastId, queue, attempts, writer, conn>>
  <2>1. CASE MarkDone(w)
    BY <2>1 DEF MarkDone
  <2>2. CASE MarkFailed(w)
    BY <1>1, <2>2 DEF MarkFailed
  <2> QED
    BY <2>1, <2>2
<1>3. InClaim'
  <2>1. \A v \in Workers : pc'[v] = "update" => stale'[v]
    BY <1>2
  <2>2. \A v \in Workers : pc'[v] # "commit"
    BY <1>1, <1>2
  <2>3. ASSUME NEW v \in Workers, pc'[v] = "update"
        PROVE  job'[v] \in Ids /\ conn'[HandleOf[v]] = v
    <3>1. v # w /\ pc[v] = "update"
      BY <1>2, <2>3
    <3>2. job'[v] = job[v]
      BY <1>2, <3>1
    <3>3. job[v] \in Ids /\ conn[HandleOf[v]] = v
      BY <3>1 DEF InClaim
    <3> QED
      BY <1>2, <3>2, <3>3
  <2> QED
    BY <2>1, <2>2, <2>3 DEF InClaim
<1>4. HoldsARow' /\ SingleRunner' /\ WriterCommits'
  BY <1>1, <1>2 DEF HoldsARow, SingleRunner, WriterCommits
<1>5. HolderOwnsRow'
  BY <1>1, <1>2 DEF HolderOwnsRow, HoldsARow
<1>6. FreshIds' /\ FailsOnLastAttempt'
  BY <1>1, <1>2 DEF FreshIds, FailsOnLastAttempt
<1> QED
  BY <1>3, <1>4, <1>5, <1>6 DEF RowInv

LEMMA DiscardStep ==
  ASSUME IInv, TypeOK', NEW w \in Workers, MarkDiscarded(w) PROVE RowInv'
<1> USE DEF IInv, TypeOK, table, bounds, Holding, Claiming, MarkDiscarded, Goto, Drops
<1>1. InClaim'
  BY DEF InClaim
<1>2. HoldsARow' /\ HolderOwnsRow' /\ SingleRunner' /\ WriterCommits'
  BY DEF HoldsARow, HolderOwnsRow, SingleRunner, WriterCommits
<1>3. FreshIds' /\ FailsOnLastAttempt'
  BY DEF FreshIds, FailsOnLastAttempt
<1> QED
  BY <1>1, <1>2, <1>3 DEF RowInv

\* The rows stay; the workers of the process hold nothing any more.
LEMMA CrashStep ==
  ASSUME IInv, TypeOK', NEW h \in Handles, Crash(h) PROVE RowInv'
<1> USE JobsAssumption DEF IInv, TypeOK, table, Holding, Claiming, Crash, WorkersOf
<1>1. InClaim'
  BY DEF InClaim
<1>2. HoldsARow' /\ HolderOwnsRow' /\ SingleRunner' /\ WriterCommits'
  BY DEF HoldsARow, HolderOwnsRow, SingleRunner, WriterCommits
<1>3. FreshIds' /\ FailsOnLastAttempt'
  BY DEF FreshIds, FailsOnLastAttempt
<1> QED
  BY <1>1, <1>2, <1>3 DEF RowInv

LEMMA StepIInv == IInv /\ [Next]_vars => IInv'
<1> SUFFICES ASSUME IInv, [Next]_vars PROVE RowInv'
  BY StepTypeOK DEF IInv, RowInv
<1>0. TypeOK'
  BY StepTypeOK
<1> USE DEF IInv, table, worker, bounds
<1>1. CASE Tick \/ UNCHANGED vars
  BY <1>0, <1>1, QuietStep DEF Tick, vars
<1>2. ASSUME NEW h \in Handles, Create(h) \/ Close(h) PROVE RowInv'
  BY <1>0, <1>2, QuietStep DEF Create, Close
<1>3. ASSUME NEW h \in Handles, Process(h) PROVE RowInv'
  BY <1>0, <1>3, QuietStep DEF Process, WorkersOf, Holding, Claiming, TypeOK
<1>4. ASSUME NEW c \in Callers, StopStep(c) PROVE RowInv'
  BY <1>0, <1>4, QuietStep DEF StopStep, StopCheck, StopClose, StopReturn
<1>5. ASSUME NEW w \in Workers, Poll(w) \/ Handler(w) \/ Wait(w) \/ HandlerStop(w) \/ HandlerCloses(w) PROVE RowInv'
  BY <1>0, <1>5, QuietStep DEF Poll, Handler, Wait, HandlerStop, HandlerCloses, Goto, Holding, Claiming, TypeOK
<1>6. ASSUME NEW w \in Workers, MarkClosed(w) \/ MarkFault(w) PROVE RowInv'
  BY <1>0, <1>6, DiscardStep DEF MarkClosed, MarkFault
<1> QED
  BY <1>0, <1>1, <1>2, <1>3, <1>4, <1>5, <1>6, EnqueueStep, SelectStep, UpdateStep, RefusedStep,
     CommitStep, MarkStep, CrashStep
  DEF Next, WorkerStep
-----------------------------------------------------------------------------
\* The table, the transactions and the workers' places always have their types.
THEOREM TypeCorrect == Spec => []TypeOK
<1>1. IInv => TypeOK
  BY DEF IInv
<1> QED
  BY <1>1, InitIInv, StepIInv, PTL DEF Spec

\* No job is ever in the hands of two workers, whatever the processes, crashes and faults.
THEOREM JobsExclusion == Spec => []SingleRunner
<1>1. IInv => SingleRunner
  BY DEF IInv
<1> QED
  BY <1>1, InitIInv, StepIInv, PTL DEF Spec

\* A worker's copy of its job agrees with the table for as long as it holds the job.
THEOREM HolderAgrees == Spec => []HolderOwnsRow
<1>1. IInv => HolderOwnsRow
  BY DEF IInv
<1> QED
  BY <1>1, InitIInv, StepIInv, PTL DEF Spec

\* A job is given up after exactly max_attempts tries, never before and never after.
THEOREM AttemptsExhausted == Spec => []FailsOnLastAttempt
<1>1. IInv => FailsOnLastAttempt
  BY DEF IInv
<1> QED
  BY <1>1, InitIInv, StepIInv, PTL DEF Spec
-----------------------------------------------------------------------------
(***************************************************************************)
(* Jobs implements JobQueue.                                               *)
(***************************************************************************)
LEMMA HolderFacts ==
  ASSUME IInv, IInv', NEW j \in Ids
  PROVE  /\ \A w \in Workers : Holds(w, j) => HolderOf(j) = w
         /\ (\A w \in Workers : ~Holds(w, j)) => HolderOf(j) = Nobody
         /\ \A w \in Workers : Holds(w, j)' => HolderOf(j)' = w
         /\ (\A w \in Workers : ~Holds(w, j)') => HolderOf(j)' = Nobody
<1>1. \A w \in Workers : Holds(w, j) => \A v \in Workers : Holds(v, j) => v = w
  BY DEF IInv, SingleRunner, Holds
<1>2. \A w \in Workers : Holds(w, j)' => \A v \in Workers : Holds(v, j)' => v = w
  BY DEF IInv, SingleRunner, Holds
<1> QED
  BY <1>1, <1>2 DEF HolderOf

\* When nobody takes or drops a job, the abstract holders stay.
LEMMA HoldersStay ==
  ASSUME IInv, IInv', \A w \in Workers, j \in Ids : Holds(w, j)' <=> Holds(w, j)
  PROVE  [j \in Ids |-> HolderOf(j)]' = [j \in Ids |-> HolderOf(j)]
<1>1. ASSUME NEW j \in Ids PROVE HolderOf(j)' = HolderOf(j)
  BY HolderFacts
<1> QED
  BY <1>1

LEMMA InitPromise == Init => Promise!Init
<1> SUFFICES ASSUME Init PROVE Promise!Init
  OBVIOUS
<1>1. \A j \in Ids : HolderOf(j) = Nobody
  BY DEF Init, HolderOf, Holds, Holding
<1> QED
  BY <1>1 DEF Init, Promise!Init

LEMMA StepPromise == IInv /\ IInv' /\ [Next]_vars => [Promise!Next]_(Promise!vars)
<1> SUFFICES ASSUME IInv, IInv', [Next]_vars PROVE [Promise!Next]_(Promise!vars)
  OBVIOUS
<1> USE JobsAssumption DEF IInv, TypeOK, table, worker, bounds, Goto, Drops
<1>1. ASSUME UNCHANGED <<status, attempts>>, \A w \in Workers, j \in Ids : Holds(w, j)' <=> Holds(w, j)
      PROVE  UNCHANGED Promise!vars
  BY <1>1, HoldersStay DEF Promise!vars
<1>2. CASE Tick \/ UNCHANGED vars
  BY <1>1, <1>2 DEF Tick, vars, Holds
<1>3. ASSUME NEW h \in Handles, Create(h) \/ Close(h) \/ Process(h) PROVE UNCHANGED Promise!vars
  BY <1>1, <1>3 DEF Create, Close, Process, Holds, Holding, WorkersOf
<1>4. ASSUME NEW c \in Callers, StopStep(c) PROVE UNCHANGED Promise!vars
  BY <1>1, <1>4 DEF StopStep, StopCheck, StopClose, StopReturn, Holds
<1>5. ASSUME NEW w \in Workers, Poll(w) \/ Handler(w) \/ Wait(w) \/ HandlerStop(w) \/ HandlerCloses(w)
      PROVE  UNCHANGED Promise!vars
  BY <1>1, <1>5 DEF Poll, Handler, Wait, HandlerStop, HandlerCloses, Holds, Holding
<1>6. ASSUME NEW w \in Workers, ClaimSelect(w) PROVE UNCHANGED Promise!vars
  BY <1>1, <1>6 DEF ClaimSelect, Holds, Holding
<1>7. ASSUME NEW w \in Workers, ClaimUpdate(w) \/ ClaimRefused(w) \/ ClaimLost(w) PROVE UNCHANGED Promise!vars
  BY <1>1, <1>7 DEF ClaimUpdate, ClaimRefused, ClaimLost, Holds, Holding
<1>8. ASSUME NEW h \in Handles, NEW delay \in Delays, Enqueue(h, delay) PROVE Promise!Next
  <2>1. lastId + 1 \in Ids /\ status[lastId + 1] = "absent"
    BY <1>8 DEF Enqueue, FreshIds, Ids
  <2>2. UNCHANGED [j \in Ids |-> HolderOf(j)]
    BY <1>8, HoldersStay DEF Enqueue, Holds
  <2>3. Promise!Enqueue(lastId + 1)
    BY <1>8, <2>1, <2>2 DEF Enqueue, Promise!Enqueue
  <2> QED
    BY <2>1, <2>3 DEF Promise!Next
<1>9. ASSUME NEW w \in Workers, ClaimCommit(w) PROVE Promise!Next
  <2>0. job[w] \in Ids /\ status[job[w]] = "pending" /\ attempts[job[w]] < MaxAttempts
    BY <1>9 DEF ClaimCommit, InClaim, FailsOnLastAttempt, Claiming
  <2> PICK k \in Ids : k = job[w]
    BY <2>0
  <2>1. k \in Ids /\ status[k] = "pending" /\ attempts[k] < MaxAttempts /\ pc[w] = "commit"
    BY <1>9, <2>0 DEF ClaimCommit
  <2>2. \A j \in Ids : HolderOf(j) # w
    BY <2>1 DEF HolderOf, Holds, Holding
  <2>3. \A v \in Workers, j \in Ids : Holds(v, j)' <=> (Holds(v, j) \/ (v = w /\ j = k))
    BY <1>9, <2>1 DEF ClaimCommit, Holds, Holding
  <2>4. \A v \in Workers : ~Holds(v, k)
    BY <2>1 DEF Holds, HolderOwnsRow
  <2>5. [j \in Ids |-> HolderOf(j)]' = [[j \in Ids |-> HolderOf(j)] EXCEPT ![k] = w]
    <3>1. ASSUME NEW j \in Ids, j # k PROVE HolderOf(j)' = HolderOf(j)
      BY <2>3, <3>1, HolderFacts
    <3>2. HolderOf(k)' = w
      BY <2>1, <2>3, HolderFacts
    <3> QED
      BY <2>1, <3>1, <3>2
  <2>6. Promise!Claim(w, k)
    BY <1>9, <2>1, <2>2, <2>5 DEF ClaimCommit, Promise!Claim
  <2> QED
    BY <2>1, <2>6 DEF Promise!Next
<1>10. ASSUME NEW w \in Workers, MarkDone(w) \/ MarkFailed(w) PROVE Promise!Next
  <2>0. pc[w] \in {"succeeded", "erred"} /\ job[w] \in Ids
    BY <1>10 DEF MarkDone, MarkFailed, Holding, HoldsARow
  <2> PICK k \in Ids : k = job[w]
    BY <2>0
  <2>1. /\ Holds(w, k)
        /\ status[k] = "running"
        /\ tried[w] = attempts[k]
    BY <2>0 DEF Holds, Holding, HolderOwnsRow
  <2>2. \A v \in Workers, j \in Ids : Holds(v, j)' <=> (Holds(v, j) /\ v # w)
    <3>1. pc' = [pc EXCEPT ![w] = "poll"] /\ job' = [job EXCEPT ![w] = NoJob]
      BY <1>10 DEF MarkDone, MarkFailed
    <3> QED
      BY <3>1 DEF Holds, Holding
  <2>3. [j \in Ids |-> HolderOf(j)]' = [[j \in Ids |-> HolderOf(j)] EXCEPT ![k] = Nobody]
    <3>1. ASSUME NEW j \in Ids, j # k PROVE HolderOf(j)' = HolderOf(j)
      <4>1. \A v \in Workers : Holds(v, j)' <=> Holds(v, j)
        BY <2>1, <2>2, <3>1 DEF Holds
      <4> QED
        BY <4>1, HolderFacts
    <3>2. HolderOf(k)' = Nobody
      <4>1. \A v \in Workers : ~Holds(v, k)'
        BY <2>1, <2>2 DEF Holds, SingleRunner
      <4> QED
        BY <2>1, <4>1, HolderFacts
    <3> QED
      BY <2>1, <3>1, <3>2
  <2>4. HolderOf(k) = w
    BY <2>1, HolderFacts
  <2>5. Promise!Report(w, k)
    <3>1. CASE MarkDone(w)
      BY <2>1, <2>3, <2>4, <3>1 DEF MarkDone, Promise!Report
    <3>2. CASE MarkFailed(w)
      <4>1. \/ status' = [status EXCEPT ![k] = "failed"] /\ attempts[k] = MaxAttempts
            \/ status' = [status EXCEPT ![k] = "pending"] /\ attempts[k] < MaxAttempts
        <5>1. attempts[k] \in 0 .. MaxAttempts
          OBVIOUS
        <5>2. \/ status' = [status EXCEPT ![job[w]] = "failed"] /\ tried[w] >= MaxAttempts
              \/ status' = [status EXCEPT ![job[w]] = "pending"] /\ tried[w] < MaxAttempts
          BY <3>2 DEF MarkFailed
        <5>3. (tried[w] >= MaxAttempts => attempts[k] = MaxAttempts)
              /\ (tried[w] < MaxAttempts => attempts[k] < MaxAttempts)
          <6>1. attempts[k] <= MaxAttempts /\ attempts[k] \in Nat /\ MaxAttempts \in Nat
            BY <5>1
          <6>2. tried[w] = attempts[k]
            BY <2>1
          <6> HIDE DEF IInv, TypeOK
          <6> QED
            BY <6>1, <6>2
        <5>4. job[w] = k
          OBVIOUS
        <5> QED
          BY <5>2, <5>3, <5>4, Zenon
      <4>2. UNCHANGED attempts
        BY <3>2 DEF MarkFailed
      <4> QED
        BY <2>1, <2>3, <2>4, <4>1, <4>2 DEF Promise!Report
    <3> QED
      BY <1>10, <3>1, <3>2
  <2> QED
    BY <2>1, <2>5 DEF Promise!Next
<1>11. \A R \in SUBSET Workers :
          /\ UNCHANGED <<status, attempts>>
          /\ \A v \in Workers, j \in Ids : Holds(v, j)' <=> (Holds(v, j) /\ v \notin R)
          => Promise!Next
  <2> TAKE R \in SUBSET Workers
  <2> HAVE /\ UNCHANGED <<status, attempts>>
           /\ \A v \in Workers, j \in Ids : Holds(v, j)' <=> (Holds(v, j) /\ v \notin R)
  <2>1. ASSUME NEW j \in Ids
        PROVE  HolderOf(j)' = IF HolderOf(j) \in R THEN Nobody ELSE HolderOf(j)
    BY HolderFacts
  <2>2. Promise!Abandon(R)
    BY <2>1 DEF Promise!Abandon
  <2> QED
    BY <2>2 DEF Promise!Next
<1>12. ASSUME NEW w \in Workers, MarkClosed(w) \/ MarkFault(w) PROVE Promise!Next
  <2> PICK R \in SUBSET Workers : R = {w}
    OBVIOUS
  <2>1. \A v \in Workers, j \in Ids : Holds(v, j)' <=> (Holds(v, j) /\ v \notin R)
    BY <1>12 DEF MarkClosed, MarkFault, MarkDiscarded, Holds, Holding
  <2>2. UNCHANGED <<status, attempts>>
    BY <1>12 DEF MarkClosed, MarkFault, MarkDiscarded
  <2> QED
    BY <1>11, <2>1, <2>2
<1>13. ASSUME NEW h \in Handles, Crash(h) PROVE Promise!Next
  <2> PICK R \in SUBSET Workers : R = WorkersOf(h)
    BY DEF WorkersOf
  <2>1. \A v \in Workers, j \in Ids : Holds(v, j)' <=> (Holds(v, j) /\ v \notin R)
    BY <1>13 DEF Crash, WorkersOf, Holds, Holding
  <2>2. UNCHANGED <<status, attempts>>
    BY <1>13 DEF Crash
  <2> QED
    BY <1>11, <2>1, <2>2
<1> QED
  BY <1>2, <1>3, <1>4, <1>5, <1>6, <1>7, <1>8, <1>9, <1>10, <1>12, <1>13 DEF Next, WorkerStep

\* Through crashes, refused transactions and lost writes the queue behaves as promised:
\* each step of Jobs is a step of JobQueue or invisible to it.
THEOREM JobsRefinement == Spec => KeepsPromise
<1>1. Spec => []IInv
  BY InitIInv, StepIInv, PTL DEF Spec
<1> QED
  BY <1>1, InitPromise, StepPromise, PTL DEF Spec, KeepsPromise, Promise!Spec
-----------------------------------------------------------------------------
(***************************************************************************)
(* stop().  StopDrains is inductive: a worker that has exited moves again  *)
(* only after a crash of its process, which its callers do not survive.    *)
(***************************************************************************)
LEMMA InitStopDrains == Init => StopDrains
  BY DEF Init, StopDrains

\* A step that leaves the callers alone and moves no worker that has exited.
LEMMA ExitedStay ==
  ASSUME StopDrains, UNCHANGED caller,
         \A w \in Workers : pc[w] = "exited" => pc'[w] = "exited"
  PROVE  StopDrains'
  BY DEF StopDrains, Drained, WorkersOf

LEMMA StepStopDrains == IInv /\ StopDrains /\ [Next]_vars => StopDrains'
<1> SUFFICES ASSUME IInv, StopDrains, [Next]_vars PROVE StopDrains'
  OBVIOUS
<1> USE JobsAssumption DEF IInv, TypeOK, table, worker, bounds
<1>1. CASE Tick \/ UNCHANGED vars
  BY <1>1, ExitedStay DEF Tick, vars
<1>2. ASSUME NEW h \in Handles, Create(h) \/ Close(h) \/ \E delay \in Delays : Enqueue(h, delay)
      PROVE  StopDrains'
  BY <1>2, ExitedStay DEF Create, Close, Enqueue
<1>3. ASSUME NEW h \in Handles, Process(h) PROVE StopDrains'
  BY <1>3, ExitedStay DEF Process, WorkersOf
<1>4. ASSUME NEW h \in Handles, Crash(h) PROVE StopDrains'
  BY <1>4 DEF Crash, StopDrains, Drained, WorkersOf
<1>5. ASSUME NEW w \in Workers, WorkerStep(w) \/ MarkFault(w) \/ ClaimLost(w) \/ HandlerStop(w) PROVE StopDrains'
  <2>1. UNCHANGED caller /\ pc[w] # "exited" /\ \A v \in Workers \ {w} : pc'[v] = pc[v]
    BY <1>5 DEF WorkerStep, Poll, ClaimSelect, ClaimUpdate, ClaimRefused, ClaimCommit, Handler, MarkDone,
       MarkFailed, MarkClosed, MarkFault, MarkDiscarded, ClaimLost, Wait, HandlerStop, HandlerCloses, Goto
  <2> QED
    BY <2>1, ExitedStay
<1>6. ASSUME NEW c \in Callers, StopStep(c) PROVE StopDrains'
  BY <1>6 DEF StopStep, StopCheck, StopClose, StopReturn, StopDrains, Drained, WorkersOf
<1> QED
  BY <1>1, <1>2, <1>3, <1>4, <1>5, <1>6 DEF Next

\* When stop() returns, and for as long as the process lives, none of its workers runs
\* a handler: whatever other callers, panics and closes there are.
THEOREM StopReturnsDrained == Spec => []StopDrains
<1>1. Spec => [](IInv /\ StopDrains)
  BY InitIInv, StepIInv, InitStopDrains, StepStopDrains, PTL DEF Spec
<1> QED
  BY <1>1, PTL
-----------------------------------------------------------------------------
(***************************************************************************)
(* Running rows that nobody runs.                                          *)
(***************************************************************************)
LEMMA InitOrphans == Init => OrphansNeedAFault
  BY DEF Init, OrphansNeedAFault

\* A step that makes no row running but in the hands of a worker, takes no job from a worker and repairs nothing.
LEMMA HoldersKeep ==
  ASSUME OrphansNeedAFault,
         \A j \in Ids : status'[j] = "running" => status[j] = "running" \/ \E w \in Workers : Holds(w, j)',
         \A w \in Workers, j \in Ids :
            status'[j] = "running" /\ Holds(w, j) => Holds(w, j)',
         crashes + faults > 0 => crashes' + faults' > 0,
         \A h \in Handles : handle[h] = "closed" => handle'[h] = "closed"
  PROVE  OrphansNeedAFault'
  BY DEF OrphansNeedAFault

LEMMA StepOrphans == IInv /\ OrphansNeedAFault /\ [Next]_vars => OrphansNeedAFault'
<1> SUFFICES ASSUME IInv, OrphansNeedAFault, [Next]_vars PROVE OrphansNeedAFault'
  OBVIOUS
<1> USE JobsAssumption DEF IInv, TypeOK, table, worker, bounds, Holds, Holding
<1>1. CASE Tick \/ UNCHANGED vars
  BY <1>1, HoldersKeep DEF Tick, vars
<1>2. ASSUME NEW h \in Handles, Create(h) \/ Close(h) \/ \E delay \in Delays : Enqueue(h, delay)
      PROVE  OrphansNeedAFault'
  BY <1>2, HoldersKeep DEF Create, Close, Enqueue, Ids
<1>3. ASSUME NEW h \in Handles, Process(h) PROVE OrphansNeedAFault'
  BY <1>3, HoldersKeep DEF Process, WorkersOf
<1>4. ASSUME NEW h \in Handles, Crash(h) PROVE OrphansNeedAFault'
  <2>1. crashes' + faults' > 0
    BY <1>4 DEF Crash
  <2> QED
    BY <2>1 DEF OrphansNeedAFault
<1>5. ASSUME NEW w \in Workers,
             Poll(w) \/ ClaimSelect(w) \/ ClaimUpdate(w) \/ ClaimRefused(w) \/ ClaimLost(w) \/ Handler(w)
             \/ Wait(w) \/ HandlerStop(w) \/ HandlerCloses(w)
      PROVE  OrphansNeedAFault'
  <2>1. /\ UNCHANGED <<status, crashes, handle>> /\ faults' \in {faults, faults + 1}
        /\ \A v \in Workers, j \in Ids : Holds(v, j) => Holds(v, j)'
    BY <1>5 DEF Poll, ClaimSelect, ClaimUpdate, ClaimRefused, ClaimLost, Handler, Wait, HandlerStop, HandlerCloses,
       Goto, Drops
  <2>2. crashes + faults > 0 => crashes' + faults' > 0
    BY <2>1
  <2> QED
    BY <2>1, <2>2, HoldersKeep
<1>6. ASSUME NEW w \in Workers, ClaimCommit(w) PROVE OrphansNeedAFault'
  <2>1. /\ UNCHANGED <<crashes, faults, handle>>
        /\ status' = [status EXCEPT ![job[w]] = "running"]
        /\ pc'[w] \in Holding /\ job' = job
        /\ \A v \in Workers, j \in Ids : Holds(v, j) => Holds(v, j)'
    BY <1>6 DEF ClaimCommit, Goto, InClaim, Claiming
  <2>2. \A j \in Ids : status'[j] = "running" => j = job[w] \/ status[j] = "running"
    BY <2>1
  <2>3. \A j \in Ids : status'[j] = "running" => status[j] = "running" \/ \E v \in Workers : Holds(v, j)'
    BY <2>1, <2>2
  <2>4. crashes + faults > 0 => crashes' + faults' > 0
    BY <2>1
  <2> QED
    BY <2>1, <2>3, <2>4, HoldersKeep
<1>7. ASSUME NEW w \in Workers, MarkDone(w) \/ MarkFailed(w) PROVE OrphansNeedAFault'
  <2>1. /\ UNCHANGED <<crashes, faults, handle>>
        /\ pc[w] \in Holding
    BY <1>7 DEF MarkDone, MarkFailed, Goto
  <2>2. job[w] \in Ids
    BY <2>1 DEF HoldsARow
  <2>3. /\ status'[job[w]] # "running"
        /\ \A j \in Ids \ {job[w]} : status'[j] = status[j]
    BY <1>7, <2>2 DEF MarkDone, MarkFailed
  <2>4. \A v \in Workers \ {w}, j \in Ids : Holds(v, j) => Holds(v, j)'
    BY <1>7 DEF MarkDone, MarkFailed, Goto, Drops
  <2>5. \A j \in Ids : status'[j] = "running" => status[j] = "running" /\ j # job[w]
    BY <2>3
  <2>6. \A v \in Workers, j \in Ids : status'[j] = "running" /\ Holds(v, j) => Holds(v, j)'
    BY <2>4, <2>5
  <2> QED
    BY <2>1, <2>5, <2>6, HoldersKeep
<1>8. ASSUME NEW w \in Workers, MarkClosed(w) PROVE OrphansNeedAFault'
  BY <1>8 DEF MarkClosed, MarkDiscarded, OrphansNeedAFault
<1>9. ASSUME NEW w \in Workers, MarkFault(w) PROVE OrphansNeedAFault'
  <2>1. crashes' + faults' > 0
    BY <1>9 DEF MarkFault, MarkDiscarded
  <2> QED
    BY <2>1 DEF OrphansNeedAFault
<1>10. ASSUME NEW c \in Callers, StopStep(c) PROVE OrphansNeedAFault'
  BY <1>10, HoldersKeep DEF StopStep, StopCheck, StopClose, StopReturn
<1> QED
  BY <1>1, <1>2, <1>3, <1>4, <1>5, <1>6, <1>7, <1>8, <1>9, <1>10 DEF Next, WorkerStep

\* Races between workers and processes, refused claims and stop() never leave a row
\* running without a runner: only a crash, a lost write or a closed handle does.
THEOREM OrphansAreFaults == Spec => []OrphansNeedAFault
<1>1. Spec => [](IInv /\ OrphansNeedAFault)
  BY InitIInv, StepIInv, InitOrphans, StepOrphans, PTL DEF Spec
<1> QED
  BY <1>1, PTL
-----------------------------------------------------------------------------
(***************************************************************************)
(* Start times.  A transaction whose snapshot is current has selected a    *)
(* row whose run_at was due by its text, and run_at has not moved since.   *)
(***************************************************************************)
ClaimIsDue == \A w \in Workers :
    pc[w] = "commit" \/ (pc[w] = "update" /\ ~stale[w]) => due[job[w]] < TicksPerSecond

\* What is due by the comparison of texts is due within the second.
LEMMA ReadyIsDue == ASSUME TypeOK, NEW j \in Ids, Ready(j) PROVE due[j] < TicksPerSecond
  BY JobsAssumption DEF Ready, TypeOK

LEMMA InitDue == Init => ClaimIsDue
  BY DEF Init, ClaimIsDue

\* A step that begins no claim and moves the run_at of no row forward.
LEMMA DueKeeps ==
  ASSUME IInv, ClaimIsDue, UNCHANGED job,
         \A j \in Ids : due'[j] \in Int /\ due'[j] <= due[j],
         \A w \in Workers : pc'[w] \in Claiming =>
            pc'[w] = pc[w] /\ (stale[w] => stale'[w])
  PROVE  ClaimIsDue'
  BY JobsAssumption DEF IInv, TypeOK, ClaimIsDue, InClaim, Claiming

LEMMA StepDue == IInv /\ ClaimIsDue /\ [Next]_vars => ClaimIsDue'
<1> SUFFICES ASSUME IInv, ClaimIsDue, [Next]_vars PROVE ClaimIsDue'
  OBVIOUS
<1> USE JobsAssumption DEF IInv, TypeOK, table, worker, bounds, Claiming
<1>1. CASE Tick \/ UNCHANGED vars
  <2>1. UNCHANGED <<job, pc, stale>> /\ \A j \in Ids : due'[j] \in Int /\ due'[j] <= due[j]
    BY <1>1 DEF Tick, vars
  <2> QED
    BY <2>1, DueKeeps
<1>2. ASSUME NEW h \in Handles, Create(h) \/ Close(h) \/ Process(h) PROVE ClaimIsDue'
  BY <1>2, DueKeeps DEF Create, Close, Process, WorkersOf
<1>3. ASSUME NEW h \in Handles, NEW delay \in Delays, Enqueue(h, delay) PROVE ClaimIsDue'
  <2>1. \A w \in Workers : pc[w] # "commit"
    BY <1>3 DEF Enqueue, Writable, InClaim
  <2>2. UNCHANGED pc /\ \A w \in Workers : pc[w] = "update" => stale'[w]
    BY <1>3 DEF Enqueue, Commits
  <2> QED
    BY <2>1, <2>2 DEF ClaimIsDue
<1>4. ASSUME NEW h \in Handles, Crash(h) PROVE ClaimIsDue'
  BY <1>4 DEF Crash, ClaimIsDue
<1>5. ASSUME NEW w \in Workers, ClaimSelect(w) PROVE ClaimIsDue'
  <2>1. CASE pc'[w] # "update"
    BY <1>5, <2>1, DueKeeps DEF ClaimSelect
  <2>2. CASE pc'[w] = "update"
    <3>1. PICK j \in Claimable(HandleOf[w]) :
             /\ pc' = [pc EXCEPT ![w] = "update"]
             /\ stale' = [stale EXCEPT ![w] = FALSE]
             /\ job' = [job EXCEPT ![w] = j]
             /\ UNCHANGED due
      BY <1>5, <2>2 DEF ClaimSelect
    <3>2. due[j] < TicksPerSecond
      BY ReadyIsDue DEF Claimable
    <3> QED
      BY <3>1, <3>2 DEF ClaimIsDue
  <2> QED
    BY <2>1, <2>2
<1>6. ASSUME NEW w \in Workers, ClaimUpdate(w) \/ ClaimRefused(w) \/ ClaimLost(w) \/ ClaimCommit(w) PROVE ClaimIsDue'
  BY <1>6 DEF ClaimUpdate, ClaimRefused, ClaimLost, ClaimCommit, Goto, Drops, Commits, ClaimIsDue, InClaim
<1>7. ASSUME NEW w \in Workers, Poll(w) \/ Handler(w) \/ Wait(w) \/ HandlerStop(w) \/ HandlerCloses(w) PROVE ClaimIsDue'
  BY <1>7, DueKeeps DEF Poll, Handler, Wait, HandlerStop, HandlerCloses, Goto
<1>8. ASSUME NEW w \in Workers, MarkDone(w) \/ MarkFailed(w) PROVE ClaimIsDue'
  <2>1. /\ \A v \in Workers : pc[v] # "commit"
        /\ \A v \in Workers : pc'[v] \in Claiming => pc'[v] = pc[v]
        /\ Commits
    BY <1>8 DEF MarkDone, MarkFailed, Goto, Writable, InClaim
  <2> QED
    BY <2>1 DEF Commits, ClaimIsDue
<1>9. ASSUME NEW w \in Workers, MarkClosed(w) \/ MarkFault(w) PROVE ClaimIsDue'
  BY <1>9 DEF MarkClosed, MarkFault, MarkDiscarded, Goto, Drops, ClaimIsDue
<1>10. ASSUME NEW c \in Callers, StopStep(c) PROVE ClaimIsDue'
  BY <1>10, DueKeeps DEF StopStep, StopCheck, StopClose, StopReturn
<1> QED
  BY <1>1, <1>2, <1>3, <1>4, <1>5, <1>6, <1>7, <1>8, <1>9, <1>10 DEF Next, WorkerStep

\* A row becomes running through a commit only.
LEMMA OnlyCommitsStart ==
  ASSUME IInv, [Next]_vars, NEW j \in Ids, status[j] = "pending", status'[j] = "running"
  PROVE  \E w \in Workers : pc[w] = "commit" /\ job[w] = j
<1> USE JobsAssumption DEF IInv, TypeOK, table, worker, bounds
<1>1. ASSUME NEW w \in Workers, WorkerStep(w) PROVE pc[w] = "commit" /\ job[w] = j
  BY <1>1 DEF WorkerStep, Poll, ClaimSelect, ClaimUpdate, ClaimRefused, ClaimCommit, Handler, MarkDone,
     MarkFailed, MarkClosed, MarkDiscarded, Wait, HandlerCloses, Goto
<1>2. ASSUME NEW h \in Handles, NEW delay \in Delays, Enqueue(h, delay) PROVE FALSE
  BY <1>2 DEF Enqueue
<1>3. status' = status => FALSE
  OBVIOUS
<1> QED
  BY <1>1, <1>2, <1>3 DEF Next, vars, Tick, Create, Process, Close, Crash, MarkFault, MarkDiscarded,
     ClaimLost, HandlerStop, StopStep, StopCheck, StopClose, StopReturn

\* The textual comparison of run_at with the clock starts no job a second or more early.
THEOREM StartsWithinTheSecond == Spec => EarlyByLessThanASecond
<1>1. IInv /\ ClaimIsDue /\ [Next]_vars =>
        [\A j \in Ids : status[j] = "pending" /\ status'[j] = "running" => due[j] < TicksPerSecond]_vars
  BY OnlyCommitsStart DEF ClaimIsDue
<1>2. Spec => [](IInv /\ ClaimIsDue)
  BY InitIInv, StepIInv, InitDue, StepDue, PTL DEF Spec
<1> QED
  BY <1>1, <1>2, PTL DEF Spec, EarlyByLessThanASecond
=============================================================================
