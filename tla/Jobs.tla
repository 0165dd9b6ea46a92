-------------------------------- MODULE Jobs --------------------------------
(***************************************************************************)
(* The background job queue of src/interpreter/jobs.go.                    *)
(*                                                                         *)
(* A handle is what jobs.create() returns: one database pool of a single   *)
(* connection on the shared SQLite file (WAL mode) and one mutex.  Handles *)
(* on the same file belong to different processes, so a handle dies when   *)
(* its process does.  Every handle runs a fixed set of workers once        *)
(* queue.process() has been called.                                        *)
(*                                                                         *)
(* jobsClaim holds the handle's mutex and its only connection from Begin   *)
(* to the end of the transaction; every other statement is a single        *)
(* autocommit statement on that connection.  `conn' stands for both.       *)
(*                                                                         *)
(* SQLite is external and modelled from how the code uses it: a deferred   *)
(* transaction reads a snapshot; its first write takes the database's one  *)
(* write lock and is refused (SQLITE_BUSY_SNAPSHOT) when another           *)
(* connection has committed since the snapshot.                            *)
(*                                                                         *)
(* Time is cut into ticks, TicksPerSecond to a second.  run_at is kept     *)
(* relative to the clock: due[j] is the number of ticks until run_at, and  *)
(* phase is the clock's position within its second, which the text         *)
(* comparison of RFC 3339 timestamps depends on.                           *)
(***************************************************************************)
EXTENDS Integers, FiniteSets

CONSTANTS Handles,          \* database handles: one per process
          Workers,          \* worker goroutines
          HandleOf,         \* HandleOf[w]: the handle worker w runs on
          Queues,           \* queue names
          QueueOf,          \* QueueOf[h]: the queue handle h was created for
          Callers,          \* goroutines that call the stop function
          ControlOf,        \* ControlOf[c]: the handle whose stop function c calls
          Nobody,           \* no worker
          MaxJobs,          \* bound on the number of enqueued jobs
          MaxAttempts,      \* the max_attempts option
          TicksPerSecond,   \* resolution of the clock
          BackoffUnit,      \* the first retry delay, in ticks (5 s in the code)
          Delays,           \* the delays given to enqueue(), in ticks
          MaxCrashes,       \* bound on process crashes
          MaxFaults,        \* bound on failed commits of a claim and writes of an outcome
          HandlersMayStop   \* whether a job handler may itself call stop()

ASSUME JobsAssumption ==
    /\ Queues # {}
    /\ HandleOf \in [Workers -> Handles]
    /\ QueueOf \in [Handles -> Queues]
    /\ ControlOf \in [Callers -> Handles]
    /\ Nobody \notin Workers
    /\ MaxJobs \in Nat \ {0}
    /\ MaxAttempts \in Nat \ {0}
    /\ TicksPerSecond \in 2 .. 10
    /\ BackoffUnit \in Nat
    /\ Delays \subseteq Nat
    /\ MaxCrashes \in Nat
    /\ MaxFaults \in Nat
    /\ HandlersMayStop \in BOOLEAN

Ids == 1 .. MaxJobs
NoJob == 0

VARIABLES
    \* the table mx_jobs
    lastId,    \* the last AUTOINCREMENT id
    status,    \* status[j], "absent" when there is no such row
    queue,     \* queue[j]
    attempts,  \* attempts[j]
    due,       \* due[j]: ticks until run_at
    phase,     \* ticks since the clock's current second began
    \* SQLite
    writer,    \* the worker whose transaction holds the write lock
    stale,     \* stale[w]: a commit happened since w's transaction read its snapshot
    \* a process
    handle,    \* handle[h]: absent, open or closed
    conn,      \* conn[h]: the worker inside jobsClaim's transaction
    stopped,   \* stopped[h]: the stop channel is closed
    pc,        \* pc[w]: where worker w is
    job,       \* job[w]: the job w selected or holds
    tried,     \* tried[w]: its attempts, read by the SELECT
    caller,    \* caller[c]: where the caller of stop() is
    \* bounds
    crashes, faults

table   == <<lastId, status, queue, attempts, due>>
worker  == <<pc, job, tried>>
bounds  == <<crashes, faults>>
vars == <<lastId, status, queue, attempts, due, phase, writer, stale, handle, conn,
          stopped, pc, job, tried, caller, crashes, faults>>

WorkersOf(h) == {w \in Workers : HandleOf[w] = h}

Statuses == {"absent", "pending", "running", "done", "failed"}
Places == {"off",      \* not started
           "poll",     \* top of the loop: is the stop channel closed?
           "claim",    \* about to enter jobsClaim
           "update",   \* in the transaction, before the UPDATE
           "commit",   \* in the transaction, after the UPDATE
           "run",      \* the handler runs
           "succeeded", "erred",   \* about to record the outcome
           "idle",     \* nothing to do: waiting for a tick or for stop
           "backOff",  \* after a claim error: waiting for a tick only
           "inClose",  \* the handler called stop(), which has found the channel open
           "inStop",   \* the handler's stop() waits for the workers
           "exited"}

(***************************************************************************)
(* The tables as of the start of the first process.                        *)
(***************************************************************************)
Init ==
    /\ lastId = 0
    /\ status = [j \in Ids |-> "absent"]
    /\ queue = [j \in Ids |-> CHOOSE q \in Queues : TRUE]
    /\ attempts = [j \in Ids |-> 0]
    /\ due = [j \in Ids |-> 0]
    /\ phase = 0
    /\ writer = Nobody
    /\ stale = [w \in Workers |-> FALSE]
    /\ handle = [h \in Handles |-> "absent"]
    /\ conn = [h \in Handles |-> Nobody]
    /\ stopped = [h \in Handles |-> FALSE]
    /\ pc = [w \in Workers |-> "off"]
    /\ job = [w \in Workers |-> NoJob]
    /\ tried = [w \in Workers |-> 0]
    /\ caller = [c \in Callers |-> "idle"]
    /\ crashes = 0
    /\ faults = 0
-----------------------------------------------------------------------------
(***************************************************************************)
(* Clock and retry arithmetic.                                             *)
(***************************************************************************)
\* time.RFC3339Nano drops a fraction of zero, and "Z" sorts after "." and after
\* every digit: within a second the instant with fraction 0 is the greatest text.
Rank(fraction) == IF fraction = 0 THEN TicksPerSecond ELSE fraction

\* Mutant of Ready: the condition on run_at is missing from the SELECT.
ReadyAnyTime(j) == TRUE

\* run_at <= now, compared as TEXT.
Ready(j) == LET r == phase + due[j]   \* ticks from the start of the current second
            IN  \/ r < 0
                \/ r < TicksPerSecond /\ Rank(r) <= Rank(phase)

\* 5 s, 10 s, 20 s, ...: doubled for every attempt after the first.
Backoff(n) == BackoffUnit * 2^(n - 1)

Tick == /\ phase' = (phase + 1) % TicksPerSecond
        /\ due' = [j \in Ids |-> IF due[j] > -TicksPerSecond THEN due[j] - 1 ELSE due[j]]
        /\ UNCHANGED <<lastId, status, queue, attempts, writer, stale, handle, conn,
                       stopped, worker, caller, bounds>>
-----------------------------------------------------------------------------
(***************************************************************************)
(* One process: jobs.create(), queue.enqueue(), queue.process() and        *)
(* queue.close().                                                          *)
(***************************************************************************)
\* A single statement runs when the one connection is free and no transaction of
\* another process holds the write lock (SQLite waits for it, up to busy_timeout).
Writable(h) == handle[h] = "open" /\ conn[h] = Nobody /\ writer = Nobody

\* Every transaction that has read its snapshot is outdated by a commit.
Commits == stale' = [v \in Workers |-> pc[v] = "update"]

Create(h) == /\ handle[h] = "absent"
             /\ handle' = [handle EXCEPT ![h] = "open"]
             /\ UNCHANGED <<table, phase, writer, stale, conn, stopped, worker, caller, bounds>>

Enqueue(h, delay) ==
    /\ Writable(h)
    /\ lastId < MaxJobs
    /\ lastId' = lastId + 1
    /\ status' = [status EXCEPT ![lastId + 1] = "pending"]
    /\ queue' = [queue EXCEPT ![lastId + 1] = QueueOf[h]]
    /\ due' = [due EXCEPT ![lastId + 1] = delay]
    /\ Commits
    /\ UNCHANGED <<attempts, phase, writer, handle, conn, stopped, worker, caller, bounds>>

Process(h) == /\ handle[h] # "absent"
              /\ \A w \in WorkersOf(h) : pc[w] = "off"
              /\ pc' = [w \in Workers |-> IF HandleOf[w] = h THEN "poll" ELSE pc[w]]
              /\ UNCHANGED <<table, phase, writer, stale, handle, conn, stopped, job, tried,
                             caller, bounds>>

\* db.Close() lets a transaction that has the connection finish.
Close(h) == /\ handle[h] = "open"
            /\ handle' = [handle EXCEPT ![h] = "closed"]
            /\ UNCHANGED <<table, phase, writer, stale, conn, stopped, worker, caller, bounds>>

\* The process dies: its transaction rolls back, its goroutines are gone.
Crash(h) ==
    /\ handle[h] # "absent"
    /\ crashes < MaxCrashes
    /\ crashes' = crashes + 1
    /\ handle' = [handle EXCEPT ![h] = "absent"]
    /\ conn' = [conn EXCEPT ![h] = Nobody]
    /\ writer' = IF writer \in WorkersOf(h) THEN Nobody ELSE writer
    /\ stopped' = [stopped EXCEPT ![h] = FALSE]
    /\ pc' = [w \in Workers |-> IF HandleOf[w] = h THEN "off" ELSE pc[w]]
    /\ job' = [w \in Workers |-> IF HandleOf[w] = h THEN NoJob ELSE job[w]]
    /\ tried' = [w \in Workers |-> IF HandleOf[w] = h THEN 0 ELSE tried[w]]
    /\ caller' = [c \in Callers |-> IF ControlOf[c] = h THEN "idle" ELSE caller[c]]
    /\ UNCHANGED <<table, phase, stale, faults>>
-----------------------------------------------------------------------------
(***************************************************************************)
(* startWorker and jobsClaim.                                              *)
(***************************************************************************)
Goto(w, from, to) == pc[w] = from /\ pc' = [pc EXCEPT ![w] = to]

\* The claimedJob goes out of scope.
Drops(w) == job' = [job EXCEPT ![w] = NoJob] /\ tried' = [tried EXCEPT ![w] = 0]

\* Mutant of Poll: the loop does not look at the stop channel.
PollNoStop(w) == /\ Goto(w, "poll", "claim")
                 /\ UNCHANGED <<table, phase, writer, stale, handle, conn, stopped, job, tried,
                                caller, bounds>>

\* Top of the loop: the first select.
Poll(w) == /\ \/ stopped[HandleOf[w]] /\ Goto(w, "poll", "exited")
              \/ ~stopped[HandleOf[w]] /\ Goto(w, "poll", "claim")
           /\ UNCHANGED <<table, phase, writer, stale, handle, conn, stopped, job, tried,
                          caller, bounds>>

\* Mutant of Claimable: the condition on status is missing from the SELECT.
ClaimableAnyStatus(h) == {j \in Ids : j <= lastId /\ queue[j] = QueueOf[h] /\ Ready(j)}

Claimable(h) == {j \in Ids : status[j] = "pending" /\ queue[j] = QueueOf[h] /\ Ready(j)}

\* mu.Lock, Begin and the SELECT ... ORDER BY id LIMIT 1; Begin fails once closed.
ClaimSelect(w) ==
    LET h == HandleOf[w] IN
    /\ pc[w] = "claim"
    /\ conn[h] = Nobody
    /\ \/ /\ handle[h] = "closed"
          /\ pc' = [pc EXCEPT ![w] = "backOff"]
          /\ UNCHANGED <<conn, stale, job, tried>>
       \/ /\ handle[h] = "open"
          /\ Claimable(h) = {}
          /\ pc' = [pc EXCEPT ![w] = "idle"]
          /\ UNCHANGED <<conn, stale, job, tried>>
       \/ /\ handle[h] = "open"
          /\ \E j \in Claimable(h) :
                /\ \A k \in Claimable(h) : j <= k
                /\ job' = [job EXCEPT ![w] = j]
                /\ tried' = [tried EXCEPT ![w] = attempts[j]]
          /\ pc' = [pc EXCEPT ![w] = "update"]
          /\ conn' = [conn EXCEPT ![h] = w]
          /\ stale' = [stale EXCEPT ![w] = FALSE]
    /\ UNCHANGED <<table, phase, writer, handle, stopped, caller, bounds>>

\* Mutant of ClaimUpdate: SELECT and UPDATE do not share a transaction.
ClaimUpdateUnchecked(w) ==
    /\ writer = Nobody
    /\ Goto(w, "update", "commit")
    /\ writer' = w
    /\ UNCHANGED <<table, phase, stale, handle, conn, stopped, job, tried, caller, bounds>>

\* UPDATE ... SET status = 'running', attempts = attempts + 1: takes the write lock.
ClaimUpdate(w) ==
    /\ writer = Nobody
    /\ ~stale[w]
    /\ Goto(w, "update", "commit")
    /\ writer' = w
    /\ UNCHANGED <<table, phase, stale, handle, conn, stopped, job, tried, caller, bounds>>

\* The UPDATE fails: the snapshot is outdated, or the lock was not released in time.
ClaimRefused(w) ==
    /\ stale[w] \/ writer # Nobody
    /\ Goto(w, "update", "backOff")
    /\ conn' = [conn EXCEPT ![HandleOf[w]] = Nobody]
    /\ Drops(w)
    /\ UNCHANGED <<table, phase, writer, stale, handle, stopped, caller, bounds>>

\* Mutant of ClaimCommit: the claimed job carries the attempts that were selected.
ClaimCommitOldCount(w) ==
    /\ Goto(w, "commit", "run")
    /\ status' = [status EXCEPT ![job[w]] = "running"]
    /\ attempts' = [attempts EXCEPT ![job[w]] = @ + 1]
    /\ writer' = Nobody
    /\ conn' = [conn EXCEPT ![HandleOf[w]] = Nobody]
    /\ Commits
    /\ UNCHANGED <<lastId, queue, due, phase, handle, stopped, job, tried, caller, bounds>>

ClaimCommit(w) ==
    /\ Goto(w, "commit", "run")
    /\ status' = [status EXCEPT ![job[w]] = "running"]
    /\ attempts' = [attempts EXCEPT ![job[w]] = @ + 1]
    /\ tried' = [tried EXCEPT ![w] = @ + 1]
    /\ writer' = Nobody
    /\ conn' = [conn EXCEPT ![HandleOf[w]] = Nobody]
    /\ Commits
    /\ UNCHANGED <<lastId, queue, due, phase, handle, stopped, job, caller, bounds>>

\* The commit fails, and the transaction is undone.
ClaimLost(w) ==
    /\ Goto(w, "commit", "backOff")
    /\ faults < MaxFaults
    /\ faults' = faults + 1
    /\ writer' = Nobody
    /\ conn' = [conn EXCEPT ![HandleOf[w]] = Nobody]
    /\ Drops(w)
    /\ UNCHANGED <<table, phase, stale, handle, stopped, caller, crashes>>

\* The script's handler returns, with or without an error.
Handler(w) == /\ \/ Goto(w, "run", "succeeded")
                 \/ Goto(w, "run", "erred")
              /\ UNCHANGED <<table, phase, writer, stale, handle, conn, stopped, job, tried,
                             caller, bounds>>

MarkDone(w) ==
    /\ Writable(HandleOf[w])
    /\ Goto(w, "succeeded", "poll")
    /\ status' = [status EXCEPT ![job[w]] = "done"]
    /\ Drops(w)
    /\ Commits
    /\ UNCHANGED <<lastId, queue, attempts, due, phase, writer, handle, conn, stopped, caller,
                   bounds>>

\* The failure of an attempt when max_attempts is read as Limit; the common part of
\* the mutants below.
MarkFailedAt(w, Limit, retry) ==
    /\ Writable(HandleOf[w])
    /\ Goto(w, "erred", "poll")
    /\ status' = [status EXCEPT ![job[w]] = IF tried[w] >= Limit THEN "failed" ELSE retry]
    /\ due' = IF tried[w] >= Limit THEN due ELSE [due EXCEPT ![job[w]] = Backoff(tried[w])]
    /\ Drops(w)
    /\ Commits
    /\ UNCHANGED <<lastId, queue, attempts, phase, writer, handle, conn, stopped, caller,
                   bounds>>

\* Mutants of MarkFailed: one attempt too many, one too few, status left as it is.
MarkFailedLate(w) == MarkFailedAt(w, MaxAttempts + 1, "pending")
MarkFailedEarly(w) == MarkFailedAt(w, MaxAttempts - 1, "pending")
MarkFailedStuck(w) == MarkFailedAt(w, MaxAttempts, "running")

MarkFailed(w) ==
    /\ Writable(HandleOf[w])
    /\ Goto(w, "erred", "poll")
    /\ \/ /\ tried[w] >= MaxAttempts
          /\ status' = [status EXCEPT ![job[w]] = "failed"]
          /\ UNCHANGED due
       \/ /\ tried[w] < MaxAttempts
          /\ status' = [status EXCEPT ![job[w]] = "pending"]
          /\ due' = [due EXCEPT ![job[w]] = Backoff(tried[w])]
    /\ Drops(w)
    /\ Commits
    /\ UNCHANGED <<lastId, queue, attempts, phase, writer, handle, conn, stopped, caller,
                   bounds>>

\* The error of either statement is discarded: the worker moves on, the row stays.
\* On a closed handle the statement always fails, otherwise it takes a fault.
MarkDiscarded(w) ==
    /\ \/ Goto(w, "succeeded", "poll")
       \/ Goto(w, "erred", "poll")
    /\ Drops(w)
    /\ UNCHANGED <<table, phase, writer, stale, handle, conn, stopped, caller, crashes>>

MarkClosed(w) == handle[HandleOf[w]] = "closed" /\ MarkDiscarded(w) /\ UNCHANGED faults

MarkFault(w) == /\ handle[HandleOf[w]] = "open"
                /\ faults < MaxFaults
                /\ faults' = faults + 1
                /\ MarkDiscarded(w)

\* Mutant of Wait: a worker without a job waits for the stop channel only.
WaitNoTick(w) == /\ \/ stopped[HandleOf[w]] /\ Goto(w, "idle", "exited")
                    \/ Goto(w, "backOff", "poll")
                 /\ UNCHANGED <<table, phase, writer, stale, handle, conn, stopped, job, tried,
                                caller, bounds>>

\* The select with nothing to do; after a claim error only the ticker is awaited.
Wait(w) == /\ \/ Goto(w, "idle", "poll")
              \/ stopped[HandleOf[w]] /\ Goto(w, "idle", "exited")
              \/ Goto(w, "backOff", "poll")
           /\ UNCHANGED <<table, phase, writer, stale, handle, conn, stopped, job, tried,
                          caller, bounds>>

\* The handler calls stop().  wg.Wait then counts this very worker, so no step of w
\* follows; and a channel that was closed after the test makes the close panic, which
\* nobody recovers in a worker: the process dies (Crash).
HandlerStop(w) ==
    /\ HandlersMayStop
    /\ Goto(w, "run", IF stopped[HandleOf[w]] THEN "inStop" ELSE "inClose")
    /\ UNCHANGED <<table, phase, writer, stale, handle, conn, stopped, job, tried, caller, bounds>>

HandlerCloses(w) ==
    /\ ~stopped[HandleOf[w]]
    /\ Goto(w, "inClose", "inStop")
    /\ stopped' = [stopped EXCEPT ![HandleOf[w]] = TRUE]
    /\ UNCHANGED <<table, phase, writer, stale, handle, conn, job, tried, caller, bounds>>
-----------------------------------------------------------------------------
(***************************************************************************)
(* queue.stop(), called by goroutines other than the workers.  The test of *)
(* the channel and its close are two steps; closing it twice panics.       *)
(***************************************************************************)
StopCheck(c) ==
    /\ caller[c] = "idle"
    /\ \A w \in WorkersOf(ControlOf[c]) : pc[w] # "off"
    /\ caller' = [caller EXCEPT ![c] = IF stopped[ControlOf[c]] THEN "waiting" ELSE "closing"]
    /\ UNCHANGED <<table, phase, writer, stale, handle, conn, stopped, worker, bounds>>

StopClose(c) ==
    /\ caller[c] = "closing"
    /\ caller' = [caller EXCEPT ![c] = IF stopped[ControlOf[c]] THEN "panicked" ELSE "waiting"]
    /\ stopped' = [stopped EXCEPT ![ControlOf[c]] = TRUE]
    /\ UNCHANGED <<table, phase, writer, stale, handle, conn, worker, bounds>>

Drained(h) == \A w \in WorkersOf(h) : pc[w] = "exited"

\* Mutant of StopReturn: stop() does not wait for the workers.
StopReturnAtOnce(c) ==
    /\ caller[c] = "waiting"
    /\ caller' = [caller EXCEPT ![c] = "returned"]
    /\ UNCHANGED <<table, phase, writer, stale, handle, conn, stopped, worker, bounds>>

\* wg.Wait returns.
StopReturn(c) ==
    /\ caller[c] = "waiting"
    /\ Drained(ControlOf[c])
    /\ caller' = [caller EXCEPT ![c] = "returned"]
    /\ UNCHANGED <<table, phase, writer, stale, handle, conn, stopped, worker, bounds>>
-----------------------------------------------------------------------------
WorkerStep(w) == \/ Poll(w) \/ ClaimSelect(w) \/ ClaimUpdate(w) \/ ClaimRefused(w)
                 \/ ClaimCommit(w) \/ Handler(w) \/ MarkDone(w) \/ MarkFailed(w)
                 \/ MarkClosed(w) \/ Wait(w) \/ HandlerCloses(w)

StopStep(c) == StopCheck(c) \/ StopClose(c) \/ StopReturn(c)

Next == \/ Tick
        \/ \E h \in Handles : \/ Create(h) \/ Process(h) \/ Close(h) \/ Crash(h)
                              \/ \E delay \in Delays : Enqueue(h, delay)
        \/ \E w \in Workers : WorkerStep(w) \/ MarkFault(w) \/ ClaimLost(w) \/ HandlerStop(w)
        \/ \E c \in Callers : StopStep(c)

Spec == Init /\ [][Next]_vars

(***************************************************************************)
(* Goroutines are scheduled, the clock advances, handlers return, a        *)
(* process comes back after a crash, and stop() proceeds once called.      *)
(***************************************************************************)
Fairness == /\ WF_vars(Tick)
            /\ \A w \in Workers : WF_vars(WorkerStep(w))
            /\ \A h \in Handles : WF_vars(Create(h)) /\ WF_vars(Process(h))
            /\ \A c \in Callers : WF_vars(StopClose(c)) /\ WF_vars(StopReturn(c))

FairSpec == Spec /\ Fairness
-----------------------------------------------------------------------------
(***************************************************************************)
(* Properties.                                                             *)
(***************************************************************************)
TypeOK ==
    /\ lastId \in 0 .. MaxJobs
    /\ status \in [Ids -> Statuses]
    /\ queue \in [Ids -> Queues]
    /\ attempts \in [Ids -> 0 .. MaxAttempts]
    /\ due \in [Ids -> Int]
    /\ phase \in 0 .. TicksPerSecond - 1
    /\ writer \in Workers \cup {Nobody}
    /\ stale \in [Workers -> BOOLEAN]
    /\ handle \in [Handles -> {"absent", "open", "closed"}]
    /\ conn \in [Handles -> Workers \cup {Nobody}]
    /\ stopped \in [Handles -> BOOLEAN]
    /\ pc \in [Workers -> Places]
    /\ job \in [Workers -> Ids \cup {NoJob}]
    /\ tried \in [Workers -> 0 .. MaxAttempts]
    /\ caller \in [Callers -> {"idle", "closing", "waiting", "returned", "panicked"}]
    /\ crashes \in 0 .. MaxCrashes
    /\ faults \in 0 .. MaxFaults

Holding == {"run", "succeeded", "erred", "inClose", "inStop"}
Holds(w, j) == pc[w] \in Holding /\ job[w] = j

\* No two workers, of one process or of several, ever have the same job in hand:
\* jobsClaim's transaction hands a row to one of them only.
SingleRunner == \A v, w \in Workers : pc[v] \in Holding /\ pc[w] \in Holding /\ job[v] = job[w]
                                      => v = w

\* A worker that runs a job runs a row of its own queue that the table says is
\* running, and knows the row's current number of attempts, so that jobsMarkFailed
\* decides between retry and failure on the true count.
HolderOwnsRow == \A w \in Workers : pc[w] \in Holding =>
                    /\ status[job[w]] = "running"
                    /\ queue[job[w]] = QueueOf[HandleOf[w]]
                    /\ tried[w] = attempts[job[w]]

\* A row is given up as failed after exactly max_attempts tries, and a row waiting
\* for another try has some left.
FailsOnLastAttempt == \A j \in Ids : /\ status[j] = "failed" => attempts[j] = MaxAttempts
                                     /\ status[j] = "pending" => attempts[j] < MaxAttempts

\* A running row that nobody runs is the mark of a crash, of a lost write of the
\* outcome or of a closed handle: stop() and refused claims never leave one behind.
OrphansNeedAFault == \A j \in Ids : status[j] = "running" =>
                        \/ \E w \in Workers : Holds(w, j)
                        \/ crashes + faults > 0
                        \/ \E h \in Handles : handle[h] = "closed"

\* When stop() has returned, no handler runs any more and none will.
StopDrains == \A c \in Callers : caller[c] = "returned" => Drained(ControlOf[c])

\* The text comparison of timestamps may start a job early, but by less than a second.
EarlyByLessThanASecond ==
    [][\A j \in Ids : status[j] = "pending" /\ status'[j] = "running"
                      => due[j] < TicksPerSecond]_vars

\* What ties a claim transaction to the rows, the connection and the write lock: the
\* strengthening that makes SingleRunner and HolderOwnsRow inductive.
Claiming == {"update", "commit"}
InClaim == \A w \in Workers :
    /\ pc[w] \in Claiming => job[w] \in Ids /\ conn[HandleOf[w]] = w
    /\ pc[w] = "commit" => writer = w
    /\ pc[w] = "commit" \/ (pc[w] = "update" /\ ~stale[w]) =>
          /\ status[job[w]] = "pending"
          /\ queue[job[w]] = QueueOf[HandleOf[w]]
          /\ tried[w] = attempts[job[w]]
HoldsARow == \A w \in Workers : pc[w] \in Holding => job[w] \in Ids /\ tried[w] >= 1
WriterCommits == writer # Nobody => pc[writer] = "commit"
FreshIds == \A j \in Ids : j > lastId => status[j] = "absent" /\ attempts[j] = 0

IInv == /\ TypeOK
        /\ FreshIds
        /\ InClaim
        /\ HoldsARow
        /\ WriterCommits
        /\ SingleRunner
        /\ HolderOwnsRow
        /\ FailsOnLastAttempt

\* The transactions, locks and clocks implement the promise of JobQueue.
HolderOf(j) == IF \E w \in Workers : Holds(w, j)
               THEN CHOOSE w \in Workers : Holds(w, j)
               ELSE Nobody
Promise == INSTANCE JobQueue WITH
    Jobs <- Ids, Runners <- Workers, state <- status, tries <- attempts,
    holder <- [j \in Ids |-> HolderOf(j)]
KeepsPromise == Promise!Spec

\* As long as nothing fails and the queue is neither stopped nor closed, every
\* enqueued job ends up done or failed: retries, backoff and refused claims converge.
Disturbed == \/ crashes + faults > 0
             \/ \E h \in Handles : stopped[h] \/ handle[h] = "closed"
JobsSettle == \A j \in Ids : (status[j] = "pending") ~>
                (status[j] \in {"done", "failed"} \/ Disturbed)

\* A caller of stop() gets control back, unless a handler has called stop() itself and
\* so waits for its own worker, or is about to take the process down.
StopReturns == \A c \in Callers :
    (caller[c] = "waiting") ~> (caller[c] # "waiting" \/ \E w \in Workers : pc[w] \in {"inClose", "inStop"})

\* A job that was started is eventually finished or retried, across restarts too, as
\* long as no process closes the queue.
StartedJobsSettle == \A j \in Ids :
    (status[j] = "running") ~> (status[j] # "running" \/ \E h \in Handles : handle[h] = "closed")
=============================================================================
