------------------------------ MODULE JobQueue ------------------------------
(***************************************************************************)
(* What the durable job queue promises to the program that uses it,        *)
(* without transactions, connections or clocks: a job is enqueued once, is *)
(* held by at most one runner at a time, is tried at most MaxAttempts      *)
(* times, and a job that reached "done" or "failed" stays there.           *)
(***************************************************************************)
EXTENDS Naturals

CONSTANTS Jobs,         \* identifiers of the jobs
          Runners,      \* the goroutines that may run a job
          Nobody,       \* not a runner
          MaxAttempts   \* the number of times a job is tried

VARIABLES state,    \* state[j]: what the queue says of job j
          tries,    \* tries[j]: how often job j was handed to a runner
          holder    \* holder[j]: the runner that has job j in hand

vars == <<state, tries, holder>>

JobStates == {"absent", "pending", "running", "done", "failed"}

TypeOK == /\ state \in [Jobs -> JobStates]
          /\ tries \in [Jobs -> 0 .. MaxAttempts]
          /\ holder \in [Jobs -> Runners \cup {Nobody}]

Init == /\ state = [j \in Jobs |-> "absent"]
        /\ tries = [j \in Jobs |-> 0]
        /\ holder = [j \in Jobs |-> Nobody]

Enqueue(j) == /\ state[j] = "absent"
              /\ state' = [state EXCEPT ![j] = "pending"]
              /\ UNCHANGED <<tries, holder>>

Claim(r, j) == /\ state[j] = "pending"
               /\ tries[j] < MaxAttempts
               /\ \A k \in Jobs : holder[k] # r
               /\ state' = [state EXCEPT ![j] = "running"]
               /\ tries' = [tries EXCEPT ![j] = @ + 1]
               /\ holder' = [holder EXCEPT ![j] = r]

\* The runner reports success, a failure that will be retried, or the last failure.
Report(r, j) == /\ holder[j] = r
                /\ state[j] = "running"
                /\ \/ state' = [state EXCEPT ![j] = "done"]
                   \/ /\ tries[j] < MaxAttempts
                      /\ state' = [state EXCEPT ![j] = "pending"]
                   \/ /\ tries[j] = MaxAttempts
                      /\ state' = [state EXCEPT ![j] = "failed"]
                /\ holder' = [holder EXCEPT ![j] = Nobody]
                /\ UNCHANGED tries

\* Some runners vanish (their process died, or the report could not be written).
Abandon(R) == /\ holder' = [j \in Jobs |-> IF holder[j] \in R THEN Nobody ELSE holder[j]]
              /\ UNCHANGED <<state, tries>>

Next == \/ \E j \in Jobs : Enqueue(j)
        \/ \E r \in Runners, j \in Jobs : Claim(r, j) \/ Report(r, j)
        \/ \E R \in SUBSET Runners : Abandon(R)

Spec == Init /\ [][Next]_vars
=============================================================================
