------------------------------- MODULE MCJobs -------------------------------
(***************************************************************************)
(* Small instances of Jobs: two processes with a worker each on one        *)
(* database file, and one process with two workers.                        *)
(***************************************************************************)
EXTENDS Jobs, TLC

CONSTANTS h1, h2, w1, w2, c1, c2

TwoProcesses == w1 :> h1 @@ w2 :> h2
OneProcess   == w1 :> h1 @@ w2 :> h1
OneQueue     == [h \in Handles |-> "emails"]
StopsFirst   == [c \in Callers |-> h1]
=============================================================================
