---------------------------- MODULE AtomicStore ----------------------------
(***************************************************************************)
(* What a file-backed store promises (builtins.go, KV store): each         *)
(* operation takes effect at one moment between its call and its return,   *)
(* or not at all when it fails; a crash ends the calls and keeps what      *)
(* was done.                                                               *)
(***************************************************************************)
CONSTANTS Callers, Operations,
          Effect(_, _),  \* the map after an operation
          Answer(_, _),  \* what it returns
          Empty, NoOp, Idle, Error

VARIABLES map, call
vars == <<map, call>>

Called(op)   == [op |-> op, answer |-> Idle]
Answered(op, answer) == [op |-> op, answer |-> answer]
Nothing == Called(NoOp)

Init == map = Empty /\ call = [t \in Callers |-> Nothing]

Invoke(t) ==
    /\ call[t] = Nothing
    /\ \E op \in Operations : call' = [call EXCEPT ![t] = Called(op)]
    /\ UNCHANGED map

Pending(t) == call[t] # Nothing /\ call[t].answer = Idle

Apply(t) ==
    /\ Pending(t)
    /\ map' = Effect(call[t].op, map)
    /\ call' = [call EXCEPT ![t] = Answered(@.op, Answer(@.op, map))]

Fail(t) ==
    /\ Pending(t)
    /\ call' = [call EXCEPT ![t] = Answered(@.op, Error)]
    /\ UNCHANGED map

Return(t) ==
    /\ call[t].answer # Idle
    /\ call' = [call EXCEPT ![t] = Nothing]
    /\ UNCHANGED map

Crash == call' = [t \in Callers |-> Nothing] /\ UNCHANGED map

Next == Crash \/ \E t \in Callers : Invoke(t) \/ Apply(t) \/ Fail(t) \/ Return(t)
Spec == Init /\ [][Next]_vars
=============================================================================
