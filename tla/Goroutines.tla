------------------------------ MODULE Goroutines ------------------------------
(***************************************************************************)
(* Concurrency in an MX program: spawn, channels, wait groups and the      *)
(* variables of a shared scope (SpawnStmt, Channel and Env of              *)
(* src/interpreter/interpreter.go; chan, send, recv, close_chan and        *)
(* wait_group of src/interpreter/builtins.go).                             *)
(*                                                                         *)
(* A program gives every goroutine a sequence of operations; Main starts   *)
(* running and spawns the others.  When Main ends, the process exits and   *)
(* the other goroutines are gone.  Channels and wait groups are Go's, and  *)
(* modelled from how the builtins use them.                                *)
(***************************************************************************)
EXTENDS Integers, Sequences, FiniteSets

CONSTANTS Programs, \* records [code, capacity]
          Documented, \* those that follow the documented patterns
          Procs,    \* goroutines
          Main,     \* the one that runs the program's top level
          Chans,    \* channels, created before the first spawn
          Null      \* MX's null

VARIABLES program,
          ip,       \* ip[p]: index of p's next operation
          state,    \* state[p]: what p is doing
          buffer,   \* buffer[c]: values accepted by c and not yet received
          closed,   \* closed[c]: whether c is closed
          counter,  \* the wait group's counter; a panic leaves it below zero
          shared,   \* a variable of the scope that the goroutines share
          register, \* register[p]: p's copy of it while it computes a new value
          accepted, \* accepted[c]: history, the values c accepted, in order
          received, \* received[p][c]: history, the values p received from c
          lost      \* history, the values whose send panicked

chanVars == <<buffer, closed, accepted, lost>>
vars == <<program, ip, state, counter, shared, register, received, chanVars>>

-----------------------------------------------------------------------------
(* Operations. *)

Spawn(p)     == [op |-> "spawn", proc |-> p]
Send(c)      == [op |-> "send", chan |-> c]
SendNull(c)  == [op |-> "send null", chan |-> c]
Recv(c)      == [op |-> "recv", chan |-> c]
RecvLoop(c)  == [op |-> "recv until null", chan |-> c]
CloseChan(c) == [op |-> "close", chan |-> c]
Add          == [op |-> "add"]
Done         == [op |-> "done"]
Wait         == [op |-> "wait"]
Increment    == [op |-> "increment"]

Operations ==
    { Spawn(p) : p \in Procs } \cup {Add, Done, Wait, Increment}
    \cup UNION { {Send(c), SendNull(c), Recv(c), RecvLoop(c), CloseChan(c)} : c \in Chans }

\* Every run of a spawn makes a goroutine of its own, and none is the top level.
SpawnsOnce(g) ==
    /\ \A p, q \in Procs : \A j \in DOMAIN g.code[p], k \in DOMAIN g.code[q] :
          g.code[p][j].op = "spawn" /\ g.code[p][j] = g.code[q][k] => p = q /\ j = k
    /\ \A p \in Procs : \A k \in DOMAIN g.code[p] : g.code[p][k] # Spawn(Main)

ASSUME GoroutinesAssumption ==
    /\ IsFiniteSet(Procs) /\ Main \in Procs
    /\ Documented \subseteq Programs
    /\ \A g \in Programs : /\ g.code \in [Procs -> Seq(Operations)]
                           /\ g.capacity \in [Chans -> Nat]
                           /\ SpawnsOnce(g)

Code(p) == program.code[p]
Op(p)   == Code(p)[ip[p]]
Alive   == state[Main] \notin {"ended", "panicked"}

Init ==
    /\ program \in Programs
    /\ ip = [p \in Procs |-> 1]
    /\ state = [p \in Procs |-> IF p = Main THEN "running" ELSE "unborn"]
    /\ buffer = [c \in Chans |-> <<>>]
    /\ closed = [c \in Chans |-> FALSE]
    /\ counter = 0
    /\ shared = 0
    /\ register = [p \in Procs |-> 0]
    /\ accepted = [c \in Chans |-> <<>>]
    /\ received = [p \in Procs |-> [c \in Chans |-> <<>>]]
    /\ lost = {}

\* p is at an operation op, in state st, of a process that has not exited.
At(p, op, st) ==
    /\ Alive
    /\ state[p] = st
    /\ ip[p] <= Len(Code(p))
    /\ Op(p).op = op

Advance(p) == /\ ip' = [ip EXCEPT ![p] = @ + 1]
              /\ state' = [state EXCEPT ![p] = "running"]

Enter(p, st) == /\ state' = [state EXCEPT ![p] = st]
                /\ UNCHANGED ip

-----------------------------------------------------------------------------
(* spawn, and the end of a goroutine's block. *)

DoSpawn(p) ==
    /\ At(p, "spawn", "running")
    /\ ip' = [ip EXCEPT ![p] = @ + 1]
    /\ state' = [state EXCEPT ![Op(p).proc] = "running"]
    /\ UNCHANGED <<program, counter, shared, register, received, chanVars>>

End(p) ==
    /\ Alive
    /\ state[p] = "running"
    /\ ip[p] > Len(Code(p))
    /\ Enter(p, "ended")
    /\ UNCHANGED <<program, counter, shared, register, received, chanVars>>

-----------------------------------------------------------------------------
(* Channels. *)

\* The value of the send p is at: its position identifies it.
Value(p) == IF Op(p).op = "send null" THEN Null ELSE <<p, ip[p]>>

Sending(p, c) ==
    /\ Alive
    /\ state[p] = "sending"
    /\ Op(p).chan = c

Receiving(p, c) ==
    /\ Alive
    /\ state[p] = "receiving"
    /\ Op(p).chan = c

BeginSend(p) ==
    /\ At(p, "send", "running") \/ At(p, "send null", "running")
    /\ Enter(p, "sending")
    /\ UNCHANGED <<program, counter, shared, register, received, chanVars>>

BeginRecv(p) ==
    /\ At(p, "recv", "running") \/ At(p, "recv until null", "running")
    /\ Enter(p, "receiving")
    /\ UNCHANGED <<program, counter, shared, register, received, chanVars>>

HasRoom(c) == Len(buffer[c]) < program.capacity[c]

SendBuffered(p, c) ==
    /\ Sending(p, c)
    /\ ~closed[c]
    /\ HasRoom(c)
    /\ buffer' = [buffer EXCEPT ![c] = Append(@, Value(p))]
    /\ accepted' = [accepted EXCEPT ![c] = Append(@, Value(p))]
    /\ Advance(p)
    /\ UNCHANGED <<program, closed, counter, shared, register, received, lost>>

\* The send panics and builtinChanSend recovers: it returns as if it had sent.
SendClosed(p, c) ==
    /\ Sending(p, c)
    /\ closed[c]
    /\ lost' = lost \cup {Value(p)}
    /\ Advance(p)
    /\ UNCHANGED <<program, buffer, closed, counter, shared, register, accepted, received>>

\* What recv returns to q: one iteration of its loop, or the end of it.
Return(q, value) ==
    IF Op(q).op = "recv until null" /\ value # Null
      THEN state' = [state EXCEPT ![q] = "running"] /\ UNCHANGED ip
      ELSE Advance(q)

Receive(q, c, value) == received' = [received EXCEPT ![q][c] = Append(@, value)]

RecvBuffered(q, c) ==
    /\ Receiving(q, c)
    /\ buffer[c] # <<>>
    /\ Receive(q, c, Head(buffer[c]))
    /\ buffer' = [buffer EXCEPT ![c] = Tail(@)]
    /\ Return(q, Head(buffer[c]))
    /\ UNCHANGED <<program, closed, counter, shared, register, accepted, lost>>

\* An unbuffered channel hands the value over when both sides are there.
HandOver(p, q, c) ==
    /\ Sending(p, c)
    /\ Receiving(q, c)
    /\ ~closed[c]
    /\ program.capacity[c] = 0
    /\ Receive(q, c, Value(p))
    /\ accepted' = [accepted EXCEPT ![c] = Append(@, Value(p))]
    /\ LET loops == Op(q).op = "recv until null" /\ Value(p) # Null
       IN  ip' = [ip EXCEPT ![p] = @ + 1, ![q] = IF loops THEN @ ELSE @ + 1]
    /\ state' = [state EXCEPT ![p] = "running", ![q] = "running"]
    /\ UNCHANGED <<program, buffer, closed, counter, shared, register, lost>>

\* Mutant of RecvClosed: a closed channel's buffer is not drained.
RecvClosedAtOnce(q, c) ==
    /\ Receiving(q, c)
    /\ closed[c]
    /\ Return(q, Null)
    /\ UNCHANGED <<program, counter, shared, register, received, chanVars>>

\* recv on a closed and empty channel returns null.
RecvClosed(q, c) ==
    /\ Receiving(q, c)
    /\ closed[c]
    /\ buffer[c] = <<>>
    /\ Return(q, Null)
    /\ UNCHANGED <<program, counter, shared, register, received, chanVars>>

\* Mutant of DoClose: the Once has been spent on nothing.
DoCloseNothing(p) ==
    /\ At(p, "close", "running")
    /\ Advance(p)
    /\ UNCHANGED <<program, closed, buffer, counter, shared, register, accepted, received, lost>>

\* Channel.Close closes once.
DoClose(p) ==
    /\ At(p, "close", "running")
    /\ closed' = [closed EXCEPT ![Op(p).chan] = TRUE]
    /\ Advance(p)
    /\ UNCHANGED <<program, buffer, counter, shared, register, accepted, received, lost>>

-----------------------------------------------------------------------------
(* The wait group: Add of Go's, of 1 or, in Done, of -1, and Wait. *)

\* A count that comes to zero wakes those that wait.
Counts(p, n) ==
    /\ counter + n >= 0
    /\ counter' = counter + n
    /\ ip' = [ip EXCEPT ![p] = @ + 1]
    /\ state' = [q \in Procs |-> IF state[q] = "waiting" /\ counter' = 0 THEN "woken" ELSE state[q]]

DoAdd(p) ==
    /\ At(p, "add", "running")
    /\ Counts(p, 1)
    /\ UNCHANGED <<program, shared, register, received, chanVars>>

DoDone(p) ==
    /\ At(p, "done", "running")
    /\ Counts(p, -1)
    /\ UNCHANGED <<program, shared, register, received, chanVars>>

\* A negative counter panics, and stays negative: a spawned goroutine recovers and
\* ends, the top level takes the process down.
CountPanics(p) ==
    /\ \E n \in {1, -1} :
          /\ At(p, IF n = 1 THEN "add" ELSE "done", "running")
          /\ counter + n < 0
          /\ counter' = counter + n
    /\ Enter(p, "panicked")
    /\ UNCHANGED <<program, shared, register, received, chanVars>>

\* wait() returns at once, or when it has been woken and finds the counter still at zero.
DoWait(p) ==
    /\ At(p, "wait", "running") \/ At(p, "wait", "woken")
    /\ counter = 0
    /\ Advance(p)
    /\ UNCHANGED <<program, counter, shared, register, received, chanVars>>

WaitBlocks(p) ==
    /\ At(p, "wait", "running")
    /\ counter # 0
    /\ Enter(p, "waiting")
    /\ UNCHANGED <<program, counter, shared, register, received, chanVars>>

\* A wait group that is in use again before the woken goroutine has looked panics.
WaitPanics(p) ==
    /\ At(p, "wait", "woken")
    /\ counter # 0
    /\ Enter(p, "panicked")
    /\ UNCHANGED <<program, counter, shared, register, received, chanVars>>

-----------------------------------------------------------------------------
(* x = x + 1 on a variable of the shared scope: Env.Get, then Env.Assign. *)

ReadShared(p) ==
    /\ At(p, "increment", "running")
    /\ register' = [register EXCEPT ![p] = shared]
    /\ Enter(p, "computing")
    /\ UNCHANGED <<program, counter, shared, received, chanVars>>

AssignShared(p) ==
    /\ At(p, "increment", "computing")
    /\ shared' = register[p] + 1
    /\ Advance(p)
    /\ UNCHANGED <<program, counter, register, received, chanVars>>

-----------------------------------------------------------------------------
Step(p) ==
    \/ DoSpawn(p) \/ End(p) \/ BeginSend(p) \/ BeginRecv(p) \/ DoClose(p)
    \/ DoAdd(p) \/ DoDone(p) \/ CountPanics(p) \/ DoWait(p) \/ WaitBlocks(p) \/ WaitPanics(p)
    \/ ReadShared(p) \/ AssignShared(p)
    \/ \E c \in Chans : SendBuffered(p, c) \/ SendClosed(p, c)
                        \/ RecvBuffered(p, c) \/ RecvClosed(p, c)

Meet(p, q) == \E c \in Chans : HandOver(p, q, c)

Next == \E p \in Procs : Step(p) \/ \E q \in Procs : Meet(p, q)

Spec == Init /\ [][Next]_vars

\* The Go scheduler runs every goroutine that can run.
FairSpec == /\ Spec
            /\ \A p \in Procs : WF_vars(Step(p))
            /\ \A p, q \in Procs : WF_vars(Meet(p, q))

-----------------------------------------------------------------------------
(* Properties. *)

Values == {Null} \cup (Procs \X (Nat \ {0}))

TypeOK ==
    /\ program \in Programs
    /\ ip \in [Procs -> Nat \ {0}]
    /\ \A p \in Procs : ip[p] <= Len(Code(p)) + 1
    /\ state \in [Procs -> {"unborn", "running", "sending", "receiving", "computing", "waiting", "woken",
                            "ended", "panicked"}]
    /\ buffer \in [Chans -> Seq(Values)]
    /\ \A c \in Chans : Len(buffer[c]) <= program.capacity[c]
    /\ closed \in [Chans -> BOOLEAN]
    /\ counter \in Int /\ shared \in Nat /\ register \in [Procs -> Nat]
    /\ accepted \in [Chans -> Seq(Values)] /\ received \in [Procs -> [Chans -> Seq(Values)]]
    /\ lost \subseteq Values

Passed(p) == 1 .. ip[p] - 1
Elements(seq) == { seq[k] : k \in DOMAIN seq }

\* CHANGELOG 0.16: "null means closed".  A goroutine that has left its loop on
\* recv has every value the channel accepted, in order, and the channel is
\* closed; provided that it is alone to receive and nobody sends null.
LoopDrains ==
    \A p \in Procs : \A k \in Passed(p) :
        LET c == Code(p)[k].chan
        IN  (/\ Code(p)[k].op = "recv until null"
             /\ Null \notin Elements(accepted[c])
             /\ \A q \in Procs \ {p} : received[q][c] = <<>>)
            => closed[c] /\ received[p][c] = accepted[c]

\* A send that has returned was accepted, unless the channel was closed under it: then
\* the value is lost although send returned no error (the comment at builtins.go:4882
\* speaks of one).
SendsAccepted ==
    \A p \in Procs : \A k \in Passed(p) :
        Code(p)[k].op = "send" =>
            LET c == Code(p)[k].chan
            IN  \/ <<p, k>> \in Elements(accepted[c])
                \/ closed[c] /\ <<p, k>> \in lost

\* The wait group: every goroutine that is announced by an add right before
\* its spawn, and calls done once.
Announced(p, k) == { Code(p)[j + 1].proc : j \in { i \in 1 .. k - 1 :
                        Code(p)[i].op = "add" /\ Code(p)[i + 1].op = "spawn" } }

Count(p, op) == Cardinality({ k \in 1 .. Len(Code(p)) : Code(p)[k].op = op })

Balanced ==
    /\ \A p \in Procs \ {Main} : Count(p, "add") = 0 /\ Count(p, "done") <= 1
    /\ Count(Main, "done") = 0
    /\ { p \in Procs : Count(p, "done") = 1 } = Announced(Main, Len(Code(Main)))
    /\ Count(Main, "add") = Cardinality(Announced(Main, Len(Code(Main))))

\* CHANGELOG 0.16, "fork N goroutines, wait for all": wait returns only when
\* every announced goroutine has called done.
WaitJoins ==
    Balanced => \A p \in Procs : \A k \in Passed(p) :
        Code(p)[k].op = "wait" =>
            \A q \in Announced(p, k) : \E j \in Passed(q) : Code(q)[j].op = "done"

OnlyMainWaits == \A p \in Procs \ {Main} : Count(p, "wait") = 0

\* Such a fork does not panic: no done takes the counter below zero, however the
\* dones fall between the adds, and nothing moves it between the waking of the top
\* level and its second look, which sync.WaitGroup takes for a misuse.
NoPanics == Balanced /\ OnlyMainWaits => \A p \in Procs : state[p] # "panicked"

ChanOp(o) == o.op \in {"send", "send null", "recv", "recv until null", "close"}

\* Every increment is between a send on and a recv from a channel of capacity 1
\* that is used for nothing else.
Guards(c) ==
    /\ program.capacity[c] = 1
    /\ \A p \in Procs : \A k \in 1 .. Len(Code(p)) :
         /\ Code(p)[k].op = "increment" =>
               /\ k > 1 /\ Code(p)[k - 1] = Send(c)
               /\ k < Len(Code(p)) /\ Code(p)[k + 1] = Recv(c)
         /\ ChanOp(Code(p)[k]) /\ Code(p)[k].chan = c =>
               \/ k < Len(Code(p)) /\ Code(p)[k] = Send(c) /\ Code(p)[k + 1] = Increment
               \/ k > 1 /\ Code(p)[k] = Recv(c) /\ Code(p)[k - 1] = Increment

Increments == UNION { {p} \X { k \in Passed(p) : Code(p)[k].op = "increment" } : p \in Procs }

\* Coordinated by such a channel, goroutines lose no update of a shared variable.
NoLostUpdate ==
    (\E c \in Chans : Guards(c)) =>
        shared = Cardinality(Increments)

\* What the documented patterns promise, all of it of any program that follows them,
\* with no channel ever over its capacity.
PatternsHold == TypeOK /\ LoopDrains /\ SendsAccepted /\ WaitJoins /\ NoPanics /\ NoLostUpdate

\* A program that follows the documented patterns comes to its end.
DocumentedEnd == program \in Documented ~> state[Main] = "ended"
=============================================================================
