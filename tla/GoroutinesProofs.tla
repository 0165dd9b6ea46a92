-------------------------- MODULE GoroutinesProofs --------------------------
(***************************************************************************)
(* Proofs about Goroutines, for any set of programs of any length, any     *)
(* finite number of goroutines, and channels of any capacity.              *)
(***************************************************************************)
EXTENDS Goroutines, FiniteSetTheorems, SequenceTheorems, TLAPS

SendOps == {"send", "send null"}
RecvOps == {"recv", "recv until null"}

-----------------------------------------------------------------------------
(* Operations *)

\* A program's operations are Operations, and stay what they are.
LEMMA CodeType ==
  ASSUME program \in Programs, NEW p \in Procs
  PROVE  /\ Code(p) \in Seq(Operations)
         /\ Len(Code(p)) \in Nat
         /\ \A k \in 1 .. Len(Code(p)) : Code(p)[k] \in Operations
         /\ DOMAIN Code(p) = 1 .. Len(Code(p))
BY GoroutinesAssumption DEF Code

LEMMA OperationType ==
  ASSUME NEW o \in Operations
  PROVE  /\ o.op = "spawn" => o.proc \in Procs /\ o = Spawn(o.proc)
         /\ o.op \in SendOps \cup RecvOps \cup {"close"} => o.chan \in Chans
<1> USE DEF SendOps, RecvOps
<1>1. CASE \E p \in Procs : o = Spawn(p)
  BY <1>1 DEF Spawn
<1>2. CASE o \in {Add, Done, Wait, Increment}
  <2>1. o.op \in {"add", "done", "wait", "increment"}
    BY <1>2 DEF Add, Done, Wait, Increment
  <2> QED
    BY <2>1
<1>3. ASSUME NEW c \in Chans, o \in {Send(c), SendNull(c), Recv(c), RecvLoop(c), CloseChan(c)}
      PROVE  o.op # "spawn" /\ o.chan = c
  <2>1. CASE o = Send(c)
    BY <2>1 DEF Send
  <2>2. CASE o = SendNull(c)
    BY <2>2 DEF SendNull
  <2>3. CASE o = Recv(c)
    BY <2>3 DEF Recv
  <2>4. CASE o = RecvLoop(c)
    BY <2>4 DEF RecvLoop
  <2>5. CASE o = CloseChan(c)
    BY <2>5 DEF CloseChan
  <2> QED
    BY <1>3, <2>1, <2>2, <2>3, <2>4, <2>5
<1>4. \/ \E p \in Procs : o = Spawn(p)
      \/ o \in {Add, Done, Wait, Increment}
      \/ \E c \in Chans : o \in {Send(c), SendNull(c), Recv(c), RecvLoop(c), CloseChan(c)}
  BY DEF Operations
<1> QED
  BY <1>1, <1>2, <1>3, <1>4

\* What a goroutine is doing is its next operation.
AtOperation ==
    \A p \in Procs :
       /\ state[p] = "sending"   => ip[p] <= Len(Code(p)) /\ Op(p).op \in SendOps
       /\ state[p] = "receiving" => ip[p] <= Len(Code(p)) /\ Op(p).op \in RecvOps
       /\ state[p] = "computing" => ip[p] <= Len(Code(p)) /\ Op(p).op = "increment"

\* The operation of a goroutine that has not come to its end.
LEMMA OpType ==
  ASSUME TypeOK, NEW p \in Procs, ip[p] <= Len(Code(p))
  PROVE  /\ Op(p) \in Operations
         /\ Op(p).op = "spawn" => Op(p).proc \in Procs /\ Op(p) = Spawn(Op(p).proc)
         /\ Op(p).op \in SendOps \cup RecvOps \cup {"close"} => Op(p).chan \in Chans
         /\ Value(p) \in Values
<1>1. ip[p] \in 1 .. Len(Code(p))
  BY CodeType DEF TypeOK
<1>2. Op(p) \in Operations
  BY <1>1, CodeType DEF TypeOK, Op
<1>3. Value(p) \in Values
  BY DEF TypeOK, Value, Values
<1> QED
  BY <1>2, <1>3, OperationType

-----------------------------------------------------------------------------
(* Types *)

LEMMA InitTypes == Init => TypeOK /\ AtOperation
<1> SUFFICES ASSUME Init PROVE TypeOK /\ AtOperation
  OBVIOUS
<1>1. \A p \in Procs : 1 <= Len(Code(p)) + 1
  BY CodeType DEF Init
<1>2. \A c \in Chans : program.capacity[c] \in Nat
  BY GoroutinesAssumption DEF Init
<1>3. TypeOK
  BY <1>1, <1>2 DEF Init, TypeOK
<1>4. AtOperation
  BY DEF Init, AtOperation
<1> QED
  BY <1>3, <1>4

\* The conjuncts of TypeOK, by what they are about.
ControlTypes ==
    /\ ip \in [Procs -> Nat \ {0}]
    /\ \A p \in Procs : ip[p] <= Len(Code(p)) + 1
    /\ state \in [Procs -> {"unborn", "running", "sending", "receiving", "computing", "ended",
                            "waiting", "woken", "panicked"}]

ChannelTypes ==
    /\ buffer \in [Chans -> Seq(Values)]
    /\ \A c \in Chans : Len(buffer[c]) <= program.capacity[c]
    /\ closed \in [Chans -> BOOLEAN]
    /\ accepted \in [Chans -> Seq(Values)] /\ received \in [Procs -> [Chans -> Seq(Values)]]
    /\ lost \subseteq Values

CounterTypes == counter \in Int /\ shared \in Nat /\ register \in [Procs -> Nat]

LEMMA TypeParts == TypeOK <=> program \in Programs /\ ControlTypes /\ ChannelTypes /\ CounterTypes
BY DEF TypeOK, ControlTypes, ChannelTypes, CounterTypes

LEMMA SameCode == ASSUME program' = program PROVE \A p \in Procs : Code(p)' = Code(p)
BY DEF Code

LEMMA AdvanceTypes ==
  ASSUME program' = program, TypeOK, AtOperation, NEW p \in Procs, ip[p] <= Len(Code(p)), Advance(p)
  PROVE  ControlTypes' /\ AtOperation'
<1>1. \A q \in Procs : Code(q)' = Code(q) /\ Len(Code(q)) \in Nat
  BY SameCode, CodeType DEF TypeOK
<1>2. ControlTypes'
  BY <1>1 DEF Advance, TypeOK, ControlTypes
<1>3. AtOperation'
  BY <1>1 DEF Advance, TypeOK, AtOperation, Op
<1> QED
  BY <1>2, <1>3

LEMMA EnterTypes ==
  ASSUME program' = program, TypeOK, AtOperation, NEW p \in Procs,
         NEW st \in {"sending", "receiving", "computing", "running", "ended", "waiting", "panicked"}, Enter(p, st),
         st = "sending" => ip[p] <= Len(Code(p)) /\ Op(p).op \in SendOps,
         st = "receiving" => ip[p] <= Len(Code(p)) /\ Op(p).op \in RecvOps,
         st = "computing" => ip[p] <= Len(Code(p)) /\ Op(p).op = "increment"
  PROVE  ControlTypes' /\ AtOperation'
<1>1. \A q \in Procs : Code(q)' = Code(q)
  BY SameCode
<1>2. ControlTypes'
  BY <1>1 DEF Enter, TypeOK, ControlTypes
<1>3. AtOperation'
  BY <1>1 DEF Enter, TypeOK, AtOperation, Op
<1> QED
  BY <1>2, <1>3

LEMMA CountsTypes ==
  ASSUME program' = program, TypeOK, AtOperation, NEW p \in Procs, NEW n, Counts(p, n),
         ip[p] <= Len(Code(p)), state[p] = "running"
  PROVE  ControlTypes' /\ AtOperation'
<1>1. \A q \in Procs : Code(q)' = Code(q) /\ Len(Code(q)) \in Nat
  BY SameCode, CodeType DEF TypeOK
<1>2. /\ ip' = [ip EXCEPT ![p] = ip[p] + 1]
      /\ state' = [q \in Procs |-> IF state[q] = "waiting" /\ counter' = 0 THEN "woken" ELSE state[q]]
  BY DEF Counts
<1>3. ControlTypes'
  BY <1>1, <1>2 DEF TypeOK, ControlTypes
<1>4. AtOperation'
  BY <1>1, <1>2 DEF TypeOK, AtOperation, Op
<1> QED
  BY <1>3, <1>4

LEMMA StepTypes == TypeOK /\ AtOperation /\ [Next]_vars => TypeOK' /\ AtOperation'
<1> SUFFICES ASSUME TypeOK, AtOperation, [Next]_vars PROVE TypeOK' /\ AtOperation'
  OBVIOUS
<1> USE DEF chanVars
<1>1. program' = program
  BY DEF Next, Step, Meet, vars, DoSpawn, End, BeginSend, BeginRecv, DoClose, DoAdd, DoDone, CountPanics,
         WaitBlocks, WaitPanics,
         DoWait, ReadShared, AssignShared, SendBuffered, SendClosed, RecvBuffered, RecvClosed, HandOver
<1>2. \A p \in Procs : Code(p)' = Code(p) /\ Len(Code(p)) \in Nat
  BY <1>1, CodeType DEF Code, TypeOK
<1>3. program \in Programs /\ ControlTypes /\ ChannelTypes /\ CounterTypes
  BY TypeParts
<1>4. ControlTypes' /\ ChannelTypes' /\ CounterTypes' => TypeOK'
  BY <1>1, <1>3 DEF TypeOK, ControlTypes, ChannelTypes, CounterTypes
<1>5. UNCHANGED <<received, chanVars>> => ChannelTypes'
  BY <1>1, <1>3 DEF ChannelTypes
<1>6. UNCHANGED <<counter, shared, register>> => CounterTypes'
  BY <1>3 DEF CounterTypes
<1>7. \A c \in Chans : program.capacity[c] \in Nat
  BY <1>3, GoroutinesAssumption
<1>8. ASSUME NEW p \in Procs, DoSpawn(p) PROVE TypeOK' /\ AtOperation'
  <2>1. Op(p).proc \in Procs
    BY <1>8, OpType DEF DoSpawn, At
  <2>2. ControlTypes'
    BY <1>2, <1>3, <1>8, <2>1 DEF DoSpawn, At, ControlTypes
  <2>3. AtOperation'
    BY <1>2, <1>8, <2>1 DEF DoSpawn, At, TypeOK, AtOperation, Op
  <2> QED
    BY <1>4, <1>5, <1>6, <1>8, <2>2, <2>3 DEF DoSpawn
<1>9. ASSUME NEW p \in Procs,
             End(p) \/ BeginSend(p) \/ BeginRecv(p) \/ WaitBlocks(p) \/ WaitPanics(p)
      PROVE  TypeOK' /\ AtOperation'
  <2>1. ControlTypes' /\ AtOperation'
    BY <1>1, <1>9, EnterTypes DEF End, BeginSend, BeginRecv, WaitBlocks, WaitPanics, At, SendOps, RecvOps
  <2> QED
    BY <1>4, <1>5, <1>6, <1>9, <2>1 DEF End, BeginSend, BeginRecv, WaitBlocks, WaitPanics
<1>10. ASSUME NEW p \in Procs, DoClose(p) \/ DoWait(p) \/ AssignShared(p)
       PROVE  TypeOK' /\ AtOperation'
  <2>1. ControlTypes' /\ AtOperation'
    BY <1>1, <1>10, AdvanceTypes DEF DoClose, DoWait, AssignShared, At
  <2>2. CounterTypes'
    BY <1>3, <1>10 DEF DoClose, DoWait, AssignShared, CounterTypes
  <2>3. ChannelTypes'
    BY <1>1, <1>3, <1>5, <1>10 DEF DoClose, DoWait, AssignShared, ChannelTypes
  <2> QED
    BY <1>4, <2>1, <2>2, <2>3
<1>16. ASSUME NEW p \in Procs, DoAdd(p) \/ DoDone(p) PROVE TypeOK' /\ AtOperation'
  <2>1. ip[p] <= Len(Code(p)) /\ state[p] = "running"
    BY <1>16 DEF DoAdd, DoDone, At
  <2>2. ControlTypes' /\ AtOperation'
    BY <1>1, <1>16, <2>1, CountsTypes DEF DoAdd, DoDone
  <2>3. CounterTypes'
    BY <1>3, <1>16 DEF DoAdd, DoDone, Counts, CounterTypes
  <2> QED
    BY <1>4, <1>5, <1>16, <2>2, <2>3 DEF DoAdd, DoDone
<1>17. ASSUME NEW p \in Procs, CountPanics(p) PROVE TypeOK' /\ AtOperation'
  <2>1. ControlTypes' /\ AtOperation'
    BY <1>1, <1>17, EnterTypes DEF CountPanics
  <2>2. CounterTypes'
    BY <1>3, <1>17 DEF CountPanics, CounterTypes
  <2> QED
    BY <1>4, <1>5, <1>17, <2>1, <2>2 DEF CountPanics
<1>11. ASSUME NEW p \in Procs, ReadShared(p) PROVE TypeOK' /\ AtOperation'
  <2>1. ControlTypes' /\ AtOperation'
    BY <1>1, <1>11, EnterTypes DEF ReadShared, At
  <2>2. CounterTypes'
    BY <1>3, <1>11 DEF ReadShared, CounterTypes
  <2> QED
    BY <1>4, <1>5, <1>11, <2>1, <2>2 DEF ReadShared
<1>12. ASSUME NEW p \in Procs, NEW c \in Chans, SendBuffered(p, c) \/ SendClosed(p, c) PROVE TypeOK' /\ AtOperation'
  <2>1. ip[p] <= Len(Code(p))
    BY <1>12 DEF SendBuffered, SendClosed, Sending, AtOperation
  <2>2. Value(p) \in Values
    BY <2>1, OpType
  <2>3. ControlTypes' /\ AtOperation'
    BY <1>1, <1>12, <2>1, AdvanceTypes DEF SendBuffered, SendClosed
  <2>4. ChannelTypes'
    <3>1. CASE SendBuffered(p, c)
      <4>1. buffer' = [buffer EXCEPT ![c] = Append(buffer[c], Value(p))]
        BY <3>1 DEF SendBuffered
      <4>2. accepted' = [accepted EXCEPT ![c] = Append(accepted[c], Value(p))]
        BY <3>1 DEF SendBuffered
      <4>3. Append(buffer[c], Value(p)) \in Seq(Values) /\ Append(accepted[c], Value(p)) \in Seq(Values)
        BY <1>3, <2>2, AppendProperties DEF ChannelTypes
      <4>4. Len(Append(buffer[c], Value(p))) <= program.capacity[c]
        BY <1>3, <1>7, <2>2, <3>1, AppendProperties, LenProperties DEF ChannelTypes, SendBuffered, HasRoom
      <4> QED
        BY <1>1, <1>3, <3>1, <4>1, <4>2, <4>3, <4>4 DEF SendBuffered, ChannelTypes
    <3>2. CASE SendClosed(p, c)
      BY <1>1, <1>3, <2>2, <3>2 DEF SendClosed, ChannelTypes
    <3> QED
      BY <1>12, <3>1, <3>2
  <2> QED
    BY <1>4, <1>6, <1>12, <2>3, <2>4 DEF SendBuffered, SendClosed
<1>13. ASSUME NEW p \in Procs, NEW c \in Chans, RecvBuffered(p, c) \/ RecvClosed(p, c) PROVE TypeOK' /\ AtOperation'
  <2>1. ip[p] <= Len(Code(p))
    BY <1>13 DEF RecvBuffered, RecvClosed, Receiving, AtOperation
  <2>2. Advance(p) \/ Enter(p, "running")
    BY <1>13 DEF RecvBuffered, RecvClosed, Return, Enter
  <2>3. ControlTypes' /\ AtOperation'
    BY <1>1, <2>1, <2>2, AdvanceTypes, EnterTypes
  <2>4. ChannelTypes'
    <3>1. CASE RecvBuffered(p, c)
      <4>1. /\ Head(buffer[c]) \in Values /\ Tail(buffer[c]) \in Seq(Values)
            /\ Len(Tail(buffer[c])) = Len(buffer[c]) - 1 /\ Len(buffer[c]) \in Nat
        BY <1>3, <3>1, HeadTailProperties, LenProperties DEF RecvBuffered, ChannelTypes
      <4>2. Append(received[p][c], Head(buffer[c])) \in Seq(Values)
        BY <1>3, <4>1, AppendProperties DEF ChannelTypes
      <4>3. received' = [received EXCEPT ![p][c] = Append(received[p][c], Head(buffer[c]))]
        BY <3>1 DEF RecvBuffered, Receive
      <4>4. received' \in [Procs -> [Chans -> Seq(Values)]]
        BY <1>3, <4>2, <4>3 DEF ChannelTypes
      <4>5. buffer' = [buffer EXCEPT ![c] = Tail(buffer[c])]
        BY <3>1 DEF RecvBuffered
      <4>6. buffer' \in [Chans -> Seq(Values)] /\ \A d \in Chans : Len(buffer'[d]) <= program.capacity[d]
        BY <1>3, <1>7, <4>1, <4>5 DEF ChannelTypes
      <4> QED
        BY <1>1, <1>3, <3>1, <4>4, <4>6 DEF RecvBuffered, ChannelTypes
    <3>2. CASE RecvClosed(p, c)
      BY <1>5, <3>2 DEF RecvClosed
    <3> QED
      BY <1>13, <3>1, <3>2
  <2> QED
    BY <1>4, <1>6, <1>13, <2>3, <2>4 DEF RecvBuffered, RecvClosed
<1>14. ASSUME NEW p \in Procs, NEW q \in Procs, NEW c \in Chans, HandOver(p, q, c) PROVE TypeOK' /\ AtOperation'
  <2>1. p # q /\ ip[p] <= Len(Code(p)) /\ ip[q] <= Len(Code(q))
    BY <1>14 DEF HandOver, Sending, Receiving, AtOperation
  <2>2. Value(p) \in Values
    BY <2>1, OpType
  <2>3. ChannelTypes'
    <3>1. Append(received[q][c], Value(p)) \in Seq(Values) /\ Append(accepted[c], Value(p)) \in Seq(Values)
      BY <1>3, <2>2, AppendProperties DEF ChannelTypes
    <3>2. received' = [received EXCEPT ![q][c] = Append(received[q][c], Value(p))]
      BY <1>14 DEF HandOver, Receive
    <3>3. accepted' = [accepted EXCEPT ![c] = Append(accepted[c], Value(p))]
      BY <1>14 DEF HandOver
    <3>4. received' \in [Procs -> [Chans -> Seq(Values)]] /\ accepted' \in [Chans -> Seq(Values)]
      BY <1>3, <3>1, <3>2, <3>3 DEF ChannelTypes
    <3> QED
      BY <1>1, <1>3, <1>14, <3>4 DEF HandOver, ChannelTypes
  <2>4. /\ state' = [state EXCEPT ![p] = "running", ![q] = "running"]
        /\ ip' = [ip EXCEPT ![p] = ip[p] + 1] \/ ip' = [ip EXCEPT ![p] = ip[p] + 1, ![q] = ip[q] + 1]
    BY <1>3, <1>14, <2>1 DEF HandOver, ControlTypes
  <2>5. ControlTypes'
    <3>1. ip' \in [Procs -> Nat \ {0}]
      BY <1>3, <2>4 DEF ControlTypes
    <3>2. \A r \in Procs : ip'[r] <= Len(Code(r)) + 1
      <4>1. \A r \in Procs : ip'[r] = ip[r] \/ (r \in {p, q} /\ ip'[r] = ip[r] + 1)
        <5>1. CASE ip' = [ip EXCEPT ![p] = ip[p] + 1]
          BY <1>3, <5>1 DEF ControlTypes
        <5>2. CASE ip' = [ip EXCEPT ![p] = ip[p] + 1, ![q] = ip[q] + 1]
          BY <1>3, <2>1, <5>2 DEF ControlTypes
        <5> QED
          BY <2>4, <5>1, <5>2
      <4>2. \A r \in Procs : ip[r] \in Nat
        BY <1>3 DEF ControlTypes
      <4> QED
        BY <1>2, <1>3, <2>1, <4>1, <4>2 DEF ControlTypes
    <3> QED
      BY <1>2, <1>3, <2>4, <3>1, <3>2 DEF ControlTypes
  <2>6. AtOperation'
    BY <1>2, <2>1, <2>4 DEF TypeOK, AtOperation, Op
  <2> QED
    BY <1>4, <1>6, <1>14, <2>3, <2>5, <2>6 DEF HandOver
<1>15. CASE UNCHANGED vars
  BY <1>15 DEF vars, TypeOK, AtOperation, Code, Op
<1> QED
  BY <1>8, <1>9, <1>10, <1>11, <1>12, <1>13, <1>14, <1>15, <1>16, <1>17 DEF Next, Step, Meet

-----------------------------------------------------------------------------
(* Steps *)

\* The actions that take p to its next operation.
Passes(p) ==
    \/ DoSpawn(p) \/ DoClose(p) \/ DoAdd(p) \/ DoDone(p) \/ DoWait(p) \/ AssignShared(p)
    \/ \E c \in Chans : SendBuffered(p, c) \/ SendClosed(p, c)
    \/ \E c \in Chans : RecvBuffered(p, c) \/ RecvClosed(p, c)
    \/ \E c \in Chans, q \in Procs : HandOver(p, q, c) \/ HandOver(q, p, c)

\* A step takes goroutines to their next operation, one at a time.
LEMMA StepMoves ==
  ASSUME TypeOK, AtOperation, Next
  PROVE  /\ program' = program
         /\ \A r \in Procs : Code(r)' = Code(r)
         /\ \A r \in Procs : \/ ip'[r] = ip[r]
                             \/ ip'[r] = ip[r] + 1 /\ ip[r] <= Len(Code(r)) /\ Passes(r)
<1>1. program' = program
  BY DEF Next, Step, Meet, DoSpawn, End, BeginSend, BeginRecv, DoClose, DoAdd, DoDone, CountPanics,
         WaitBlocks, WaitPanics,
         DoWait, ReadShared, AssignShared, SendBuffered, SendClosed, RecvBuffered, RecvClosed, HandOver
<1> SUFFICES ASSUME NEW r \in Procs
             PROVE  \/ ip'[r] = ip[r]
                    \/ ip'[r] = ip[r] + 1 /\ ip[r] <= Len(Code(r)) /\ Passes(r)
  BY <1>1, SameCode
<1> USE DEF TypeOK
<1>2. ASSUME NEW p \in Procs, DoSpawn(p) \/ DoClose(p) \/ DoAdd(p) \/ DoDone(p) \/ DoWait(p) \/ AssignShared(p)
      PROVE  ip' = [ip EXCEPT ![p] = ip[p] + 1] /\ ip[p] <= Len(Code(p)) /\ Passes(p)
  BY <1>2 DEF DoSpawn, DoClose, DoAdd, DoDone, Counts, DoWait, AssignShared, Advance, At, Passes
<1>3. ASSUME NEW p \in Procs,
             End(p) \/ BeginSend(p) \/ BeginRecv(p) \/ CountPanics(p) \/ WaitBlocks(p) \/ WaitPanics(p)
             \/ ReadShared(p)
      PROVE  ip' = ip
  BY <1>3 DEF End, BeginSend, BeginRecv, CountPanics, WaitBlocks, WaitPanics, ReadShared, Enter
<1>4. ASSUME NEW p \in Procs, NEW c \in Chans, SendBuffered(p, c) \/ SendClosed(p, c)
      PROVE  ip' = [ip EXCEPT ![p] = ip[p] + 1] /\ ip[p] <= Len(Code(p)) /\ Passes(p)
  BY <1>4 DEF SendBuffered, SendClosed, Sending, Advance, AtOperation, Passes
<1>5. ASSUME NEW p \in Procs, NEW c \in Chans, RecvBuffered(p, c) \/ RecvClosed(p, c)
      PROVE  /\ ip' = ip \/ ip' = [ip EXCEPT ![p] = ip[p] + 1]
             /\ ip[p] <= Len(Code(p)) /\ Passes(p)
  BY <1>5 DEF RecvBuffered, RecvClosed, Receiving, Return, Advance, AtOperation, Passes
<1>6. ASSUME NEW p \in Procs, NEW q \in Procs, NEW c \in Chans, HandOver(p, q, c)
      PROVE  /\ p # q /\ Passes(p) /\ Passes(q) /\ ip[p] <= Len(Code(p)) /\ ip[q] <= Len(Code(q))
             /\ \/ ip' = [ip EXCEPT ![p] = ip[p] + 1]
                \/ ip' = [ip EXCEPT ![p] = ip[p] + 1, ![q] = ip[q] + 1]
  <2>1. p # q /\ ip[p] <= Len(Code(p)) /\ ip[q] <= Len(Code(q))
    BY <1>6 DEF HandOver, Sending, Receiving, AtOperation
  <2>2. \/ ip' = [ip EXCEPT ![p] = ip[p] + 1]
        \/ ip' = [ip EXCEPT ![p] = ip[p] + 1, ![q] = ip[q] + 1]
    BY <1>6, <2>1 DEF HandOver
  <2> QED
    BY <1>6, <2>1, <2>2 DEF Passes
<1>7. CASE ip' = ip
  BY <1>7
<1>8. ASSUME NEW p \in Procs, ip' = [ip EXCEPT ![p] = ip[p] + 1], ip[p] <= Len(Code(p)), Passes(p)
      PROVE  \/ ip'[r] = ip[r]
             \/ ip'[r] = ip[r] + 1 /\ ip[r] <= Len(Code(r)) /\ Passes(r)
  BY <1>8
<1>9. ASSUME NEW p \in Procs, NEW q \in Procs, p # q, ip' = [ip EXCEPT ![p] = ip[p] + 1, ![q] = ip[q] + 1],
             ip[p] <= Len(Code(p)), Passes(p), ip[q] <= Len(Code(q)), Passes(q)
      PROVE  \/ ip'[r] = ip[r]
             \/ ip'[r] = ip[r] + 1 /\ ip[r] <= Len(Code(r)) /\ Passes(r)
  BY <1>9
<1> QED
  BY <1>2, <1>3, <1>4, <1>5, <1>6, <1>7, <1>8, <1>9 DEF Next, Step, Meet

LEMMA PassedType ==
  ASSUME TypeOK, NEW p \in Procs
  PROVE  Passed(p) \subseteq 1 .. Len(Code(p))
<1>1. ip[p] \in Nat /\ Len(Code(p)) \in Nat /\ ip[p] <= Len(Code(p)) + 1
  BY CodeType DEF TypeOK
<1> QED
  BY <1>1 DEF Passed

LEMMA StepPassed ==
  ASSUME TypeOK, AtOperation, Next, NEW p \in Procs
  PROVE  /\ Passed(p) \subseteq Passed(p)'
         /\ \A k \in Passed(p)' : /\ k \in 1 .. Len(Code(p))
                                 /\ \/ k \in Passed(p)
                                    \/ k = ip[p] /\ ip'[p] = ip[p] + 1 /\ Passes(p)
         /\ ip'[p] = ip[p] + 1 => ip'[p] # ip[p]
<1>1. /\ ip[p] \in Nat \ {0} /\ Len(Code(p)) \in Nat /\ ip[p] <= Len(Code(p)) + 1
      /\ \/ ip'[p] = ip[p]
         \/ ip'[p] = ip[p] + 1 /\ ip[p] <= Len(Code(p)) /\ Passes(p)
  BY StepMoves, CodeType DEF TypeOK
<1> QED
  BY <1>1 DEF Passed

\* Which action it is that takes p past its operation.
LEMMA PassesBy ==
  ASSUME TypeOK, AtOperation, NEW p \in Procs, Passes(p)
  PROVE  /\ Op(p).op = "spawn" => DoSpawn(p)
         /\ Op(p).op = "add" => DoAdd(p)
         /\ Op(p).op = "done" => DoDone(p)
         /\ Op(p).op = "wait" => DoWait(p)
         /\ Op(p).op = "increment" => AssignShared(p)
         /\ Op(p).op \in SendOps =>
               \E c \in Chans : \/ SendBuffered(p, c) \/ SendClosed(p, c)
                                \/ \E q \in Procs : HandOver(p, q, c)
         /\ Op(p).op \in RecvOps =>
               \E c \in Chans : \/ RecvBuffered(p, c) \/ RecvClosed(p, c)
                                \/ \E q \in Procs : HandOver(q, p, c)
<1> USE DEF SendOps, RecvOps
<1>1. DoSpawn(p) => Op(p).op = "spawn"
  BY DEF DoSpawn, At
<1>2. DoAdd(p) => Op(p).op = "add"
  BY DEF DoAdd, At
<1>3. DoDone(p) => Op(p).op = "done"
  BY DEF DoDone, At
<1>4. DoWait(p) => Op(p).op = "wait"
  BY DEF DoWait, At
<1>5. AssignShared(p) => Op(p).op = "increment"
  BY DEF AssignShared, At
<1>6. DoClose(p) => Op(p).op = "close"
  BY DEF DoClose, At
<1>7. ASSUME NEW c \in Chans, NEW q \in Procs, SendBuffered(p, c) \/ SendClosed(p, c) \/ HandOver(p, q, c)
      PROVE  Op(p).op \in SendOps
  BY <1>7 DEF SendBuffered, SendClosed, HandOver, Sending, AtOperation
<1>8. ASSUME NEW c \in Chans, NEW q \in Procs, RecvBuffered(p, c) \/ RecvClosed(p, c) \/ HandOver(q, p, c)
      PROVE  Op(p).op \in RecvOps
  BY <1>8 DEF RecvBuffered, RecvClosed, HandOver, Receiving, AtOperation
<1> QED
  BY <1>1, <1>2, <1>3, <1>4, <1>5, <1>6, <1>7, <1>8 DEF Passes

-----------------------------------------------------------------------------
(* Channels *)

LEMMA ElementsAppend ==
  ASSUME NEW seq \in Seq(Values), NEW v \in Values
  PROVE  Elements(Append(seq, v)) = Elements(seq) \cup {v}
<1>1. /\ Len(seq) \in Nat /\ DOMAIN seq = 1 .. Len(seq)
      /\ DOMAIN Append(seq, v) = 1 .. Len(seq) + 1
      /\ \A i \in 1 .. Len(seq) : Append(seq, v)[i] = seq[i]
      /\ Append(seq, v)[Len(seq) + 1] = v
  BY LenProperties, AppendProperties
<1>2. Elements(Append(seq, v)) \subseteq Elements(seq) \cup {v}
  BY <1>1 DEF Elements
<1>3. Elements(seq) \subseteq Elements(Append(seq, v))
  BY <1>1 DEF Elements
<1>4. v \in Elements(Append(seq, v))
  BY <1>1 DEF Elements
<1> QED
  BY <1>2, <1>3, <1>4

\* What channels only ever do: accept more until they are closed, and stay closed.
LEMMA ChannelsGrow ==
  ASSUME TypeOK, AtOperation, Next
  PROVE  /\ lost \subseteq lost'
         /\ \A c \in Chans : /\ closed[c] => closed'[c] /\ accepted'[c] = accepted[c]
                             /\ Elements(accepted[c]) \subseteq Elements(accepted'[c])
                             /\ \A p \in Procs : received'[p][c] = <<>> => received[p][c] = <<>>
<1> DEFINE Grown ==
             /\ lost \subseteq lost'
             /\ \A c \in Chans : /\ closed[c] => closed'[c] /\ accepted'[c] = accepted[c]
                                 /\ Elements(accepted[c]) \subseteq Elements(accepted'[c])
                                 /\ \A p \in Procs : received'[p][c] = <<>> => received[p][c] = <<>>
<1> SUFFICES Grown
  OBVIOUS
<1>1. ASSUME UNCHANGED <<received, accepted>>, lost \subseteq lost', \A c \in Chans : closed[c] => closed'[c]
      PROVE  Grown
  BY <1>1
<1>2. ASSUME NEW p \in Procs,
             \/ DoSpawn(p) \/ End(p) \/ BeginSend(p) \/ BeginRecv(p) \/ DoClose(p)
             \/ DoAdd(p) \/ DoDone(p) \/ CountPanics(p) \/ DoWait(p)
             \/ WaitBlocks(p) \/ WaitPanics(p) \/ ReadShared(p) \/ AssignShared(p)
             \/ \E c \in Chans : SendClosed(p, c) \/ RecvClosed(p, c)
      PROVE  Grown
  <2>1. UNCHANGED <<received, accepted>> /\ lost \subseteq lost' /\ \A c \in Chans : closed[c] => closed'[c]
    BY <1>2 DEF TypeOK, DoSpawn, End, BeginSend, BeginRecv, DoClose, DoAdd, DoDone, CountPanics,
                WaitBlocks, WaitPanics, DoWait,
                ReadShared, AssignShared, SendClosed, RecvClosed, chanVars
  <2> QED
    BY <1>1, <2>1
<1>3. ASSUME NEW p \in Procs, NEW c \in Chans, ip[p] <= Len(Code(p)), ~closed[c],
             accepted' = [accepted EXCEPT ![c] = Append(accepted[c], Value(p))]
      PROVE  \A d \in Chans : /\ closed[d] => accepted'[d] = accepted[d]
                              /\ Elements(accepted[d]) \subseteq Elements(accepted'[d])
  <2>1. Value(p) \in Values /\ accepted[c] \in Seq(Values)
    BY <1>3, OpType DEF TypeOK
  <2>2. Elements(accepted[c]) \subseteq Elements(Append(accepted[c], Value(p)))
    BY <2>1, ElementsAppend
  <2> QED
    BY <1>3, <2>2 DEF TypeOK
<1>4. ASSUME NEW q \in Procs, NEW c \in Chans, NEW v \in Values, Receive(q, c, v)
      PROVE  \A p \in Procs, d \in Chans : received'[p][d] = <<>> => received[p][d] = <<>>
  <2>1. received[q][c] \in Seq(Values)
    BY DEF TypeOK
  <2>2. Append(received[q][c], v) # <<>>
    BY <2>1, AppendProperties
  <2> QED
    BY <1>4, <2>2 DEF Receive, TypeOK
<1>5. ASSUME NEW p \in Procs, NEW c \in Chans, SendBuffered(p, c) PROVE Grown
  <2>1. ip[p] <= Len(Code(p))
    BY <1>5 DEF SendBuffered, Sending, AtOperation
  <2> QED
    BY <1>3, <1>5, <2>1 DEF SendBuffered
<1>6. ASSUME NEW p \in Procs, NEW c \in Chans, RecvBuffered(p, c) PROVE Grown
  <2>1. Head(buffer[c]) \in Values
    BY <1>6, HeadTailProperties DEF RecvBuffered, TypeOK
  <2> QED
    BY <1>4, <1>6, <2>1 DEF RecvBuffered
<1>7. ASSUME NEW p \in Procs, NEW q \in Procs, NEW c \in Chans, HandOver(p, q, c) PROVE Grown
  <2>1. ip[p] <= Len(Code(p))
    BY <1>7 DEF HandOver, Sending, AtOperation
  <2>2. Value(p) \in Values
    BY <2>1, OpType
  <2> QED
    BY <1>3, <1>4, <1>7, <2>1, <2>2 DEF HandOver
<1> QED
  BY <1>2, <1>5, <1>6, <1>7 DEF Next, Step, Meet

LEMMA StepSendsAccepted ==
  ASSUME TypeOK, AtOperation, SendsAccepted, Next
  PROVE  SendsAccepted'
<1> SUFFICES ASSUME NEW p \in Procs, NEW k \in Passed(p)', Code(p)[k].op = "send", NEW c, c = Code(p)[k].chan
             PROVE  \/ <<p, k>> \in Elements(accepted'[c])
                    \/ closed'[c] /\ <<p, k>> \in lost'
  BY StepMoves DEF SendsAccepted
<1>1. k \in Passed(p) \/ (k = ip[p] /\ ip'[p] = ip[p] + 1 /\ Passes(p))
  BY StepPassed
<1>2. k \in 1 .. Len(Code(p)) /\ c \in Chans
  <2>1. k \in 1 .. Len(Code(p))
    BY StepPassed
  <2> QED
    BY <2>1, CodeType, OperationType DEF TypeOK, SendOps
<1>3. CASE k \in Passed(p)
  BY <1>2, <1>3, ChannelsGrow DEF SendsAccepted
<1>4. CASE k = ip[p] /\ ip'[p] = ip[p] + 1 /\ Passes(p)
  <2>1. Op(p) = Code(p)[k] /\ Value(p) = <<p, k>>
    BY <1>4 DEF Op, Value
  <2>2. PICK d \in Chans : \/ SendBuffered(p, d) \/ SendClosed(p, d)
                           \/ \E q \in Procs : HandOver(p, q, d)
    BY <1>4, <2>1, PassesBy DEF SendOps
  <2>3. d = c
    BY <2>1, <2>2 DEF SendBuffered, SendClosed, HandOver, Sending
  <2>4. CASE SendClosed(p, d)
    BY <2>1, <2>3, <2>4 DEF SendClosed
  <2>5. CASE SendBuffered(p, d) \/ \E q \in Procs : HandOver(p, q, d)
    <3>1. accepted'[c] = Append(accepted[c], <<p, k>>)
      <4>1. accepted' = [accepted EXCEPT ![c] = Append(accepted[c], Value(p))]
        BY <2>3, <2>5 DEF SendBuffered, HandOver
      <4> QED
        BY <1>2, <2>1, <4>1 DEF TypeOK
    <3>2. accepted[c] \in Seq(Values)
      BY <1>2 DEF TypeOK
    <3>3. <<p, k>> \in Values
      BY <1>2 DEF Values
    <3> QED
      BY <3>1, <3>2, <3>3, ElementsAppend
  <2> QED
    BY <2>2, <2>4, <2>5
<1> QED
  BY <1>1, <1>3, <1>4

-----------------------------------------------------------------------------
(* A loop on recv *)

\* p is alone to have received from c.
Alone(p, c) == \A q \in Procs \ {p} : received[q][c] = <<>>

\* What c accepted is what its only receiver has, and what it still holds.
Conserved == \A p \in Procs, c \in Chans : Alone(p, c) => accepted[c] = received[p][c] \o buffer[c]

\* The inductive form of LoopDrains: the channel of a loop that has ended is closed and empty.
LoopsDrained ==
    \A p \in Procs, c \in Chans : \A k \in Passed(p) :
        (/\ Code(p)[k].op = "recv until null" /\ Code(p)[k].chan = c
         /\ Null \notin Elements(accepted[c])
         /\ Alone(p, c))
        => closed[c] /\ buffer[c] = <<>>

LEMMA ConcatAppend ==
  ASSUME NEW r \in Seq(Values), NEW b \in Seq(Values), NEW v \in Values
  PROVE  Append(r \o b, v) = r \o Append(b, v)
<1>1. r \o b \in Seq(Values) /\ <<v>> \in Seq(Values)
  BY ConcatProperties
<1>2. Append(r \o b, v) = (r \o b) \o <<v>> /\ Append(b, v) = b \o <<v>>
  BY <1>1, AppendIsConcat
<1> QED
  BY <1>1, <1>2, ConcatAssociative

LEMMA ConcatHeadTail ==
  ASSUME NEW S, NEW r \in Seq(S), NEW b \in Seq(S), b # <<>>
  PROVE  r \o b = Append(r, Head(b)) \o Tail(b)
<1>1. <<Head(b)>> \in Seq(S) /\ Tail(b) \in Seq(S) /\ Head(b) \in S
  BY HeadTailProperties
<1>2. b = <<Head(b)>> \o Tail(b)
  OBVIOUS
<1>3. Append(r, Head(b)) = r \o <<Head(b)>>
  BY <1>1, AppendIsConcat
<1> QED
  BY <1>1, <1>2, <1>3, ConcatAssociative

LEMMA ElementsOfPart ==
  ASSUME NEW r \in Seq(Values), NEW b \in Seq(Values)
  PROVE  Elements(r) \subseteq Elements(r \o b)
BY ConcatProperties, LenProperties DEF Elements

LEMMA LoopDrainsHolds == TypeOK /\ Conserved /\ LoopsDrained => LoopDrains
<1> SUFFICES ASSUME TypeOK, Conserved, LoopsDrained,
                    NEW p \in Procs, NEW k \in Passed(p), Code(p)[k].op = "recv until null",
                    Null \notin Elements(accepted[Code(p)[k].chan]), Alone(p, Code(p)[k].chan)
             PROVE  closed[Code(p)[k].chan] /\ received[p][Code(p)[k].chan] = accepted[Code(p)[k].chan]
  BY DEF LoopDrains, Alone
<1> DEFINE c == Code(p)[k].chan
<1>1. c \in Chans
  <2>1. k \in 1 .. Len(Code(p))
    BY PassedType
  <2> QED
    BY <2>1, CodeType, OperationType DEF TypeOK, RecvOps
<1>2. closed[c] /\ buffer[c] = <<>>
  BY <1>1 DEF LoopsDrained
<1>3. received[p][c] \in Seq(Values)
  BY <1>1 DEF TypeOK
<1>4. received[p][c] \o <<>> = received[p][c]
  BY <1>3, ConcatEmptySeq
<1> QED
  BY <1>1, <1>2, <1>4 DEF Conserved

LEMMA StepConserved ==
  ASSUME TypeOK, AtOperation, Conserved, Next
  PROVE  Conserved'
<1> SUFFICES ASSUME NEW p \in Procs, NEW c \in Chans, Alone(p, c)'
             PROVE  accepted'[c] = received'[p][c] \o buffer'[c]
  BY DEF Conserved
<1>1. accepted[c] = received[p][c] \o buffer[c]
  BY ChannelsGrow DEF Conserved, Alone
<1>2. /\ accepted[c] \in Seq(Values) /\ buffer[c] \in Seq(Values)
      /\ \A q \in Procs : received[q][c] \in Seq(Values)
  BY DEF TypeOK
<1>3. ASSUME UNCHANGED <<accepted[c], received[p][c], buffer[c]>> PROVE accepted'[c] = received'[p][c] \o buffer'[c]
  BY <1>1, <1>3
<1>4. ASSUME NEW s \in Procs,
             \/ DoSpawn(s) \/ End(s) \/ BeginSend(s) \/ BeginRecv(s) \/ DoClose(s)
             \/ DoAdd(s) \/ DoDone(s) \/ CountPanics(s)
             \/ WaitBlocks(s) \/ WaitPanics(s) \/ DoWait(s) \/ ReadShared(s) \/ AssignShared(s)
             \/ \E d \in Chans : SendClosed(s, d) \/ RecvClosed(s, d)
      PROVE  UNCHANGED <<accepted, received, buffer>>
  BY <1>4 DEF DoSpawn, End, BeginSend, BeginRecv, DoClose, DoAdd, DoDone, CountPanics, WaitBlocks,
              WaitPanics, DoWait,
              ReadShared, AssignShared, SendClosed, RecvClosed, chanVars
<1>5. ASSUME NEW s \in Procs, NEW d \in Chans, SendBuffered(s, d)
      PROVE  accepted'[c] = received'[p][c] \o buffer'[c]
  <2>1. Value(s) \in Values
    BY <1>5, OpType DEF SendBuffered, Sending, AtOperation
  <2>2. CASE d = c
    <3>1. received' = received
      BY <1>5 DEF SendBuffered
    <3>2. accepted'[c] = Append(accepted[c], Value(s))
      BY <1>5, <2>2 DEF SendBuffered, TypeOK
    <3>3. buffer'[c] = Append(buffer[c], Value(s))
      BY <1>5, <2>2 DEF SendBuffered, TypeOK
    <3>4. Append(received[p][c] \o buffer[c], Value(s)) = received[p][c] \o Append(buffer[c], Value(s))
      <4>1. received[p][c] \in Seq(Values) /\ buffer[c] \in Seq(Values)
        BY <1>2
      <4> QED
        BY <2>1, <4>1, ConcatAppend
    <3> QED
      BY <1>1, <3>1, <3>2, <3>3, <3>4
  <2>3. CASE d # c
    BY <1>3, <1>5, <2>3 DEF SendBuffered, TypeOK
  <2> QED
    BY <2>2, <2>3
<1>6. ASSUME NEW q \in Procs, NEW d \in Chans, NEW v \in Values, Receive(q, d, v), d = c
      PROVE  q = p /\ received'[p][c] = Append(received[p][c], v)
  <2>1. received'[q][c] = Append(received[q][c], v)
    BY <1>6 DEF Receive, TypeOK
  <2>2. Append(received[q][c], v) # <<>>
    BY <1>2, AppendProperties
  <2>3. q = p
    BY <2>1, <2>2 DEF Alone
  <2> QED
    BY <2>1, <2>3
<1>7. ASSUME NEW q \in Procs, NEW d \in Chans, NEW v, Receive(q, d, v), d # c
      PROVE  received'[p][c] = received[p][c]
  BY <1>7 DEF Receive, TypeOK
<1>8. ASSUME NEW q \in Procs, NEW d \in Chans, RecvBuffered(q, d)
      PROVE  accepted'[c] = received'[p][c] \o buffer'[c]
  <2>1. Head(buffer[d]) \in Values
    BY <1>8, HeadTailProperties DEF RecvBuffered, TypeOK
  <2>2. CASE d = c
    <3>1. received'[p][c] = Append(received[p][c], Head(buffer[c]))
      BY <1>6, <1>8, <2>1, <2>2 DEF RecvBuffered
    <3>2. buffer'[c] = Tail(buffer[c]) /\ buffer[c] # <<>> /\ accepted' = accepted
      BY <1>8, <2>2 DEF RecvBuffered, TypeOK
    <3> QED
      BY <1>1, <1>2, <3>1, <3>2, ConcatHeadTail
  <2>3. CASE d # c
    <3>1. received'[p][c] = received[p][c]
      BY <1>7, <1>8, <2>3 DEF RecvBuffered
    <3>2. buffer'[c] = buffer[c] /\ accepted' = accepted
      BY <1>8, <2>3 DEF RecvBuffered, TypeOK
    <3> QED
      BY <1>3, <3>1, <3>2
  <2> QED
    BY <2>2, <2>3
<1>9. ASSUME NEW s \in Procs, NEW q \in Procs, NEW d \in Chans, HandOver(s, q, d)
      PROVE  accepted'[c] = received'[p][c] \o buffer'[c]
  <2>1. Value(s) \in Values
    BY <1>9, OpType DEF HandOver, Sending, AtOperation
  <2>2. CASE d = c
    <3>1. received'[p][c] = Append(received[p][c], Value(s))
      BY <1>6, <1>9, <2>1, <2>2 DEF HandOver
    <3>2. buffer' = buffer /\ accepted'[c] = Append(accepted[c], Value(s))
      BY <1>9, <2>2 DEF HandOver, TypeOK
    <3>3. buffer[c] = <<>>
      <4>1. Len(buffer[c]) <= program.capacity[c] /\ program.capacity[c] = 0
        BY <1>9, <2>2 DEF HandOver, TypeOK
      <4> QED
        BY <1>2, <4>1, LenProperties, EmptySeq
    <3>4. Append(received[p][c], Value(s)) \in Seq(Values)
      BY <1>2, <2>1, AppendProperties
    <3> QED
      BY <1>1, <1>2, <3>1, <3>2, <3>3, <3>4, ConcatEmptySeq
  <2>3. CASE d # c
    <3>1. received'[p][c] = received[p][c]
      BY <1>7, <1>9, <2>3 DEF HandOver
    <3>2. buffer' = buffer /\ accepted'[c] = accepted[c]
      BY <1>9, <2>3 DEF HandOver, TypeOK
    <3> QED
      BY <1>3, <3>1, <3>2
  <2> QED
    BY <2>2, <2>3
<1> QED
  BY <1>3, <1>4, <1>5, <1>8, <1>9 DEF Next, Step, Meet

LEMMA ClosedStaysEmpty ==
  ASSUME TypeOK, AtOperation, Next, NEW c \in Chans, closed[c], buffer[c] = <<>>
  PROVE  closed'[c] /\ buffer'[c] = <<>>
<1>1. closed'[c]
  BY ChannelsGrow
<1>2. ASSUME NEW s \in Procs,
             \/ DoSpawn(s) \/ End(s) \/ BeginSend(s) \/ BeginRecv(s) \/ DoClose(s)
             \/ DoAdd(s) \/ DoDone(s) \/ CountPanics(s)
             \/ WaitBlocks(s) \/ WaitPanics(s) \/ DoWait(s) \/ ReadShared(s) \/ AssignShared(s)
             \/ \E d \in Chans : SendClosed(s, d) \/ RecvClosed(s, d) \/ \E q \in Procs : HandOver(s, q, d)
      PROVE  buffer' = buffer
  BY <1>2 DEF DoSpawn, End, BeginSend, BeginRecv, DoClose, DoAdd, DoDone, CountPanics, WaitBlocks,
              WaitPanics, DoWait,
              ReadShared, AssignShared, SendClosed, RecvClosed, HandOver, chanVars
<1>3. ASSUME NEW s \in Procs, NEW d \in Chans, SendBuffered(s, d) PROVE buffer'[c] = buffer[c]
  <2>1. d # c
    BY <1>3 DEF SendBuffered
  <2> QED
    BY <1>3, <2>1 DEF SendBuffered, TypeOK
<1>4. ASSUME NEW s \in Procs, NEW d \in Chans, RecvBuffered(s, d) PROVE buffer'[c] = buffer[c]
  <2>1. d # c
    BY <1>4 DEF RecvBuffered
  <2> QED
    BY <1>4, <2>1 DEF RecvBuffered, TypeOK
<1> QED
  BY <1>1, <1>2, <1>3, <1>4 DEF Next, Step, Meet

LEMMA StepLoopsDrained ==
  ASSUME TypeOK, AtOperation, Conserved, LoopsDrained, Next
  PROVE  LoopsDrained'
<1> SUFFICES ASSUME NEW p \in Procs, NEW c \in Chans, NEW k \in Passed(p)',
                    Code(p)[k].op = "recv until null", Code(p)[k].chan = c,
                    Null \notin Elements(accepted'[c]), Alone(p, c)'
             PROVE  closed'[c] /\ buffer'[c] = <<>>
  BY StepMoves DEF LoopsDrained
<1>1. TypeOK' /\ Conserved'
  BY StepTypes, StepConserved
<1>2. k \in Passed(p) \/ (k = ip[p] /\ ip'[p] = ip[p] + 1 /\ Passes(p))
  BY StepPassed
<1>4. Null \notin Elements(accepted[c]) /\ Alone(p, c)
  BY ChannelsGrow DEF Alone
<1>5. CASE k \in Passed(p)
  <2>1. closed[c] /\ buffer[c] = <<>>
    BY <1>4, <1>5 DEF LoopsDrained
  <2> QED
    BY <2>1, ClosedStaysEmpty
<1>6. CASE k = ip[p] /\ ip'[p] = ip[p] + 1 /\ Passes(p)
  <2>1. Op(p) = Code(p)[k]
    BY <1>6 DEF Op
  <2>2. PICK d \in Chans : \/ RecvBuffered(p, d) \/ RecvClosed(p, d)
                           \/ \E q \in Procs : HandOver(q, p, d)
    BY <1>6, <2>1, PassesBy DEF RecvOps
  <2>3. d = c
    BY <2>1, <2>2 DEF RecvBuffered, RecvClosed, HandOver, Receiving
  <2>4. CASE RecvClosed(p, d)
    BY <2>3, <2>4, ClosedStaysEmpty DEF RecvClosed
  <2>5. CASE RecvBuffered(p, d)
    <3>1. Head(buffer[c]) = Null
      <4>1. ip' # ip
        BY <1>6, StepPassed
      <4> QED
        BY <1>6, <2>1, <2>3, <2>5, <4>1 DEF RecvBuffered, Return
    <3>2. received'[p][c] = Append(received[p][c], Null)
      BY <2>3, <2>5, <3>1 DEF RecvBuffered, Receive, TypeOK
    <3>3. received[p][c] \in Seq(Values) /\ Null \in Values
      BY DEF TypeOK, Values
    <3>4. Null \in Elements(received'[p][c])
      <4>1. Elements(Append(received[p][c], Null)) = Elements(received[p][c]) \cup {Null}
        BY <3>3, ElementsAppend
      <4> QED
        BY <3>2, <4>1
    <3>5. received'[p][c] \in Seq(Values) /\ buffer'[c] \in Seq(Values)
      BY <1>1 DEF TypeOK
    <3>6. accepted'[c] = received'[p][c] \o buffer'[c]
      BY <1>1 DEF Conserved
    <3> QED
      BY <3>4, <3>5, <3>6, ElementsOfPart
  <2>6. ASSUME NEW q \in Procs, HandOver(q, p, d) PROVE FALSE
    <3>1. p # q
      BY <2>6 DEF HandOver, Sending, Receiving
    <3>2. Value(q) = Null
      <4>1. Op(p).op = "recv until null" /\ Value(q) # Null => ip' = [ip EXCEPT ![q] = ip[q] + 1, ![p] = ip[p]]
        BY <2>6, <3>1 DEF HandOver, TypeOK
      <4>2. ip'[p] # ip[p] /\ [ip EXCEPT ![q] = ip[q] + 1, ![p] = ip[p]][p] = ip[p]
        BY <1>6, <3>1, StepPassed DEF TypeOK
      <4> QED
        BY <2>1, <4>1, <4>2
    <3>3. accepted'[c] = Append(accepted[c], Null)
      BY <2>3, <2>6, <3>2 DEF HandOver, TypeOK
    <3>4. accepted[c] \in Seq(Values) /\ Null \in Values
      BY DEF TypeOK, Values
    <3>5. Elements(Append(accepted[c], Null)) = Elements(accepted[c]) \cup {Null}
      BY <3>4, ElementsAppend
    <3> QED
      BY <3>3, <3>5
  <2> QED
    BY <2>2, <2>4, <2>5, <2>6
<1> QED
  BY <1>2, <1>5, <1>6

-----------------------------------------------------------------------------
(* The wait group *)

\* A goroutine other than the top level runs because a spawn of it has run.
Born ==
    \A q \in Procs \ {Main} :
        \/ state[q] = "unborn" /\ ip[q] = 1
        \/ \E p \in Procs : \E k \in Passed(p) : Code(p)[k] = Spawn(q)

HasDone    == { q \in Procs : \E j \in Passed(q) : Code(q)[j].op = "done" }
AddsPassed == { k \in Passed(Main) : Code(Main)[k].op = "add" }

\* The counter is what the top level has added and no goroutine has taken off.
Counted == Balanced => counter + Cardinality(HasDone) = Cardinality(AddsPassed)

LEMMA StepBorn ==
  ASSUME TypeOK, AtOperation, Born, Next
  PROVE  Born'
<1> SUFFICES ASSUME NEW q \in Procs \ {Main}
             PROVE  \/ state'[q] = "unborn" /\ ip'[q] = 1
                    \/ \E p \in Procs : \E k \in Passed(p)' : Code(p)[k] = Spawn(q)
  BY StepMoves DEF Born, Spawn
<1>1. CASE \E p \in Procs : \E k \in Passed(p) : Code(p)[k] = Spawn(q)
  BY <1>1, StepPassed
<1>2. CASE state[q] = "unborn" /\ ip[q] = 1
  <2>1. ASSUME NEW p \in Procs, DoSpawn(p), Op(p).proc = q
        PROVE  \E k \in Passed(p)' : Code(p)[k] = Spawn(q)
    <3>1. Op(p) = Spawn(q)
      BY <2>1, OpType DEF DoSpawn, At
    <3>2. ip'[p] = ip[p] + 1 /\ ip[p] \in Nat \ {0}
      BY <2>1 DEF DoSpawn, TypeOK
    <3>3. ip[p] \in Passed(p)'
      BY <3>2 DEF Passed
    <3> QED
      BY <3>1, <3>3 DEF Op
  <2>2. ASSUME NEW p \in Procs, DoSpawn(p), Op(p).proc # q
        PROVE  state'[q] = "unborn" /\ ip'[q] = 1
    BY <1>2, <2>2 DEF DoSpawn, At, TypeOK
  <2>3. ASSUME NEW p \in Procs,
               \/ End(p) \/ BeginSend(p) \/ BeginRecv(p) \/ DoClose(p) \/ DoAdd(p) \/ DoDone(p)
               \/ CountPanics(p) \/ DoWait(p) \/ WaitBlocks(p) \/ WaitPanics(p) \/ ReadShared(p) \/ AssignShared(p)
        PROVE  state'[q] = "unborn" /\ ip'[q] = 1
    <3>1. p # q
      BY <1>2, <2>3 DEF End, BeginSend, BeginRecv, DoClose, DoAdd, DoDone, CountPanics, WaitBlocks,
                        WaitPanics, DoWait, ReadShared,
                        AssignShared, At
    <3> QED
      BY <1>2, <2>3, <3>1 DEF End, BeginSend, BeginRecv, DoClose, DoAdd, DoDone, Counts, CountPanics,
                              WaitBlocks, WaitPanics, DoWait, ReadShared,
                              AssignShared, Advance, Enter, TypeOK
  <2>4. ASSUME NEW p \in Procs, NEW c \in Chans,
               SendBuffered(p, c) \/ SendClosed(p, c) \/ RecvBuffered(p, c) \/ RecvClosed(p, c)
        PROVE  state'[q] = "unborn" /\ ip'[q] = 1
    <3>1. p # q
      BY <1>2, <2>4 DEF SendBuffered, SendClosed, RecvBuffered, RecvClosed, Sending, Receiving
    <3> QED
      BY <1>2, <2>4, <3>1 DEF SendBuffered, SendClosed, RecvBuffered, RecvClosed, Return, Advance, TypeOK
  <2>5. ASSUME NEW p \in Procs, NEW r \in Procs, NEW c \in Chans, HandOver(p, r, c)
        PROVE  state'[q] = "unborn" /\ ip'[q] = 1
    <3>1. p # q /\ r # q
      BY <1>2, <2>5 DEF HandOver, Sending, Receiving
    <3> QED
      BY <1>2, <2>5, <3>1 DEF HandOver, TypeOK
  <2> QED
    BY <2>1, <2>2, <2>3, <2>4, <2>5 DEF Next, Step, Meet
<1> QED
  BY <1>1, <1>2 DEF Born

LEMMA CountZero ==
  ASSUME TypeOK, NEW p \in Procs, NEW op, Count(p, op) = 0
  PROVE  \A k \in 1 .. Len(Code(p)) : Code(p)[k].op # op
<1> DEFINE K == { k \in 1 .. Len(Code(p)) : Code(p)[k].op = op }
<1>1. Len(Code(p)) \in Int /\ 1 \in Int
  BY CodeType DEF TypeOK
<1>2. IsFiniteSet(1 .. Len(Code(p)))
  BY <1>1, FS_Interval
<1>3. IsFiniteSet(K)
  BY <1>2, FS_Subset
<1>4. K = {}
  BY <1>3, FS_EmptySet DEF Count
<1> QED
  BY <1>4

LEMMA CountOnce ==
  ASSUME TypeOK, NEW p \in Procs, NEW op, Count(p, op) <= 1,
         NEW j \in 1 .. Len(Code(p)), NEW k \in 1 .. Len(Code(p)), Code(p)[j].op = op, Code(p)[k].op = op
  PROVE  j = k
<1> DEFINE K == { i \in 1 .. Len(Code(p)) : Code(p)[i].op = op }
<1>1. Len(Code(p)) \in Int /\ 1 \in Int
  BY CodeType DEF TypeOK
<1>2. IsFiniteSet(1 .. Len(Code(p)))
  BY <1>1, FS_Interval
<1>3. IsFiniteSet(K)
  BY <1>2, FS_Subset
<1>4. {j} \cup {k} \in SUBSET K
  OBVIOUS
<1>5. Cardinality({j} \cup {k}) <= Cardinality(K) /\ Cardinality(K) <= 1
  BY <1>3, <1>4, FS_Subset DEF Count
<1>6. IsFiniteSet({j}) /\ Cardinality({j}) = 1
  BY FS_Singleton
<1>7. Cardinality({j} \cup {k}) = IF k \in {j} THEN 1 ELSE 1 + 1
  BY <1>6, FS_AddElement, Zenon
<1>8. Cardinality(K) \in Nat
  BY <1>3, FS_CardinalityType
<1>9. ASSUME j # k
      PROVE  FALSE
  <2> DEFINE both == Cardinality({j} \cup {k})
             all  == Cardinality(K)
  <2>1. both = 1 + 1
    BY <1>7, <1>9
  <2>2. both <= all /\ all <= 1 /\ all \in Nat
    BY <1>5, <1>8
  <2> HIDE DEF both, all
  <2> QED
    BY <2>1, <2>2
<1> QED
  BY <1>9

\* What Balanced says of the operations: who adds, who is done, and once.
LEMMA BalancedOps ==
  ASSUME TypeOK, Balanced
  PROVE  /\ \A p \in Procs : \A k \in 1 .. Len(Code(p)) :
               /\ Code(p)[k].op = "add" => p = Main
               /\ Code(p)[k].op = "done" =>
                     /\ p # Main
                     /\ \A j \in 1 .. Len(Code(p)) : Code(p)[j].op = "done" => j = k
                     /\ p \in Announced(Main, Len(Code(Main)))
<1> SUFFICES ASSUME NEW p \in Procs, NEW k \in 1 .. Len(Code(p))
             PROVE  /\ Code(p)[k].op = "add" => p = Main
                    /\ Code(p)[k].op = "done" =>
                          /\ p # Main
                          /\ \A j \in 1 .. Len(Code(p)) : Code(p)[j].op = "done" => j = k
                          /\ p \in Announced(Main, Len(Code(Main)))
  OBVIOUS
<1>1. Main \in Procs
  BY GoroutinesAssumption
<1>2. Code(p)[k].op = "add" => p = Main
  BY CountZero DEF Balanced
<1>3. ASSUME Code(p)[k].op = "done"
      PROVE  /\ p # Main
             /\ \A j \in 1 .. Len(Code(p)) : Code(p)[j].op = "done" => j = k
             /\ p \in Announced(Main, Len(Code(Main)))
  <2>1. p # Main
    BY <1>1, <1>3, CountZero DEF Balanced
  <2>2. Count(p, "done") <= 1 /\ Count(p, "done") # 0
    BY <1>3, <2>1, CountZero DEF Balanced
  <2>3. \A j \in 1 .. Len(Code(p)) : Code(p)[j].op = "done" => j = k
    BY <1>3, <2>2, CountOnce
  <2>4. Count(p, "done") \in Nat
    <3>1. Len(Code(p)) \in Int /\ 1 \in Int
      BY CodeType DEF TypeOK
    <3>2. IsFiniteSet(1 .. Len(Code(p)))
      BY <3>1, FS_Interval
    <3>3. IsFiniteSet({ i \in 1 .. Len(Code(p)) : Code(p)[i].op = "done" })
      BY <3>2, FS_Subset
    <3> QED
      BY <3>3, FS_CardinalityType DEF Count
  <2>5. Count(p, "done") = 1
    BY <2>2, <2>4
  <2> QED
    BY <2>1, <2>3, <2>5 DEF Balanced
<1> QED
  BY <1>2, <1>3

LEMMA FiniteBooks ==
  ASSUME TypeOK
  PROVE  /\ IsFiniteSet(HasDone) /\ Cardinality(HasDone) \in Nat
         /\ IsFiniteSet(AddsPassed) /\ Cardinality(AddsPassed) \in Nat
<1>1. IsFiniteSet(HasDone)
  BY GoroutinesAssumption, FS_Subset DEF HasDone
<1>2. ip[Main] - 1 \in Int /\ 1 \in Int
  BY GoroutinesAssumption DEF TypeOK
<1>3. IsFiniteSet(1 .. ip[Main] - 1)
  BY <1>2, FS_Interval
<1>4. IsFiniteSet(AddsPassed)
  BY <1>3, FS_Subset DEF AddsPassed, Passed
<1> QED
  BY <1>1, <1>4, FS_CardinalityType

LEMMA StepBooks ==
  ASSUME TypeOK, AtOperation, Next
  PROVE  /\ (\A p \in Procs : ~DoDone(p)) => HasDone' = HasDone
         /\ (\A p \in Procs : ~DoAdd(p)) => AddsPassed' = AddsPassed
         /\ HasDone \subseteq HasDone'
<1>0. Main \in Procs
  BY GoroutinesAssumption
<1>1. \A p \in Procs : Code(p)' = Code(p) /\ Passed(p) \subseteq Passed(p)'
  BY StepMoves, StepPassed
<1>2. HasDone \subseteq HasDone'
  BY <1>1 DEF HasDone
<1>3. ASSUME \A p \in Procs : ~DoDone(p),
             NEW q \in Procs, NEW j \in Passed(q)', Code(q)[j].op = "done"
      PROVE  j \in Passed(q)
  BY <1>3, StepPassed, PassesBy DEF Op
<1>4. ASSUME \A p \in Procs : ~DoAdd(p), NEW k \in Passed(Main)', Code(Main)[k].op = "add"
      PROVE  k \in Passed(Main)
  BY <1>0, <1>4, StepPassed, PassesBy DEF Op
<1>5. (\A p \in Procs : ~DoDone(p)) => HasDone' \subseteq HasDone
  BY <1>1, <1>3 DEF HasDone
<1>6. (\A p \in Procs : ~DoAdd(p)) => AddsPassed' = AddsPassed
  BY <1>0, <1>1, <1>4 DEF AddsPassed
<1> QED
  BY <1>2, <1>5, <1>6

LEMMA SameBalanced == TypeOK /\ AtOperation /\ Next => (Balanced' <=> Balanced)
<1> SUFFICES ASSUME TypeOK, AtOperation, Next PROVE Balanced' <=> Balanced
  OBVIOUS
<1>1. Main \in Procs /\ \A p \in Procs : Code(p)' = Code(p)
  BY GoroutinesAssumption, StepMoves
<1>2. \A p \in Procs : Count(p, "add")' = Count(p, "add") /\ Count(p, "done")' = Count(p, "done")
  BY <1>1 DEF Count
<1>3. Announced(Main, Len(Code(Main)))' = Announced(Main, Len(Code(Main)))
  <2>1. Code(Main)' = Code(Main)
    BY <1>1
  <2> QED
    BY <2>1 DEF Announced
<1> QED
  BY <1>1, <1>2, <1>3, Zenon DEF Balanced

LEMMA AnnouncedType ==
  ASSUME TypeOK, NEW p \in Procs, NEW k \in 1 .. Len(Code(p))
  PROVE  Announced(p, k) \subseteq Procs
<1> SUFFICES ASSUME NEW j \in 1 .. k - 1, Code(p)[j + 1].op = "spawn"
             PROVE  Code(p)[j + 1].proc \in Procs
  BY DEF Announced
<1>1. j + 1 \in 1 .. Len(Code(p))
  BY CodeType DEF TypeOK
<1> QED
  BY <1>1, CodeType, OperationType DEF TypeOK

\* A goroutine that is done, or at its done(), was announced and spawned.
LEMMA AnnouncedBefore ==
  ASSUME TypeOK, Balanced, Born, NEW q \in Procs, NEW j \in 1 .. Len(Code(q)), Code(q)[j].op = "done",
         state[q] # "unborn" \/ ip[q] # 1
  PROVE  \E i \in AddsPassed : /\ i + 1 \in Passed(Main) /\ i + 1 \in 1 .. Len(Code(Main))
                              /\ Code(Main)[i + 1] = Spawn(q)
<1>1. /\ Main \in Procs /\ ip[Main] \in Nat \ {0} /\ Len(Code(Main)) \in Nat
      /\ Passed(Main) = 1 .. ip[Main] - 1
  BY GoroutinesAssumption, CodeType DEF TypeOK, Passed
<1>2. q # Main /\ q \in Announced(Main, Len(Code(Main)))
  BY BalancedOps
<1>3. PICK i \in 1 .. Len(Code(Main)) - 1 :
           Code(Main)[i].op = "add" /\ Code(Main)[i + 1].op = "spawn" /\ Code(Main)[i + 1].proc = q
  BY <1>2 DEF Announced
<1>4. i + 1 \in 1 .. Len(Code(Main)) /\ Code(Main)[i + 1] = Spawn(q)
  <2>1. i + 1 \in 1 .. Len(Code(Main))
    BY <1>1, <1>3
  <2> QED
    BY <1>1, <1>3, <2>1, CodeType, OperationType DEF TypeOK
<1>5. PICK p \in Procs : \E k \in Passed(p) : Code(p)[k] = Spawn(q)
  BY <1>2 DEF Born
<1>6. PICK k \in Passed(p) : Code(p)[k] = Spawn(q)
  BY <1>5
<1>7. p = Main /\ k = i + 1
  <2>1. program \in Programs /\ SpawnsOnce(program)
    BY GoroutinesAssumption DEF TypeOK
  <2>2. k \in DOMAIN Code(p) /\ i + 1 \in DOMAIN Code(Main)
    BY <1>1, <1>4, <2>1, CodeType, PassedType
  <2>3. Code(p)[k].op = "spawn" /\ Code(p)[k] = Code(Main)[i + 1]
    BY <1>4, <1>6 DEF Spawn
  <2> QED
    BY <1>1, <2>1, <2>2, <2>3 DEF SpawnsOnce, Code
<1>8. i \in Passed(Main)
  BY <1>1, <1>3, <1>6, <1>7
<1> QED
  BY <1>3, <1>4, <1>6, <1>7, <1>8 DEF AddsPassed

\* No count of a balanced program panics: whoever is done, and one more that is about
\* to be, has been added.
LEMMA NoCountPanics ==
  ASSUME TypeOK, AtOperation, Balanced, Born, Counted, NEW p \in Procs
  PROVE  ~CountPanics(p)
<1> SUFFICES ASSUME CountPanics(p) PROVE FALSE
  OBVIOUS
<1> DEFINE Ends == HasDone \cup (IF Op(p).op = "done" THEN {p} ELSE {})
           J    == { i \in AddsPassed : \E q \in Procs : Code(Main)[i + 1] = Spawn(q) }
           An   == { Code(Main)[i + 1].proc : i \in J }
           f    == [i \in J |-> Code(Main)[i + 1].proc]
<1>1. /\ state[p] = "running" /\ ip[p] \in 1 .. Len(Code(p)) /\ Op(p) = Code(p)[ip[p]]
      /\ \/ Op(p).op = "add" /\ counter + 1 < 0
         \/ Op(p).op = "done" /\ counter + -1 < 0
  BY CodeType DEF CountPanics, At, Op, TypeOK
<1>2. counter + Cardinality(HasDone) = Cardinality(AddsPassed) /\ counter \in Int
  BY DEF Counted, TypeOK
<1>3. ASSUME NEW q \in Ends PROVE q \in An
  <2>1. CASE q \in HasDone
    <3>1. PICK j \in Passed(q) : Code(q)[j].op = "done"
      BY <2>1 DEF HasDone
    <3>2. q \in Procs /\ j \in 1 .. Len(Code(q)) /\ ip[q] # 1
      BY <2>1, <3>1, PassedType DEF HasDone, Passed, TypeOK
    <3>3. PICK i \in AddsPassed : Code(Main)[i + 1] = Spawn(q)
      BY <3>1, <3>2, AnnouncedBefore
    <3> QED
      BY <3>2, <3>3 DEF Spawn
  <2>2. CASE q = p /\ Op(p).op = "done"
    <3>1. PICK i \in AddsPassed : Code(Main)[i + 1] = Spawn(p)
      BY <1>1, <2>2, AnnouncedBefore
    <3> QED
      BY <2>2, <3>1 DEF Spawn
  <2> QED
    BY <2>1, <2>2
<1>4. f \in Surjection(J, An)
  BY DEF Surjection
<1>5. IsFiniteSet(J) /\ Cardinality(J) <= Cardinality(AddsPassed)
  BY FiniteBooks, FS_Subset
<1>6. IsFiniteSet(An) /\ Cardinality(An) <= Cardinality(J)
  BY <1>4, <1>5, FS_Surjection
<1>7. IsFiniteSet(Ends) /\ Cardinality(Ends) <= Cardinality(An)
  BY <1>3, <1>6, FS_Subset
<1>8. /\ Cardinality(Ends) \in Nat /\ Cardinality(An) \in Nat /\ Cardinality(J) \in Nat
      /\ Cardinality(AddsPassed) \in Nat /\ Cardinality(HasDone) \in Nat
  BY <1>5, <1>6, <1>7, FiniteBooks, FS_CardinalityType
<1>9. CASE Op(p).op = "done"
  <2>1. p \notin HasDone
    <3>1. ASSUME NEW j \in Passed(p), Code(p)[j].op = "done" PROVE FALSE
      <4>1. j \in 1 .. Len(Code(p))
        BY PassedType
      <4>2. j = ip[p]
        BY <1>1, <1>9, <3>1, <4>1, BalancedOps
      <4> QED
        BY <1>1, <4>2 DEF Passed
    <3> QED
      BY <3>1 DEF HasDone
  <2>2. Cardinality(Ends) = Cardinality(HasDone) + 1
    BY <1>9, <2>1, FiniteBooks, FS_AddElement
  <2> QED
    BY <1>1, <1>2, <1>5, <1>6, <1>7, <1>8, <1>9, <2>2
<1>10. CASE Op(p).op = "add"
  <2>1. Ends = HasDone
    BY <1>10
  <2> QED
    BY <1>1, <1>2, <1>5, <1>6, <1>7, <1>8, <1>10, <2>1
<1> QED
  BY <1>1, <1>9, <1>10

LEMMA StepCounted ==
  ASSUME TypeOK, AtOperation, Born, Counted, Next
  PROVE  Counted'
<1>1. TypeOK'
  BY StepTypes
<1>2. Main \in Procs /\ \A p \in Procs : Code(p)' = Code(p)
  BY GoroutinesAssumption, StepMoves
<1>3. Balanced' => Balanced
  BY SameBalanced
<1> SUFFICES ASSUME Balanced
             PROVE  counter' + Cardinality(HasDone') = Cardinality(AddsPassed')
  BY <1>3 DEF Counted
<1>4. counter + Cardinality(HasDone) = Cardinality(AddsPassed)
  BY DEF Counted
<1>5. CASE (\A p \in Procs : ~DoDone(p)) /\ (\A p \in Procs : ~DoAdd(p))
  <2>1. counter' = counter
    BY <1>5, NoCountPanics DEF Next, Step, Meet, DoSpawn, End, BeginSend, BeginRecv, DoClose, DoWait,
                               WaitBlocks, WaitPanics, ReadShared,
                AssignShared, SendBuffered, SendClosed, RecvBuffered, RecvClosed, HandOver
  <2> QED
    BY <1>4, <1>5, <2>1, StepBooks
<1>6. ASSUME NEW p \in Procs, DoAdd(p) PROVE counter' + Cardinality(HasDone') = Cardinality(AddsPassed')
  <2>1. ip[p] \in 1 .. Len(Code(p)) /\ Code(p)[ip[p]].op = "add"
    BY <1>6, CodeType DEF DoAdd, At, Op, TypeOK
  <2>2. p = Main
    BY <2>1, BalancedOps
  <2>3. \A q \in Procs : ~DoDone(q)
    <3>1. ip' = [ip EXCEPT ![p] = ip[p] + 1] /\ ip[p] \in Nat
      BY <1>6 DEF DoAdd, Counts, TypeOK
    <3>2. \A q \in Procs : DoDone(q) => counter' = counter + -1
      BY DEF DoDone, Counts
    <3>3. counter' = counter + 1 /\ counter \in Int
      BY <1>6 DEF DoAdd, Counts, TypeOK
    <3> QED
      BY <3>2, <3>3
  <2>4. HasDone' = HasDone
    BY <2>3, StepBooks
  <2>5. AddsPassed' = AddsPassed \cup {ip[Main]} /\ ip[Main] \notin AddsPassed
    <3>1. ip' [Main] = ip[Main] + 1 /\ ip[Main] \in Nat \ {0}
      BY <1>2, <1>6, <2>2 DEF DoAdd, Counts, TypeOK
    <3>2. Passed(Main)' = Passed(Main) \cup {ip[Main]} /\ ip[Main] \notin Passed(Main)
      BY <3>1 DEF Passed
    <3> QED
      BY <1>2, <2>1, <2>2, <3>2 DEF AddsPassed
  <2>6. Cardinality(AddsPassed') = Cardinality(AddsPassed) + 1
    BY <2>5, FiniteBooks, FS_AddElement
  <2> QED
    BY <1>4, <1>6, <2>4, <2>6, FiniteBooks DEF DoAdd, Counts, TypeOK
<1>7. ASSUME NEW p \in Procs, DoDone(p) PROVE counter' + Cardinality(HasDone') = Cardinality(AddsPassed')
  <2>1. ip[p] \in 1 .. Len(Code(p)) /\ Code(p)[ip[p]].op = "done"
    BY <1>7, CodeType DEF DoDone, At, Op, TypeOK
  <2>2. counter' = counter - 1 /\ counter \in Int
    BY <1>7 DEF DoDone, Counts, TypeOK
  <2>3. \A q \in Procs : ~DoAdd(q)
    <3>1. \A q \in Procs : DoAdd(q) => counter' = counter + 1
      BY DEF DoAdd, Counts
    <3> QED
      BY <2>2, <3>1
  <2>4. AddsPassed' = AddsPassed
    BY <2>3, StepBooks
  <2>5. /\ ip' = [ip EXCEPT ![p] = ip[p] + 1]
        /\ ip[p] \in Nat \ {0}
    BY <1>7 DEF DoDone, Counts, TypeOK
  <2>6. Passed(p)' = Passed(p) \cup {ip[p]} /\ ip[p] \notin Passed(p)
    <3>1. ip'[p] = ip[p] + 1
      BY <2>5 DEF TypeOK
    <3> QED
      BY <2>5, <3>1 DEF Passed
  <2>7. p \notin HasDone
    <3>1. ASSUME NEW j \in Passed(p), Code(p)[j].op = "done" PROVE FALSE
      <4>1. j \in 1 .. Len(Code(p))
        BY PassedType
      <4>2. j = ip[p]
        BY <2>1, <3>1, <4>1, BalancedOps
      <4> QED
        BY <2>6, <4>2
    <3> QED
      BY <3>1 DEF HasDone
  <2>8. HasDone' = HasDone \cup {p}
    <3>1. \A q \in Procs \ {p} : Passed(q)' = Passed(q)
      BY <2>5 DEF Passed, TypeOK
    <3> QED
      BY <1>2, <2>1, <2>6, <3>1 DEF HasDone
  <2>9. Cardinality(HasDone') = Cardinality(HasDone) + 1
    BY <2>7, <2>8, FiniteBooks, FS_AddElement
  <2> QED
    BY <1>4, <2>2, <2>4, <2>9, FiniteBooks
<1> QED
  BY <1>5, <1>6, <1>7

\* When the counter is back to zero, every goroutine announced so far is done.
LEMMA Joined ==
  ASSUME TypeOK, Balanced, Born, Counted, counter = 0,
         ip[Main] <= Len(Code(Main)), Op(Main).op = "wait"
  PROVE  Announced(Main, ip[Main]) \subseteq HasDone
<1> DEFINE J  == { i \in 1 .. ip[Main] - 1 : Code(Main)[i].op = "add" /\ Code(Main)[i + 1].op = "spawn" }
           An == Announced(Main, ip[Main])
           f  == [j \in J |-> Code(Main)[j + 1].proc]
<1>1. /\ Main \in Procs /\ ip[Main] \in Nat \ {0} /\ Len(Code(Main)) \in Nat
      /\ Passed(Main) = 1 .. ip[Main] - 1
  BY GoroutinesAssumption, CodeType DEF TypeOK, Passed
<1>2. An = { Code(Main)[j + 1].proc : j \in J }
  BY DEF Announced
<1>3. J \in SUBSET AddsPassed
  BY <1>1 DEF AddsPassed
<1>4. IsFiniteSet(J) /\ Cardinality(J) <= Cardinality(AddsPassed)
  BY <1>3, FiniteBooks, FS_Subset
<1>5. f \in Surjection(J, An)
  BY <1>2 DEF Surjection
<1>6. IsFiniteSet(An) /\ Cardinality(An) <= Cardinality(J)
  BY <1>4, <1>5, FS_Surjection
<1>7. HasDone \in SUBSET An
  <2> SUFFICES ASSUME NEW q \in HasDone PROVE q \in An
    OBVIOUS
  <2>1. PICK j \in Passed(q) : Code(q)[j].op = "done"
    BY DEF HasDone
  <2>2. q \in Procs /\ j \in 1 .. Len(Code(q))
    BY PassedType DEF HasDone
  <2>3. ip[q] # 1
    BY <2>1, <2>2 DEF Passed, TypeOK
  <2>4. PICK i \in AddsPassed : /\ i + 1 \in Passed(Main) /\ i + 1 \in 1 .. Len(Code(Main))
                               /\ Code(Main)[i + 1] = Spawn(q)
    BY <2>1, <2>2, <2>3, AnnouncedBefore
  <2>5. i \in J
    BY <1>1, <2>4 DEF AddsPassed, Spawn
  <2> QED
    BY <1>2, <2>4, <2>5 DEF Spawn
<1>8. Cardinality(HasDone) = Cardinality(AddsPassed)
  BY FiniteBooks DEF Counted
<1>9. Cardinality(HasDone) = Cardinality(An)
  BY <1>4, <1>6, <1>7, <1>8, FiniteBooks, FS_Subset, FS_CardinalityType
<1> QED
  BY <1>6, <1>7, <1>9, FS_Subset

LEMMA StepWaitJoins ==
  ASSUME TypeOK, AtOperation, Born, Counted, WaitJoins, Next
  PROVE  WaitJoins'
<1>1. Main \in Procs /\ \A p \in Procs : Code(p)' = Code(p)
  BY GoroutinesAssumption, StepMoves
<1>2. Balanced' => Balanced
  BY SameBalanced
<1>3. \A p \in Procs : \A k : Announced(p, k)' = Announced(p, k)
  BY <1>1 DEF Announced
<1> SUFFICES ASSUME Balanced, NEW p \in Procs, NEW k \in Passed(p)', Code(p)[k].op = "wait",
                    NEW q \in Announced(p, k)
             PROVE  q \in HasDone'
  BY <1>1, <1>2, <1>3 DEF WaitJoins, HasDone
<1>4. CASE k \in Passed(p)
  <2>1. q \in HasDone
    <3>1. q \in Procs
      BY <1>4, PassedType, AnnouncedType
    <3> QED
      BY <1>4, <3>1 DEF WaitJoins, HasDone
  <2> QED
    BY <2>1, StepBooks
<1>5. CASE k = ip[p] /\ Passes(p)
  <2>1. DoWait(p) /\ Op(p).op = "wait" /\ ip[p] <= Len(Code(p))
    BY <1>5, PassesBy DEF DoWait, At, Op
  <2>2. p = Main
    <3>1. PICK j \in 1 .. k - 1 : Code(p)[j].op = "add"
      BY DEF Announced
    <3>2. j \in 1 .. Len(Code(p))
      BY <1>5, <2>1, <3>1, CodeType DEF TypeOK
    <3> QED
      BY <3>1, <3>2, BalancedOps
  <2>3. q \in HasDone
    BY <1>5, <2>1, <2>2, Joined DEF DoWait
  <2> QED
    BY <2>3, StepBooks
<1> QED
  BY <1>4, <1>5, StepPassed

-----------------------------------------------------------------------------
(* A fork and its join do not panic *)

\* The inductive form of NoPanics: a top level that has been woken finds the counter at zero.
Unbroken ==
    Balanced /\ OnlyMainWaits =>
       /\ \A p \in Procs : state[p] # "panicked"
       /\ state[Main] = "woken" => counter = 0

\* What takes no count and does not panic wakes nobody.
LEMMA Quiet ==
  ASSUME TypeOK, NEW p \in Procs,
         \/ DoSpawn(p) \/ End(p) \/ BeginSend(p) \/ BeginRecv(p) \/ DoClose(p) \/ DoWait(p) \/ WaitBlocks(p)
         \/ ReadShared(p) \/ AssignShared(p)
         \/ \E c \in Chans : SendBuffered(p, c) \/ SendClosed(p, c) \/ RecvBuffered(p, c) \/ RecvClosed(p, c)
         \/ \E q \in Procs, c \in Chans : HandOver(p, q, c)
  PROVE  /\ counter' = counter
         /\ \A q \in Procs : state'[q] \in {"panicked", "woken"} => state'[q] = state[q]
<1> USE DEF TypeOK
<1>1. ASSUME DoSpawn(p) \/ End(p) \/ BeginSend(p) \/ BeginRecv(p) \/ DoClose(p) \/ DoWait(p)
      PROVE  /\ counter' = counter
             /\ \A q \in Procs : state'[q] \in {"panicked", "woken"} => state'[q] = state[q]
  BY <1>1 DEF DoSpawn, End, BeginSend, BeginRecv, DoClose, DoWait, Advance, Enter
<1>2. ASSUME WaitBlocks(p) \/ ReadShared(p) \/ AssignShared(p)
      PROVE  /\ counter' = counter
             /\ \A q \in Procs : state'[q] \in {"panicked", "woken"} => state'[q] = state[q]
  BY <1>2 DEF WaitBlocks, ReadShared, AssignShared, Advance, Enter
<1>3. ASSUME NEW c \in Chans, SendBuffered(p, c) \/ SendClosed(p, c) \/ RecvBuffered(p, c) \/ RecvClosed(p, c)
      PROVE  /\ counter' = counter
             /\ \A q \in Procs : state'[q] \in {"panicked", "woken"} => state'[q] = state[q]
  BY <1>3 DEF SendBuffered, SendClosed, RecvBuffered, RecvClosed, Return, Advance
<1>4. ASSUME NEW r \in Procs, NEW c \in Chans, HandOver(p, r, c)
      PROVE  /\ counter' = counter
             /\ \A q \in Procs : state'[q] \in {"panicked", "woken"} => state'[q] = state[q]
  BY <1>4 DEF HandOver
<1> QED
  BY <1>1, <1>2, <1>3, <1>4

LEMMA StepUnbroken ==
  ASSUME TypeOK, AtOperation, Born, Counted, Unbroken, Next
  PROVE  Unbroken'
<1>1. Main \in Procs /\ (Balanced' <=> Balanced) /\ \A p \in Procs : Code(p)' = Code(p)
  BY GoroutinesAssumption, SameBalanced, StepMoves
<1>2. OnlyMainWaits' <=> OnlyMainWaits
  BY <1>1 DEF OnlyMainWaits, Count
<1> SUFFICES ASSUME Balanced, OnlyMainWaits
             PROVE  /\ \A p \in Procs : state'[p] # "panicked"
                    /\ state'[Main] = "woken" => counter' = 0
  BY <1>1, <1>2 DEF Unbroken
<1>3. /\ \A p \in Procs : state[p] # "panicked"
      /\ state[Main] = "woken" => counter = 0
  BY DEF Unbroken
<1>4. ASSUME NEW p \in Procs, CountPanics(p) PROVE FALSE
  BY <1>4, NoCountPanics
<1>5. ASSUME NEW p \in Procs, WaitPanics(p) PROVE FALSE
  <2>1. ip[p] \in 1 .. Len(Code(p)) /\ Code(p)[ip[p]].op = "wait" /\ state[p] = "woken" /\ counter # 0
    BY <1>5, CodeType DEF WaitPanics, At, Op, TypeOK
  <2>2. p = Main
    BY <2>1, CountZero DEF OnlyMainWaits
  <2> QED
    BY <1>3, <2>1, <2>2
<1>6. ASSUME NEW p \in Procs, DoAdd(p) \/ DoDone(p)
      PROVE  /\ \A q \in Procs : state'[q] # "panicked"
             /\ state'[Main] = "woken" => counter' = 0
  <2>1. /\ \E n \in {1, -1} : counter + n >= 0 /\ counter' = counter + n /\ (n = 1 => Op(p).op = "add")
        /\ state' = [q \in Procs |-> IF state[q] = "waiting" /\ counter' = 0 THEN "woken" ELSE state[q]]
        /\ state[p] = "running" /\ ip[p] \in 1 .. Len(Code(p)) /\ Op(p) = Code(p)[ip[p]]
    BY <1>6, CodeType DEF DoAdd, DoDone, Counts, At, Op, TypeOK
  <2>2. \A q \in Procs : state'[q] # "panicked"
    BY <1>3, <2>1
  <2>3. ASSUME state'[Main] = "woken" PROVE counter' = 0
    <3>1. CASE state[Main] = "waiting"
      BY <1>1, <2>1, <2>3, <3>1
    <3>2. CASE state[Main] = "woken"
      <4>1. counter = 0 /\ p # Main
        BY <1>3, <2>1, <3>2
      <4>2. Op(p).op # "add"
        BY <2>1, <4>1, BalancedOps
      <4> QED
        BY <2>1, <4>1, <4>2
    <3> QED
      BY <1>1, <2>1, <2>3, <3>1, <3>2
  <2> QED
    BY <2>2, <2>3
<1>7. ASSUME /\ counter' = counter
             /\ \A q \in Procs : state'[q] \in {"panicked", "woken"} => state'[q] = state[q]
      PROVE  /\ \A q \in Procs : state'[q] # "panicked"
             /\ state'[Main] = "woken" => counter' = 0
  BY <1>1, <1>3, <1>7
<1> QED
  BY <1>4, <1>5, <1>6, <1>7, Quiet DEF Next, Step, Meet

-----------------------------------------------------------------------------
(* A channel of capacity 1 as a lock *)

\* p is between its send on c and its recv from c.
Holds(p, c) == ip[p] <= Len(Code(p)) /\ (Op(p).op = "increment" \/ Op(p) = Recv(c))

\* The inductive form of NoLostUpdate: one goroutine at a time is inside, the channel
\* is full while it is, and what it computes from is the variable's value.
LockHeld(c) ==
    /\ ~closed[c]
    /\ \A p, q \in Procs : Holds(p, c) /\ Holds(q, c) => p = q
    /\ \A p \in Procs : Holds(p, c) => buffer[c] # <<>>
    /\ \A p \in Procs : state[p] = "computing" => register[p] = shared
    /\ IsFiniteSet(Increments) /\ shared = Cardinality(Increments)

LocksHeld == \A c \in Chans : Guards(c) => LockHeld(c)

\* What Guards says of an operation and of the one before it.
LEMMA GuardOps ==
  ASSUME TypeOK, NEW c \in Chans, Guards(c), NEW p \in Procs, NEW k \in 1 .. Len(Code(p))
  PROVE  /\ Code(p)[k].op = "close" => Code(p)[k].chan # c
         /\ Code(p)[k].op \in RecvOps /\ Code(p)[k].chan = c => Code(p)[k] = Recv(c)
         /\ k + 1 <= Len(Code(p)) =>
               /\ Code(p)[k + 1].op = "increment" => Code(p)[k] = Send(c)
               /\ Code(p)[k + 1] = Recv(c) => Code(p)[k].op = "increment"
<1> DEFINE o == Code(p)[k]
<1>1. /\ o.op = "close" => o.chan # c
      /\ o.op \in RecvOps /\ o.chan = c => o = Recv(c)
  <2>1. ChanOp(o) /\ o.chan = c => o = Send(c) \/ o = Recv(c)
    BY DEF Guards
  <2>2. Send(c).op = "send" /\ Recv(c).op = "recv"
    BY DEF Send, Recv
  <2>3. o = Send(c) \/ o = Recv(c) => o.op \in {"send", "recv"}
    BY <2>2
  <2>4. o.op = "close" => o.chan # c
    BY <2>1, <2>3 DEF ChanOp
  <2>5. ASSUME o.op \in RecvOps, o.chan = c PROVE o = Recv(c)
    <3>1. ChanOp(o) /\ o.op # "send"
      BY <2>5 DEF ChanOp, RecvOps
    <3> QED
      BY <2>1, <2>2, <2>5, <3>1
  <2> QED
    BY <2>4, <2>5
<1>2. ASSUME k + 1 <= Len(Code(p))
      PROVE  /\ Code(p)[k + 1].op = "increment" => Code(p)[k] = Send(c)
             /\ Code(p)[k + 1] = Recv(c) => Code(p)[k].op = "increment"
  <2>1. k + 1 \in 1 .. Len(Code(p)) /\ (k + 1) - 1 = k
    BY <1>2, CodeType DEF TypeOK
  <2>2. Code(p)[k + 1].op = "increment" => Code(p)[k] = Send(c)
    BY <2>1 DEF Guards
  <2>3. ASSUME Code(p)[k + 1] = Recv(c) PROVE Code(p)[k].op = "increment"
    <3>1. Recv(c).op = "recv" /\ Recv(c).chan = c /\ Send(c).op = "send" /\ Increment.op = "increment"
      BY DEF Recv, Send, Increment
    <3>2. ChanOp(Code(p)[k + 1]) /\ Code(p)[k + 1].chan = c
      BY <2>3, <3>1 DEF ChanOp
    <3>3. Code(p)[k + 1] # Send(c)
      BY <2>3, <3>1
    <3>4. Code(p)[k] = Increment
      BY <2>1, <3>2, <3>3 DEF Guards
    <3> QED
      BY <3>1, <3>4
  <2> QED
    BY <2>2, <2>3
<1> QED
  BY <1>1, <1>2

\* Increments grow with the assignments, and by nothing else.
LEMMA StepIncrements ==
  ASSUME TypeOK, AtOperation, Next
  PROVE  /\ (\A p \in Procs : ~AssignShared(p)) => Increments' = Increments
         /\ \A p \in Procs : AssignShared(p) =>
               Increments' = Increments \cup {<<p, ip[p]>>} /\ <<p, ip[p]>> \notin Increments
<1>1. \A p \in Procs : Code(p)' = Code(p) /\ Passed(p) \subseteq Passed(p)'
  BY StepMoves, StepPassed
<1>2. ASSUME \A p \in Procs : ~AssignShared(p),
             NEW q \in Procs, NEW k \in Passed(q)', Code(q)[k].op = "increment"
      PROVE  k \in Passed(q)
  BY <1>2, StepPassed, PassesBy DEF Op
<1>3. (\A p \in Procs : ~AssignShared(p)) => Increments' = Increments
  <2> SUFFICES ASSUME \A p \in Procs : ~AssignShared(p) PROVE Increments' = Increments
    OBVIOUS
  <2>1. \A q \in Procs : { k \in Passed(q)' : Code(q)'[k].op = "increment" }
                       = { k \in Passed(q) : Code(q)[k].op = "increment" }
    BY <1>1, <1>2
  <2> QED
    BY <2>1 DEF Increments
<1>4. ASSUME NEW p \in Procs, AssignShared(p)
      PROVE  Increments' = Increments \cup {<<p, ip[p]>>} /\ <<p, ip[p]>> \notin Increments
  <2>1. ip' = [ip EXCEPT ![p] = ip[p] + 1] /\ ip[p] \in Nat \ {0} /\ Code(p)[ip[p]].op = "increment"
    BY <1>4 DEF AssignShared, At, Advance, Op, TypeOK
  <2>2. Passed(p)' = Passed(p) \cup {ip[p]} /\ ip[p] \notin Passed(p)
    <3>1. ip'[p] = ip[p] + 1
      BY <2>1 DEF TypeOK
    <3> QED
      BY <2>1, <3>1 DEF Passed
  <2>3. \A q \in Procs \ {p} : Passed(q)' = Passed(q)
    BY <2>1 DEF Passed, TypeOK
  <2>4. \A q \in Procs : \A k : <<q, k>> \in Increments' <=> <<q, k>> \in Increments \/ (q = p /\ k = ip[p])
    <3>1. \A q \in Procs : \A k : <<q, k>> \in Increments <=> k \in Passed(q) /\ Code(q)[k].op = "increment"
      BY DEF Increments
    <3>2. \A q \in Procs : \A k : <<q, k>> \in Increments' <=> k \in Passed(q)' /\ Code(q)[k].op = "increment"
      BY <1>1 DEF Increments
    <3> SUFFICES ASSUME NEW q \in Procs, NEW k
                 PROVE  <<q, k>> \in Increments' <=> <<q, k>> \in Increments \/ (q = p /\ k = ip[p])
      OBVIOUS
    <3>3. CASE q = p
      BY <2>1, <2>2, <3>1, <3>2, <3>3
    <3>4. CASE q # p
      BY <2>3, <3>1, <3>2, <3>4
    <3> QED
      BY <3>3, <3>4
  <2>5. /\ \A x \in Increments : \E q \in Procs : \E k \in Passed(q) : x = <<q, k>>
        /\ \A x \in Increments' : \E q \in Procs : \E k \in Passed(q)' : x = <<q, k>>
    BY DEF Increments
  <2>6. <<p, ip[p]>> \notin Increments
    BY <2>2 DEF Increments
  <2> QED
    BY <2>4, <2>5, <2>6
<1> QED
  BY <1>3, <1>4

\* A goroutine comes to hold the lock by its send, and then the channel was empty.
LEMMA Acquires ==
  ASSUME TypeOK, AtOperation, Next, NEW c \in Chans, Guards(c), LockHeld(c), NEW r \in Procs, Holds(r, c)'
  PROVE  \/ Holds(r, c) /\ (ip'[r] # ip[r] => Op(r).op = "increment")
         \/ ip'[r] # ip[r] /\ SendBuffered(r, c)
<1>1. Code(r)' = Code(r) /\ r \in Procs
  BY StepMoves
<1>2. CASE ip'[r] = ip[r]
  BY <1>1, <1>2 DEF Holds, Op
<1>3. CASE ip'[r] = ip[r] + 1 /\ ip[r] <= Len(Code(r)) /\ Passes(r)
  <2>1. /\ ip[r] \in 1 .. Len(Code(r)) /\ ip[r] + 1 <= Len(Code(r))
        /\ Code(r)[ip[r] + 1].op = "increment" \/ Code(r)[ip[r] + 1] = Recv(c)
    <3>1. ip[r] \in Nat \ {0} /\ Len(Code(r)) \in Nat
      BY CodeType DEF TypeOK
    <3> QED
      BY <1>1, <1>3, <3>1 DEF Holds, Op
  <2>2. CASE Op(r).op = "increment"
    BY <1>3, <2>2 DEF Holds
  <2>3. CASE Op(r) = Send(c)
    <3>1. Op(r).op = "send" /\ Op(r).chan = c
      BY <2>3 DEF Send
    <3>2. PICK d \in Chans : \/ SendBuffered(r, d) \/ SendClosed(r, d)
                             \/ \E q \in Procs : HandOver(r, q, d)
      BY <1>3, <3>1, PassesBy DEF SendOps
    <3>3. d = c
      BY <3>1, <3>2 DEF SendBuffered, SendClosed, HandOver, Sending
    <3>4. ~SendClosed(r, c)
      BY DEF SendClosed, LockHeld
    <3>5. \A q \in Procs : ~HandOver(r, q, c)
      BY DEF HandOver, Guards
    <3> QED
      BY <1>3, <3>2, <3>3, <3>4, <3>5, StepPassed
  <2> QED
    BY <2>1, <2>2, <2>3, GuardOps DEF Op
<1> QED
  BY <1>2, <1>3, StepMoves

LEMMA EmptyBuffer ==
  ASSUME TypeOK, NEW c \in Chans, Guards(c), HasRoom(c)
  PROVE  buffer[c] = <<>>
<1>1. buffer[c] \in Seq(Values) /\ Len(buffer[c]) < 1
  BY DEF TypeOK, Guards, HasRoom
<1> QED
  BY <1>1, LenProperties, EmptySeq

LEMMA StepLockHeld ==
  ASSUME TypeOK, AtOperation, Next, NEW c \in Chans, Guards(c), LockHeld(c)
  PROVE  LockHeld(c)'
<1>1. \A p \in Procs : Code(p)' = Code(p)
  BY StepMoves
<1>2. ~closed'[c]
  <2>1. ASSUME NEW p \in Procs, DoClose(p) PROVE closed'[c] = closed[c]
    <3>1. ip[p] \in 1 .. Len(Code(p)) /\ Op(p).op = "close" /\ Op(p) = Code(p)[ip[p]]
      BY <2>1, CodeType DEF DoClose, At, Op, TypeOK
    <3>2. Op(p).chan # c
      BY <3>1, GuardOps
    <3> QED
      BY <2>1, <3>2 DEF DoClose, TypeOK
  <2>2. CASE \A p \in Procs : ~DoClose(p)
    BY <2>2 DEF Next, Step, Meet, DoSpawn, End, BeginSend, BeginRecv, DoAdd, DoDone, CountPanics,
                WaitBlocks, WaitPanics, DoWait, ReadShared,
                AssignShared, SendBuffered, SendClosed, RecvBuffered, RecvClosed, HandOver, chanVars, LockHeld
  <2> QED
    BY <2>1, <2>2 DEF LockHeld
<1>3. CASE \E s \in Procs : SendBuffered(s, c)
  <2>1. PICK s \in Procs : SendBuffered(s, c)
    BY <1>3
  <2>2. buffer[c] = <<>> /\ \A p \in Procs : ~Holds(p, c)
    <3>1. buffer[c] = <<>>
      BY <2>1, EmptyBuffer DEF SendBuffered
    <3> QED
      BY <3>1 DEF LockHeld
  <2>3. \A p \in Procs : Holds(p, c)' => p = s
    <3>1. ip' = [ip EXCEPT ![s] = ip[s] + 1]
      BY <2>1 DEF SendBuffered, Advance
    <3>2. \A p \in Procs : Holds(p, c)' => ip'[p] # ip[p]
      BY <2>2, Acquires
    <3> QED
      BY <3>1, <3>2 DEF TypeOK
  <2>4. buffer'[c] # <<>>
    <3>1. buffer' = [buffer EXCEPT ![c] = Append(buffer[c], Value(s))]
      BY <2>1 DEF SendBuffered
    <3>2. buffer[c] \in Seq(Values) /\ Value(s) \in Values
      BY <2>1, OpType DEF SendBuffered, Sending, AtOperation, TypeOK
    <3>3. Append(buffer[c], Value(s)) # <<>>
      BY <3>2, AppendProperties
    <3> QED
      BY <3>1, <3>3 DEF TypeOK
  <2>5. UNCHANGED <<shared, register>> /\ state' = [state EXCEPT ![s] = "running"]
    BY <2>1 DEF SendBuffered, Advance
  <2>6. \A p \in Procs : state'[p] = "computing" => register'[p] = shared'
    BY <2>5 DEF LockHeld, TypeOK
  <2>7. \A p \in Procs : ~AssignShared(p)
    <3>1. \A p \in Procs : AssignShared(p) => shared' = shared + 1
      BY DEF AssignShared, At, LockHeld
    <3> QED
      BY <2>5, <3>1 DEF TypeOK
  <2>8. Increments' = Increments
    BY <2>7, StepIncrements
  <2> QED
    BY <1>2, <2>3, <2>4, <2>5, <2>6, <2>8 DEF LockHeld
<1>4. CASE \A s \in Procs : ~SendBuffered(s, c)
  <2>1. \A p \in Procs : Holds(p, c)' => Holds(p, c) /\ (ip'[p] # ip[p] => Op(p).op = "increment")
    BY <1>4, Acquires
  <2>2. ASSUME NEW p \in Procs, Holds(p, c)' PROVE buffer'[c] # <<>>
    <3>1. Holds(p, c) /\ buffer[c] # <<>>
      BY <2>1, <2>2 DEF LockHeld
    <3>2. ASSUME NEW q \in Procs, RecvBuffered(q, c) PROVE FALSE
      <4>1. ip[q] \in 1 .. Len(Code(q)) /\ Op(q).op \in RecvOps /\ Op(q).chan = c /\ Op(q) = Code(q)[ip[q]]
        BY <3>2, CodeType DEF RecvBuffered, Receiving, AtOperation, Op, TypeOK
      <4>2. Op(q) = Recv(c) /\ Op(q).op = "recv"
        BY <4>1, GuardOps DEF Recv
      <4>3. Holds(q, c)
        BY <4>1, <4>2 DEF Holds, TypeOK
      <4>4. p = q
        BY <3>1, <4>3 DEF LockHeld
      <4>5. ip' = [ip EXCEPT ![q] = ip[q] + 1]
        BY <3>2, <4>2 DEF RecvBuffered, Return, Advance
      <4>6. ip'[q] # ip[q]
        BY <4>5, StepPassed DEF TypeOK
      <4> QED
        BY <2>1, <2>2, <4>2, <4>4, <4>6
    <3>3. CASE \A q \in Procs : ~RecvBuffered(q, c)
      <4>1. ASSUME NEW q \in Procs, NEW d \in Chans, SendBuffered(q, d) \/ RecvBuffered(q, d)
            PROVE  buffer'[c] = buffer[c]
        <5>1. d # c
          BY <1>4, <3>3, <4>1
        <5> QED
          BY <4>1, <5>1 DEF SendBuffered, RecvBuffered, TypeOK
      <4>2. CASE \A q \in Procs, d \in Chans : ~SendBuffered(q, d) /\ ~RecvBuffered(q, d)
        BY <3>1, <4>2 DEF Next, Step, Meet, DoSpawn, End, BeginSend, BeginRecv, DoClose, DoAdd, DoDone,
                          CountPanics, WaitBlocks, WaitPanics, DoWait,
                    ReadShared, AssignShared, SendClosed, RecvClosed, HandOver, chanVars
      <4> QED
        BY <3>1, <4>1, <4>2
    <3> QED
      BY <3>2, <3>3
  <2>3. CASE \E p \in Procs : AssignShared(p)
    <3>1. PICK p \in Procs : AssignShared(p)
      BY <2>3
    <3>2. /\ Holds(p, c) /\ register[p] = shared
          /\ shared' = shared + 1 /\ register' = register
          /\ state' = [state EXCEPT ![p] = "running"]
      BY <3>1 DEF AssignShared, At, Advance, Holds, LockHeld
    <3>3. ASSUME NEW q \in Procs, state'[q] = "computing" PROVE FALSE
      <4>1. q # p /\ state[q] = "computing"
        BY <3>2, <3>3 DEF TypeOK
      <4>2. Holds(q, c)
        BY <4>1 DEF AtOperation, Holds
      <4> QED
        BY <3>2, <4>1, <4>2 DEF LockHeld
    <3>4. Increments' = Increments \cup {<<p, ip[p]>>} /\ <<p, ip[p]>> \notin Increments
      BY <3>1, StepIncrements
    <3>5. IsFiniteSet(Increments') /\ Cardinality(Increments') = Cardinality(Increments) + 1
      BY <3>4, FS_AddElement DEF LockHeld
    <3> QED
      BY <1>2, <2>1, <2>2, <3>2, <3>3, <3>5 DEF LockHeld
  <2>4. CASE \A p \in Procs : ~AssignShared(p)
    <3>1. shared' = shared
      BY <2>4 DEF Next, Step, Meet, DoSpawn, End, BeginSend, BeginRecv, DoClose, DoAdd, DoDone,
                  CountPanics, WaitBlocks, WaitPanics, DoWait,
                  ReadShared, SendBuffered, SendClosed, RecvBuffered, RecvClosed, HandOver
    <3>2. Increments' = Increments
      BY <2>4, StepIncrements
    <3>3. ASSUME NEW p \in Procs, ReadShared(p), NEW q \in Procs, state'[q] = "computing"
          PROVE  register'[q] = shared'
      BY <3>1, <3>3 DEF ReadShared, Enter, LockHeld, TypeOK
    <3>4. ASSUME NEW p \in Procs, DoSpawn(p)
          PROVE  register' = register /\ \A q \in Procs : state'[q] = "computing" => state[q] = "computing"
      BY <3>4 DEF DoSpawn, TypeOK
    <3>5. ASSUME NEW p \in Procs, NEW st, Enter(p, st), st # "computing"
          PROVE  \A q \in Procs : state'[q] = "computing" => state[q] = "computing"
      BY <3>5 DEF Enter, TypeOK
    <3>6. ASSUME NEW p \in Procs, Advance(p)
          PROVE  \A q \in Procs : state'[q] = "computing" => state[q] = "computing"
      BY <3>6 DEF Advance, TypeOK
    <3>7. ASSUME NEW p \in Procs,
                 End(p) \/ BeginSend(p) \/ BeginRecv(p) \/ DoClose(p) \/ DoAdd(p) \/ DoDone(p)
                 \/ CountPanics(p) \/ DoWait(p) \/ WaitBlocks(p) \/ WaitPanics(p)
          PROVE  register' = register /\ \A q \in Procs : state'[q] = "computing" => state[q] = "computing"
      BY <3>5, <3>6, <3>7 DEF End, BeginSend, BeginRecv, DoClose, DoAdd, DoDone, Counts, CountPanics,
                              DoWait, WaitBlocks, WaitPanics
    <3>8. ASSUME NEW p \in Procs, NEW d \in Chans,
                 SendBuffered(p, d) \/ SendClosed(p, d) \/ RecvBuffered(p, d) \/ RecvClosed(p, d)
          PROVE  register' = register /\ \A q \in Procs : state'[q] = "computing" => state[q] = "computing"
      BY <3>8 DEF SendBuffered, SendClosed, RecvBuffered, RecvClosed, Return, Advance, TypeOK
    <3>9. ASSUME NEW p \in Procs, NEW r \in Procs, NEW d \in Chans, HandOver(p, r, d)
          PROVE  register' = register /\ \A q \in Procs : state'[q] = "computing" => state[q] = "computing"
      BY <3>9 DEF HandOver, TypeOK
    <3>10. \A q \in Procs : state'[q] = "computing" => register'[q] = shared'
      BY <2>4, <3>1, <3>3, <3>4, <3>7, <3>8, <3>9 DEF Next, Step, Meet, LockHeld
    <3> QED
      BY <1>2, <2>1, <2>2, <3>1, <3>2, <3>10 DEF LockHeld
  <2> QED
    BY <2>3, <2>4
<1> QED
  BY <1>3, <1>4

-----------------------------------------------------------------------------
(* The invariant *)

IInv ==
    /\ TypeOK /\ AtOperation
    /\ SendsAccepted
    /\ Conserved /\ LoopsDrained
    /\ Born /\ Counted /\ WaitJoins /\ Unbroken
    /\ LocksHeld

LEMMA SameGuards == program' = program => \A c \in Chans : Guards(c)' <=> Guards(c)
BY DEF Guards, ChanOp, Code

LEMMA InitIInv == Init => IInv
<1> SUFFICES ASSUME Init PROVE IInv
  OBVIOUS
<1>1. TypeOK /\ AtOperation
  BY InitTypes
<1>2. Main \in Procs /\ \A p \in Procs : Passed(p) = {}
  BY GoroutinesAssumption DEF Init, Passed
<1>3. SendsAccepted /\ LoopsDrained /\ WaitJoins
  BY <1>2 DEF SendsAccepted, LoopsDrained, WaitJoins
<1>4. Conserved
  BY DEF Init, Conserved
<1>5. Born
  BY DEF Init, Born
<1>6. HasDone = {} /\ AddsPassed = {} /\ Increments = {}
  BY <1>2 DEF HasDone, AddsPassed, Increments
<1>7. Counted
  BY <1>6, FS_EmptySet DEF Init, Counted
<1>9. Unbroken
  BY <1>2 DEF Init, Unbroken
<1>8. ASSUME NEW c \in Chans, Guards(c) PROVE LockHeld(c)
  <2>1. ASSUME NEW p \in Procs PROVE ~Holds(p, c)
    <3> SUFFICES ASSUME 1 <= Len(Code(p)), Code(p)[1].op = "increment" \/ Code(p)[1] = Recv(c)
                 PROVE  FALSE
      BY DEF Init, Holds, Op
    <3>1. 1 \in 1 .. Len(Code(p)) /\ ~(1 > 1)
      BY <1>1, CodeType DEF TypeOK
    <3>2. /\ \A k \in 1 .. Len(Code(p)) : Code(p)[k].op = "increment" => k > 1
          /\ \A k \in 1 .. Len(Code(p)) :
                ChanOp(Code(p)[k]) /\ Code(p)[k].chan = c => Code(p)[k] = Send(c) \/ k > 1
      <4>1. \A k \in 1 .. Len(Code(p)) : Code(p)[k].op = "increment" => k > 1
        BY <1>8 DEF Guards
      <4>2. \A k \in 1 .. Len(Code(p)) :
                ChanOp(Code(p)[k]) /\ Code(p)[k].chan = c => Code(p)[k] = Send(c) \/ k > 1
        BY <1>8 DEF Guards
      <4> QED
        BY <4>1, <4>2
    <3>3. Code(p)[1] = Recv(c)
      BY <3>1, <3>2
    <3>4. ChanOp(Code(p)[1]) /\ Code(p)[1].chan = c /\ Code(p)[1] # Send(c)
      BY <3>3 DEF Recv, Send, ChanOp
    <3> QED
      BY <3>1, <3>2, <3>4
  <2> QED
    BY <1>6, <2>1, FS_EmptySet DEF LockHeld, Init
<1> QED
  BY <1>1, <1>3, <1>4, <1>5, <1>7, <1>8, <1>9 DEF IInv, LocksHeld

LEMMA StepIInv == IInv /\ [Next]_vars => IInv'
<1> SUFFICES ASSUME IInv, [Next]_vars PROVE IInv'
  OBVIOUS
<1>1. CASE Next
  <2>1. TypeOK' /\ AtOperation'
    BY <1>1, StepTypes DEF IInv
  <2>2. SendsAccepted' /\ Conserved' /\ LoopsDrained'
    BY <1>1, StepSendsAccepted, StepConserved, StepLoopsDrained DEF IInv
  <2>3. Born' /\ Counted' /\ WaitJoins' /\ Unbroken'
    BY <1>1, StepBorn, StepCounted, StepWaitJoins, StepUnbroken DEF IInv
  <2>4. LocksHeld'
    <3>1. \A c \in Chans : Guards(c)' <=> Guards(c)
      BY <1>1, StepMoves, SameGuards DEF IInv
    <3>2. \A c \in Chans : Guards(c) => LockHeld(c)'
      BY <1>1, StepLockHeld DEF IInv, LocksHeld
    <3> QED
      BY <3>1, <3>2 DEF LocksHeld
  <2> QED
    BY <2>1, <2>2, <2>3, <2>4 DEF IInv
<1>2. CASE UNCHANGED vars
  <2>1. TypeOK' /\ AtOperation'
    BY StepTypes DEF IInv
  <2>2. SendsAccepted'
    BY <1>2 DEF vars, chanVars, IInv, SendsAccepted, Passed, Code, Elements
  <2>3. Conserved'
    BY <1>2 DEF vars, chanVars, IInv, Conserved, Alone
  <2>4. LoopsDrained'
    <3>1. \A p \in Procs, c \in Chans : Alone(p, c)' <=> Alone(p, c)
      BY <1>2 DEF vars, Alone
    <3>2. \A p \in Procs : Passed(p)' = Passed(p) /\ Code(p)' = Code(p)
      BY <1>2 DEF vars, Passed, Code
    <3>3. \A c \in Chans : Elements(accepted[c])' = Elements(accepted[c])
      BY <1>2 DEF vars, chanVars, Elements
    <3>4. UNCHANGED <<closed, buffer, accepted>>
      BY <1>2 DEF vars, chanVars
    <3> QED
      BY <3>1, <3>2, <3>3, <3>4 DEF IInv, LoopsDrained
  <2>5. Born'
    BY <1>2 DEF vars, IInv, Born, Spawn, Passed, Code
  <2>6. /\ Balanced' <=> Balanced
        /\ HasDone' = HasDone /\ AddsPassed' = AddsPassed
    <3>1. Balanced' <=> Balanced
      BY <1>2 DEF vars, Balanced, Count, Announced, Code
    <3>2. HasDone' = HasDone /\ AddsPassed' = AddsPassed
      BY <1>2 DEF vars, HasDone, AddsPassed, Passed, Code
    <3> QED
      BY <3>1, <3>2
  <2>7. Counted' /\ WaitJoins' /\ Unbroken'
    <3>1. Counted'
      BY <1>2, <2>6 DEF vars, IInv, Counted
    <3>2. \A p \in Procs : \A k : Announced(p, k)' = Announced(p, k)
      BY <1>2 DEF vars, Announced, Code
    <3>3. WaitJoins'
      BY <1>2, <2>6, <3>2 DEF vars, IInv, WaitJoins, Passed, Code
    <3>4. OnlyMainWaits' <=> OnlyMainWaits
      BY <1>2 DEF vars, OnlyMainWaits, Count, Code
    <3>5. Unbroken'
      BY <1>2, <2>6, <3>4 DEF vars, IInv, Unbroken
    <3> QED
      BY <3>1, <3>3, <3>5
  <2>8. LocksHeld'
    <3>1. Increments' = Increments
      BY <1>2 DEF vars, Increments, Passed, Code
    <3>2. \A c \in Chans, p \in Procs : Holds(p, c)' <=> Holds(p, c)
      BY <1>2 DEF vars, Holds, Op, Code
    <3>3. \A c \in Chans : LockHeld(c)' <=> LockHeld(c)
      BY <1>2, <3>1, <3>2 DEF vars, chanVars, LockHeld
    <3>4. \A c \in Chans : Guards(c)' <=> Guards(c)
      BY <1>2, SameGuards DEF vars
    <3> QED
      BY <3>3, <3>4 DEF IInv, LocksHeld
  <2> QED
    BY <2>1, <2>2, <2>3, <2>4, <2>5, <2>6, <2>7, <2>8 DEF IInv
<1> QED
  BY <1>1, <1>2

\* Every state is of the right type and keeps the inductive invariant.
THEOREM Invariance == Spec => []IInv
<1>1. Init => IInv
  BY InitIInv
<1>2. IInv /\ [Next]_vars => IInv'
  BY StepIInv
<1> QED
  BY <1>1, <1>2, PTL DEF Spec

\* What the documented patterns promise, of any program, with any number of goroutines
\* and channels of any capacity: a loop on recv ends with every value its channel accepted
\* (LoopDrains), a send that returned is accepted or its channel was closed under it
\* (SendsAccepted), wait returns when every announced goroutine is done (WaitJoins), no
\* count and no wait of such a fork panics (NoPanics), and a channel used as a lock loses
\* no update (NoLostUpdate).
THEOREM PatternsAlwaysHold == Spec => []PatternsHold
<1>1. IInv => PatternsHold
  <2> SUFFICES ASSUME IInv PROVE PatternsHold
    OBVIOUS
  <2>1. LoopDrains
    BY LoopDrainsHolds DEF IInv
  <2>2. NoLostUpdate
    BY DEF IInv, LocksHeld, LockHeld, NoLostUpdate
  <2>3. NoPanics
    BY DEF IInv, Unbroken, NoPanics
  <2> QED
    BY <2>1, <2>2, <2>3 DEF IInv, PatternsHold
<1> QED
  BY <1>1, Invariance, PTL
=============================================================================
