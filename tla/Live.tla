-------------------------------- MODULE Live --------------------------------
(***************************************************************************)
(* What lives on in a server between its requests: WebSocket connections,  *)
(* a pubsub topic that joins them, timers (every, cron, after), and the    *)
(* way all of it ends when the process is told to stop.                    *)
(*                                                                         *)
(* Every connection runs the body that the comments of builtins.go give    *)
(* for a chat: subscribe send, publish what recv returns until it returns  *)
(* null, unsubscribe.  A timer's function publishes too, or closes a       *)
(* connection.  What a goroutine still has to do is a list of steps; a     *)
(* step that calls another function puts that function's steps first.      *)
(***************************************************************************)
EXTENDS Integers, Sequences, SequencesExt, FiniteSets

CONSTANTS Conns,      \* WebSocket connections
          Timers,
          Kind,       \* [Timers -> {"every", "cron", "after"}]
          Job,        \* [Timers -> steps]: what its function does
          Failing,    \* timers whose function may end with an error
          Stoppers,   \* [Timers -> SUBSET]: goroutines that hold its stop function
          Requests,   \* requests of other routes
          Casts       \* who takes part: the clients with the frames they may send,
                      \* how many of them and how much they read, the timers with
                      \* their number of ticks, the calls of stop functions, the
                      \* requests, and whether a signal comes

Goroutines == Conns \cup Timers
None == "none"

VARIABLES cast,     \* who takes part in this run
          server,   \* "serving", "draining" or "exited"
          late,     \* the ten seconds of Shutdown are over
          request,  \* [Requests -> "none", "running", "answered"]
          handler,  \* [Conns -> where its route body is]
          task,     \* [Goroutines -> what it does, in steps]
          subs,     \* the topic's subscribers
          inbox,    \* [Conns -> frames on their way to the server]
          sent,     \* [Conns -> number of frames the client has sent]
          payload,  \* [Conns -> fragments of the message being read]
          tcp,      \* [Conns -> "open", "closed" here or "gone" there]
          closed,   \* [Conns -> WSConn.closed]
          writer,   \* [Conns -> who holds writeMu]
          wire,     \* [Conns -> the headers and payloads written]
          mode,     \* [Timers -> where its goroutine is]
          ticks,    \* [Timers -> number of ticks so far]
          pending,  \* [Timers -> a tick waits in the channel]
          stopped,  \* [Timers -> its stop channel is closed]
          stopping, \* [stop calls -> how far they are]
          audience  \* history: messages and the subscribers they were for

serverVars == <<server, late, request>>
connVars   == <<handler, subs, inbox, sent, payload>>
wireVars   == <<tcp, closed, writer, wire>>
timerVars  == <<mode, ticks, pending, stopped, stopping>>
vars == <<cast, serverVars, task, connVars, wireVars, timerVars, audience>>

Running == server # "exited"

\* Steps.
Publish(m)        == [op |-> "publish", msg |-> m]
Send(c, frame)    == [op |-> "send", to |-> c, frame |-> frame]
Header(c, frame)  == [op |-> "header", to |-> c, frame |-> frame]
Payload(c, frame) == [op |-> "payload", to |-> c, frame |-> frame]
Close(c)          == [op |-> "close", to |-> c]
HangUp(c)         == [op |-> "hang up", to |-> c]

\* Frames: messages, which know who published them, and control frames.
Message(g, data) == [from |-> g, data |-> data]
CloseFrame == Message("close", <<>>)
Pong       == Message("pong", <<>>)
IsMessage(frame) == frame \notin {CloseFrame, Pong}

\* Frames of a client: an opcode and FIN; "big" is one above the limit, "odd" one
\* with an opcode that ReadMessage does not know.
Frames == { [op |-> op, fin |-> fin] : op \in {"text", "more"}, fin \in BOOLEAN }
            \cup { [op |-> op, fin |-> TRUE] : op \in {"ping", "close", "big", "odd"} }

\* Who sends a frame is told by its name.  A timer's function closes connections and
\* publishes messages of its own, which are numbered as they come.
Follows(m, n) == Last(m.data) < Head(n.data)
Numbered(t, last) ==
    \A i, j \in 1 .. last : \A k \in DOMAIN Job[t][i], l \in DOMAIN Job[t][j] :
       Job[t][i][k].op = "publish" /\ Job[t][j][l].op = "publish" =>
          /\ Job[t][i][k].msg.data # <<>>
          /\ Head(Job[t][i][k].msg.data) <= Last(Job[t][i][k].msg.data)
          /\ i < j \/ (i = j /\ k < l) => Follows(Job[t][i][k].msg, Job[t][j][l].msg)
JobSteps(t) == [op : {"publish"}, msg : [from : {t}, data : Seq(Int)]] \cup [op : {"close"}, to : Conns]
ASSUME LiveAssumption ==
    /\ Conns \cap Timers = {} /\ {None, "close", "pong"} \cap Goroutines = {}
    /\ \A x \in Casts :
         /\ x.frames \subseteq Frames /\ x.ticks \in [Timers -> Nat] /\ x.reads \in [Conns -> Nat]
         /\ \A t \in Timers : Numbered(t, x.ticks[t]) /\ \A n \in 1 .. x.ticks[t] : Job[t][n] \in Seq(JobSteps(t))

StopCalls == UNION { {<<g, t>> : g \in Stoppers[t]} : t \in Timers }

Init ==
    /\ cast \in Casts
    /\ server = "serving" /\ late = FALSE
    /\ request = [r \in Requests |-> "none"]
    /\ handler = [c \in Conns |-> "new"] /\ subs = {}
    /\ task = [g \in Goroutines |-> <<>>]
    /\ inbox = [c \in Conns |-> <<>>] /\ sent = [c \in Conns |-> 0]
    /\ payload = [c \in Conns |-> <<>>]
    /\ tcp = [c \in Conns |-> "closed"] /\ closed = [c \in Conns |-> FALSE]
    /\ writer = [c \in Conns |-> None] /\ wire = [c \in Conns |-> <<>>]
    /\ mode = [t \in Timers |-> IF cast.ticks[t] > 0 THEN "select" ELSE "ended"]
    /\ ticks = [t \in Timers |-> 0]
    /\ pending = [t \in Timers |-> FALSE] /\ stopped = [t \in Timers |-> FALSE]
    /\ stopping = [s \in StopCalls |-> "idle"]
    /\ audience = {}

-----------------------------------------------------------------------------
(* The steps of a goroutine. *)

Doing(g, op) == Running /\ task[g] # <<>> /\ Head(task[g]).op = op
Replace(g, steps) == task' = [task EXCEPT ![g] = steps \o Tail(@)]

\* topic.publish: the subscribers at this moment are called one after the
\* other, in any order; their errors are swallowed.
DoPublish(g) ==
    /\ Doing(g, "publish")
    /\ LET m == Head(task[g]).msg
       IN  /\ \E order \in SetToSeqs(subs) : Replace(g, [k \in DOMAIN order |-> Send(order[k], m)])
           /\ audience' = audience \cup {[msg |-> m, subs |-> subs]}
    /\ UNCHANGED <<cast, serverVars, connVars, wireVars, timerVars>>

\* Mutant: without the lock.
DoSendUnlocked(g) ==
    /\ Doing(g, "send")
    /\ Replace(g, << Header(Head(task[g]).to, Head(task[g]).frame), Payload(Head(task[g]).to, Head(task[g]).frame) >>)
    /\ UNCHANGED <<cast, serverVars, connVars, wireVars, timerVars, audience>>

\* writeFrame, under writeMu: the header, then the payload.
DoSend(g) ==
    /\ Doing(g, "send")
    /\ LET c == Head(task[g]).to
           frame == Head(task[g]).frame
       IN  /\ writer[c] = None
           /\ writer' = [writer EXCEPT ![c] = g]
           /\ Replace(g, <<Header(c, frame), Payload(c, frame)>>)
    /\ UNCHANGED <<cast, serverVars, connVars, tcp, closed, wire, timerVars, audience>>

\* A peer that is there and has stopped reading.  What it reads, and what the
\* buffers on the way to it hold, is counted in headers and payloads.  A peer
\* that reads slowly is one whose next piece is not written yet.
Full(c) == tcp[c] = "open" /\ Len(wire[c]) >= cast.reads[c]

\* Mutant: an error of a subscriber ends the publication.
DoHeaderFails(g) ==
    /\ Doing(g, "header") /\ ~Full(Head(task[g]).to)
    /\ LET h == Head(task[g])
       IN  /\ wire' = [wire EXCEPT ![h.to] = IF tcp[h.to] = "open" THEN Append(@, h) ELSE @]
           /\ task' = [task EXCEPT ![g] = IF tcp[h.to] = "open" THEN Tail(@) ELSE <<>>]
           /\ writer' = [writer EXCEPT ![h.to] = IF tcp[h.to] = "open" THEN @ ELSE None]
    /\ UNCHANGED <<cast, serverVars, connVars, tcp, closed, timerVars, audience>>

\* A write to a connection that is closed here fails, and the rest of the frame
\* is not written; one to a peer that has gone is lost.  There is no deadline: one
\* to a peer that does not read blocks, with writeMu held, until the peer is gone.
Put(c, piece) == wire' = [wire EXCEPT ![c] = IF tcp[c] = "open" THEN Append(@, piece) ELSE @]
DoHeader(g) ==
    /\ Doing(g, "header") /\ ~Full(Head(task[g]).to)
    /\ LET h == Head(task[g])
       IN  /\ Put(h.to, h)
           /\ task' = [task EXCEPT ![g] = IF tcp[h.to] = "open" THEN Tail(@) ELSE Tail(Tail(@))]
           /\ writer' = [writer EXCEPT ![h.to] = IF tcp[h.to] = "open" THEN @ ELSE None]
    /\ UNCHANGED <<cast, serverVars, connVars, tcp, closed, timerVars, audience>>

DoPayload(g) ==
    /\ Doing(g, "payload") /\ ~Full(Head(task[g]).to)
    /\ LET p == Head(task[g])
       IN  Put(p.to, p) /\ writer' = [writer EXCEPT ![p.to] = None]
    /\ Replace(g, <<>>)
    /\ UNCHANGED <<cast, serverVars, connVars, tcp, closed, timerVars, audience>>

\* WriteClose: the first caller writes the close frame and closes the connection.
DoClose(g) ==
    /\ Doing(g, "close")
    /\ LET c == Head(task[g]).to
       IN  /\ Replace(g, IF closed[c] THEN <<>> ELSE <<Send(c, CloseFrame), HangUp(c)>>)
           /\ closed' = [closed EXCEPT ![c] = TRUE]
    /\ UNCHANGED <<cast, serverVars, connVars, tcp, writer, wire, timerVars, audience>>

DoHangUp(g) ==
    /\ Doing(g, "hang up")
    /\ tcp' = [tcp EXCEPT ![Head(task[g]).to] = "closed"]
    /\ Replace(g, <<>>)
    /\ UNCHANGED <<cast, serverVars, connVars, closed, writer, wire, timerVars, audience>>

Step(g) == DoPublish(g) \/ DoSend(g) \/ DoHeader(g) \/ DoPayload(g) \/ DoClose(g) \/ DoHangUp(g)

-----------------------------------------------------------------------------
(* A connection: the client, and the body of its route. *)

Connect(c) ==
    /\ c \in cast.conns /\ server = "serving" /\ handler[c] = "new"
    /\ handler' = [handler EXCEPT ![c] = "open"]
    /\ tcp' = [tcp EXCEPT ![c] = "open"]
    /\ UNCHANGED <<cast, serverVars, task, subs, inbox, sent, payload, closed, writer, wire, timerVars, audience>>

ClientSends(c) ==
    /\ Running /\ tcp[c] = "open" /\ sent[c] < cast.most[c]
    /\ \E f \in cast.frames : inbox' = [inbox EXCEPT ![c] = Append(@, f)]
    /\ sent' = [sent EXCEPT ![c] = @ + 1]
    /\ UNCHANGED <<cast, serverVars, task, handler, subs, payload, wireVars, timerVars, audience>>

ClientGoes(c) ==
    /\ Running /\ tcp[c] = "open"
    /\ tcp' = [tcp EXCEPT ![c] = "gone"]
    /\ UNCHANGED <<cast, serverVars, task, connVars, closed, writer, wire, timerVars, audience>>

AtBody(c, at) == Running /\ handler[c] = at /\ task[c] = <<>>

Subscribe(c) ==
    /\ AtBody(c, "open")
    /\ subs' = subs \cup {c}
    /\ handler' = [handler EXCEPT ![c] = "recv"]
    /\ UNCHANGED <<cast, serverVars, task, inbox, sent, payload, wireVars, timerVars, audience>>

\* recv: ReadMessage takes one frame.  A message is published when its last
\* fragment is there; what has been received may be read from a connection that
\* is closed.  An unknown opcode is an error without an answer.
Recv(c) ==
    /\ AtBody(c, "recv") /\ inbox[c] # <<>>
    /\ LET f == Head(inbox[c])
           whole == Append(payload[c], sent[c] - Len(inbox[c]) + 1)
           data == f.op \in {"text", "more"}
       IN  /\ inbox' = [inbox EXCEPT ![c] = Tail(@)]
           /\ payload' = [payload EXCEPT ![c] = IF ~data THEN @ ELSE IF f.fin THEN <<>> ELSE whole]
           /\ handler' = [handler EXCEPT ![c] = IF f.op \in {"close", "big", "odd"} THEN "ending" ELSE @]
           /\ task' = [task EXCEPT ![c] =
                         CASE data /\ f.fin -> <<Publish(Message(c, whole))>>
                           [] f.op = "ping" -> <<Send(c, Pong)>>
                           [] f.op \in {"close", "big"} -> <<Close(c)>>
                           [] OTHER -> <<>>]
    /\ UNCHANGED <<cast, serverVars, subs, sent, wireVars, timerVars, audience>>

\* recv of a connection that has ended is null.
RecvNull(c) ==
    /\ AtBody(c, "recv") /\ tcp[c] # "open"
    /\ handler' = [handler EXCEPT ![c] = "ending"]
    /\ UNCHANGED <<cast, serverVars, task, subs, inbox, sent, payload, wireVars, timerVars, audience>>

\* sub.unsubscribe(), and the deferred WriteClose of runWS.
Unsubscribe(c) ==
    /\ AtBody(c, "ending")
    /\ subs' = subs \ {c}
    /\ handler' = [handler EXCEPT ![c] = "done"]
    /\ task' = [task EXCEPT ![c] = <<Close(c)>>]
    /\ UNCHANGED <<cast, serverVars, inbox, sent, payload, wireVars, timerVars, audience>>

-----------------------------------------------------------------------------
(* Timers. *)

Runs(t, n) == task' = [task EXCEPT ![t] = Job[t][n]]

\* The time comes: a goroutine that waits goes on with it at once, one that has
\* not begun to wait finds the tick.  The ticker of every keeps one tick while
\* the function runs; cron has no timer then.
Tick(t) ==
    /\ Running /\ ticks[t] < cast.ticks[t]
    /\ \/ mode[t] = "parked"
       \/ mode[t] = "select" /\ ~pending[t]
       \/ mode[t] = "running" /\ ~pending[t] /\ Kind[t] = "every"
    /\ ticks' = [ticks EXCEPT ![t] = @ + 1]
    /\ IF mode[t] = "parked"
       THEN mode' = [mode EXCEPT ![t] = "running"] /\ Runs(t, ticks'[t]) /\ UNCHANGED pending
       ELSE pending' = [pending EXCEPT ![t] = TRUE] /\ UNCHANGED <<cast, mode, task>>
    /\ UNCHANGED <<cast, serverVars, connVars, wireVars, stopped, stopping, audience>>

\* select: when both are ready, either is taken.
SelectStop(t) ==
    /\ Running /\ mode[t] = "select" /\ stopped[t]
    /\ mode' = [mode EXCEPT ![t] = "ended"]
    /\ UNCHANGED <<cast, serverVars, task, connVars, wireVars, ticks, pending, stopped, stopping, audience>>
SelectTick(t) ==
    /\ Running /\ mode[t] = "select" /\ pending[t]
    /\ mode' = [mode EXCEPT ![t] = "running"]
    /\ pending' = [pending EXCEPT ![t] = FALSE]
    /\ Runs(t, ticks[t])
    /\ UNCHANGED <<cast, serverVars, connVars, wireVars, ticks, stopped, stopping, audience>>
SelectWaits(t) ==
    /\ Running /\ mode[t] = "select" /\ ~stopped[t] /\ ~pending[t]
    /\ mode' = [mode EXCEPT ![t] = "parked"]
    /\ UNCHANGED <<cast, serverVars, task, connVars, wireVars, ticks, pending, stopped, stopping, audience>>
Select(t) == SelectStop(t) \/ SelectTick(t) \/ SelectWaits(t)

\* The function has returned.  An error ends every, not cron.
Returned(t) ==
    /\ Running /\ mode[t] = "running" /\ task[t] = <<>>
    /\ \E failed \in {FALSE, (t \in Failing)} :
         mode' = [mode EXCEPT ![t] = IF Kind[t] = "after" \/ (failed /\ Kind[t] = "every") THEN "ended" ELSE "select"]
    /\ UNCHANGED <<cast, serverVars, task, connVars, wireVars, ticks, pending, stopped, stopping, audience>>

\* The stop function looks at the channel, then closes it: a second close
\* panics.  A goroutine that waits for the channel has left select by then.
StopLooks(s) ==
    /\ Running /\ stopping[s] = "idle" /\ s \in cast.stops
    /\ stopping' = [stopping EXCEPT ![s] = IF stopped[s[2]] THEN "returned" ELSE "closing"]
    /\ UNCHANGED <<cast, serverVars, task, connVars, wireVars, mode, ticks, pending, stopped, audience>>
StopCloses(s) ==
    /\ Running /\ stopping[s] = "closing"
    /\ LET t == s[2]
       IN  /\ stopping' = [stopping EXCEPT ![s] = IF stopped[t] THEN "panicked" ELSE "returned"]
           /\ stopped' = [stopped EXCEPT ![t] = TRUE]
           /\ mode' = [mode EXCEPT ![t] = IF @ = "parked" THEN "ended" ELSE @]
    /\ UNCHANGED <<cast, serverVars, task, connVars, wireVars, ticks, pending, audience>>

-----------------------------------------------------------------------------
(* Other requests, and the end of the server: startServer. *)

Arrive(r) ==
    /\ r \in cast.requests /\ server = "serving" /\ request[r] = "none"
    /\ request' = [request EXCEPT ![r] = "running"]
    /\ UNCHANGED <<cast, server, late, task, connVars, wireVars, timerVars, audience>>
Answer(r) ==
    /\ Running /\ request[r] = "running"
    /\ request' = [request EXCEPT ![r] = "answered"]
    /\ UNCHANGED <<cast, server, late, task, connVars, wireVars, timerVars, audience>>

Signal ==
    /\ cast.signal /\ server = "serving"
    /\ server' = "draining"
    /\ UNCHANGED <<cast, late, request, task, connVars, wireVars, timerVars, audience>>
TenSeconds ==
    /\ server = "draining" /\ ~late
    /\ late' = TRUE
    /\ UNCHANGED <<cast, server, request, task, connVars, wireVars, timerVars, audience>>

\* Mutant: Shutdown waits for the WebSocket connections too, without a limit.
ExitAfterAll ==
    /\ server = "draining"
    /\ \A r \in Requests : request[r] # "running"
    /\ \A c \in Conns : handler[c] \in {"new", "done"}
    /\ server' = "exited"
    /\ UNCHANGED <<cast, late, request, task, connVars, wireVars, timerVars, audience>>

\* Shutdown waits for the requests it knows of: a connection that was hijacked
\* for a WebSocket is not among them, and ends with the process.
Exit ==
    /\ server = "draining"
    /\ late \/ \A r \in Requests : request[r] # "running"
    /\ server' = "exited"
    /\ UNCHANGED <<cast, late, request, task, connVars, wireVars, timerVars, audience>>

Next ==
    \/ \E g \in Goroutines : Step(g)
    \/ \E c \in Conns : Connect(c) \/ ClientSends(c) \/ ClientGoes(c)
    \/ \E c \in Conns : Subscribe(c) \/ Recv(c) \/ RecvNull(c) \/ Unsubscribe(c)
    \/ \E t \in Timers : Tick(t) \/ Select(t) \/ Returned(t)
    \/ \E s \in StopCalls : StopLooks(s) \/ StopCloses(s)
    \/ \E r \in Requests : Arrive(r) \/ Answer(r)
    \/ Signal \/ TenSeconds \/ Exit

\* Goroutines are scheduled, time passes, and a stop function that was called
\* goes on.  Nobody has to connect, to send, to read, to answer or to signal.
Fairness ==
    /\ \A g \in Goroutines : WF_vars(Step(g))
    /\ \A c \in Conns : WF_vars(Subscribe(c)) /\ WF_vars(Recv(c) \/ RecvNull(c)) /\ WF_vars(Unsubscribe(c))
    /\ \A t \in Timers : WF_vars(Tick(t)) /\ WF_vars(Select(t)) /\ WF_vars(Returned(t))
    /\ \A s \in StopCalls : WF_vars(StopCloses(s))
    /\ WF_vars(TenSeconds) /\ WF_vars(Exit)

Spec == Init /\ [][Next]_vars /\ Fairness

-----------------------------------------------------------------------------
(* Properties *)

\* The peer can parse what it gets, whoever writes at the same time: each header
\* is followed by its own payload (the end of the connection may cut the last
\* frame), and there is one close frame at most (websocket.go: writeFrame,
\* WriteClose).  A held writeMu has an owner, and the frame it writes is the first
\* of its steps: only the peer can keep it from letting go.
FramesWhole ==
    \A c \in Conns :
       /\ writer[c] # None =>
             /\ task[writer[c]] # <<>>
             /\ Head(task[writer[c]]).op \in {"header", "payload"} /\ Head(task[writer[c]]).to = c
       /\ \A k \in DOMAIN wire[c] :
             IF k % 2 = 1 THEN wire[c][k].op = "header"
             ELSE wire[c][k] = Payload(c, wire[c][k - 1].frame)
       /\ Cardinality({ k \in DOMAIN wire[c] : k % 2 = 1 /\ wire[c][k].frame = CloseFrame }) <= 1

\* The messages that have reached a client whole, by their places on the wire.
Arrived(c) == {k \in DOMAIN wire[c] : k % 2 = 0 /\ IsMessage(wire[c][k].frame)}

\* g has not come to c yet with a message, or is not through with it.
Owes(g, c, m) == \E k \in DOMAIN task[g] : task[g][k] \in {Send(c, m), Header(c, m), Payload(c, m)}

\* What publish promises (builtins.go, pubsub): every subscriber of the moment
\* gets the message once, whatever the others do, leave or close meanwhile; only
\* the end of its own connection excuses.  Nobody else gets it.  Each publisher's
\* messages arrive in their order, and a message joins the fragments between two
\* whole ones (ReadMessage), never those of another.
Delivered ==
    /\ \A a \in audience : \A c \in a.subs :
          \/ \E k \in Arrived(c) : wire[c][k].frame = a.msg
          \/ tcp[c] # "open"
          \/ Owes(a.msg.from, c, a.msg)
    /\ \A c \in Conns : \A k \in Arrived(c) :
          \E a \in audience : a.msg = wire[c][k].frame /\ c \in a.subs
    /\ \A c \in Conns : \A j, k \in Arrived(c) :
          /\ wire[c][j].frame = wire[c][k].frame => j = k
          /\ j < k /\ wire[c][j].frame.from = wire[c][k].frame.from
               => Follows(wire[c][j].frame, wire[c][k].frame)

\* g writes to a peer that does not read, or waits for one that does.
Stuck(g) == task[g] # <<>> /\ Head(task[g]).op \in {"send", "header", "payload"} /\ Full(Head(task[g]).to)

\* Everything comes to its end, but for what waits for ever on a peer that is there
\* and does not read: such a peer keeps those that write to it and nobody else.  A
\* timer that was stopped runs no more: its goroutine ends, though select may take a
\* tick that was there.  A connection that ends lets its handler return, and is a
\* subscriber no longer.  A signal ends the process, whatever its connections,
\* timers and peers do.
Ends ==
    /\ \A t \in Timers : []<>~Stuck(t) => (stopped[t] ~> (mode[t] = "ended" \/ ~Running))
    /\ \A c \in Conns : []<>~Stuck(c) =>
          ((handler[c] # "new" /\ tcp[c] # "open") ~> (handler[c] = "done" /\ c \notin subs) \/ ~Running)
    /\ server = "draining" ~> server = "exited"
=============================================================================
