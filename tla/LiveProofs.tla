----------------------------- MODULE LiveProofs -----------------------------
(***************************************************************************)
(* Proofs about Live, for any number of connections and timers, whatever   *)
(* the clients send and the timers' functions do.                          *)
(***************************************************************************)
EXTENDS Live, FiniteSetTheorems, SequenceTheorems, TLAPS

Published == [from : Goroutines, data : Seq(Int)]
Written   == Published \cup {CloseFrame, Pong}
Pieces    == { Header(c, f) : c \in Conns, f \in Written } \cup { Payload(c, f) : c \in Conns, f \in Written }
Calm      == { Publish(m) : m \in Published } \cup { Send(c, f) : c \in Conns, f \in Written }
             \cup { Close(c) : c \in Conns } \cup { HangUp(c) : c \in Conns }
Steps     == Calm \cup Pieces

Types ==
    /\ cast \in Casts
    /\ task \in [Goroutines -> Seq(Steps)] /\ wire \in [Conns -> Seq(Pieces)]
    /\ writer \in [Conns -> Goroutines \cup {None}]
    /\ tcp \in [Conns -> {"open", "closed", "gone"}] /\ closed \in [Conns -> BOOLEAN]
    /\ handler \in [Conns -> {"new", "open", "recv", "ending", "done"}]
    /\ subs \subseteq Conns /\ IsFiniteSet(subs)
    /\ inbox \in [Conns -> Seq(Frames)] /\ sent \in [Conns -> Nat] /\ payload \in [Conns -> Seq(Int)]
    /\ mode \in [Timers -> {"select", "parked", "running", "ended"}]
    /\ ticks \in [Timers -> Nat] /\ pending \in [Timers -> BOOLEAN]

\* A timer's goroutine has something to do only while its function runs.
Timed ==
    \A t \in Timers :
       /\ mode[t] # "running" => task[t] = <<>>
       /\ ticks[t] <= cast.ticks[t] /\ (pending[t] => ticks[t] > 0)

\* Nothing comes before the frame a goroutine is writing.
InWriting(q) ==
    /\ \A k \in DOMAIN q :
          /\ q[k].op = "header" => k = 1
          /\ q[k].op = "payload" => k = 1 \/ (k = 2 /\ q[1].op = "header")
    /\ q # <<>> /\ q[1].op = "header" => Len(q) > 1 /\ q[2] = Payload(q[1].to, q[1].frame)

Writes(g, c) == task[g] # <<>> /\ task[g][1].op \in {"header", "payload"} /\ task[g][1].to = c

\* The wire ends within a frame when its payload is what the writer does next,
\* or when the connection has ended.
Framed(c) ==
    /\ \A k \in DOMAIN wire[c] :
          IF k % 2 = 1 THEN wire[c][k] = Header(c, wire[c][k].frame)
          ELSE wire[c][k] = Payload(c, wire[c][k - 1].frame)
    /\ handler[c] = "new" => wire[c] = <<>> /\ tcp[c] # "open"
                               /\ \A g \in Goroutines : Writes(g, c) => task[g][1].op = "header"
    /\ tcp[c] = "open" =>
         \A g \in Goroutines : Writes(g, c) =>
             IF Len(wire[c]) % 2 = 0 THEN task[g][1].op = "header"
             ELSE task[g][1] = Payload(c, wire[c][Len(wire[c])].frame)
    /\ tcp[c] = "open" /\ Len(wire[c]) % 2 = 1 => writer[c] # None

\* A close frame that is still to be sent, or whose header is.
Closes(step, c) == step \in {Send(c, CloseFrame), Header(c, CloseFrame)}
OneCloses(q, c) == \A k, j \in DOMAIN q : Closes(q[k], c) /\ Closes(q[j], c) => k = j
NoneCloses(q, c) == \A k \in DOMAIN q : ~Closes(q[k], c)
ClosesOnce(c) ==
    /\ \A g, h \in Goroutines : \A k \in DOMAIN task[g], j \in DOMAIN task[h] :
          Closes(task[g][k], c) /\ Closes(task[h][j], c) => g = h /\ k = j
    /\ \A k, j \in DOMAIN wire[c] : Closes(wire[c][k], c) /\ Closes(wire[c][j], c) => k = j
    /\ \A g \in Goroutines : \A k \in DOMAIN task[g], j \in DOMAIN wire[c] :
          ~(Closes(task[g][k], c) /\ Closes(wire[c][j], c))
    /\ ~closed[c] => /\ \A g \in Goroutines : \A k \in DOMAIN task[g] : ~Closes(task[g][k], c)
                     /\ \A j \in DOMAIN wire[c] : ~Closes(wire[c][j], c)

Whole ==
    /\ \A g \in Goroutines : InWriting(task[g])
    /\ \A c \in Conns : \A g \in Goroutines : writer[c] = g <=> Writes(g, c)
    /\ \A c \in Conns : Framed(c)
Once == \A c \in Conns : ClosesOnce(c)

IInv == Types /\ Timed /\ Whole /\ Once


-----------------------------------------------------------------------------
(* Steps and their sequences *)

LEMMA Parity ==
  ASSUME NEW n \in Nat
  PROVE  (n % 2 = 0 \/ n % 2 = 1) /\ (n % 2 = 0 <=> n % 2 # 1) /\ ((n + 1) % 2 = 1 <=> n % 2 = 0) /\ ((n + 1) % 2 = 0 <=> n % 2 = 1)
OBVIOUS

LEMMA PublishFields == ASSUME NEW m PROVE Publish(m).op = "publish" /\ Publish(m).msg = m
BY DEF Publish

LEMMA ConnFields ==
  ASSUME NEW c PROVE Close(c).op = "close" /\ Close(c).to = c /\ HangUp(c).op = "hang up" /\ HangUp(c).to = c
BY DEF Close, HangUp

LEMMA FrameFields ==
  ASSUME NEW c, NEW f
  PROVE  /\ Send(c, f).op = "send" /\ Send(c, f).to = c /\ Send(c, f).frame = f
         /\ Header(c, f).op = "header" /\ Header(c, f).to = c /\ Header(c, f).frame = f
         /\ Payload(c, f).op = "payload" /\ Payload(c, f).to = c /\ Payload(c, f).frame = f
BY DEF Send, Header, Payload

LEMMA StepCases ==
  ASSUME NEW s \in Steps
  PROVE  /\ s.op = "publish" => s.msg \in Published
         /\ s.op \in {"send", "header", "payload"} => s.to \in Conns /\ s.frame \in Written
         /\ s.op \in {"close", "hang up"} => s.to \in Conns
         /\ s.op = "send" => s = Send(s.to, s.frame)
         /\ s.op = "header" => s = Header(s.to, s.frame)
         /\ s.op = "payload" => s = Payload(s.to, s.frame)
         /\ s \in Pieces <=> s.op \in {"header", "payload"}
         /\ s \in Calm <=> s.op \notin {"header", "payload"}
         /\ \A c \in Conns : Closes(s, c) <=> s.op \in {"send", "header"} /\ s.to = c /\ s.frame = CloseFrame
<1>1. ASSUME NEW m \in Published, s = Publish(m)
      PROVE  s.op = "publish" /\ s.msg = m
  BY <1>1, PublishFields
<1>2. ASSUME NEW c \in Conns, NEW f \in Written, s = Send(c, f)
      PROVE  s.op = "send" /\ s.to = c /\ s.frame = f
  BY <1>2 DEF Send
<1>3. ASSUME NEW c \in Conns, NEW f \in Written, s = Header(c, f)
      PROVE  s.op = "header" /\ s.to = c /\ s.frame = f
  BY <1>3 DEF Header
<1>4. ASSUME NEW c \in Conns, NEW f \in Written, s = Payload(c, f)
      PROVE  s.op = "payload" /\ s.to = c /\ s.frame = f
  BY <1>4 DEF Payload
<1>5. ASSUME NEW c \in Conns, s = Close(c)
      PROVE  s.op = "close" /\ s.to = c
  BY <1>5, ConnFields
<1>6. ASSUME NEW c \in Conns, s = HangUp(c)
      PROVE  s.op = "hang up" /\ s.to = c
  BY <1>6, ConnFields
<1>7. ASSUME s \in Calm
      PROVE  \/ \E m \in Published : s = Publish(m)
             \/ \E c \in Conns, f \in Written : s = Send(c, f)
             \/ \E c \in Conns : s = Close(c)
             \/ \E c \in Conns : s = HangUp(c)
  <2>1. CASE s \in {Publish(m) : m \in Published}
    BY <2>1
  <2>2. CASE s \in {Send(c, f) : c \in Conns, f \in Written}
    BY <2>2
  <2>3. CASE s \in {Close(c) : c \in Conns}
    BY <2>3
  <2>4. CASE s \in {HangUp(c) : c \in Conns}
    BY <2>4
  <2> QED
    BY <1>7, <2>1, <2>2, <2>3, <2>4 DEF Calm
<1>8. s \in Pieces => \/ \E c \in Conns, f \in Written : s = Header(c, f)
                     \/ \E c \in Conns, f \in Written : s = Payload(c, f)
  BY DEF Pieces
<1>9. s \in Calm \/ s \in Pieces
  BY DEF Steps
<1>10. s \in Calm => s.op \in {"publish", "send", "close", "hang up"}
  BY <1>1, <1>2, <1>5, <1>6, <1>7
<1>11. s \in Pieces => s.op \in {"header", "payload"}
  BY <1>3, <1>4, <1>8
<1>12. s.op = "publish" => s.msg \in Published
  BY <1>1, <1>2, <1>5, <1>6, <1>7, <1>9, <1>11
<1>13. s.op = "send" => s = Send(s.to, s.frame) /\ s.to \in Conns /\ s.frame \in Written
  BY <1>1, <1>2, <1>5, <1>6, <1>7, <1>9, <1>11
<1>14. s.op = "header" => s = Header(s.to, s.frame) /\ s.to \in Conns /\ s.frame \in Written
  BY <1>3, <1>4, <1>8, <1>9, <1>10
<1>15. s.op = "payload" => s = Payload(s.to, s.frame) /\ s.to \in Conns /\ s.frame \in Written
  BY <1>3, <1>4, <1>8, <1>9, <1>10
<1>16. s.op \in {"close", "hang up"} => s.to \in Conns
  BY <1>1, <1>2, <1>5, <1>6, <1>7, <1>9, <1>11
<1>17. \A c \in Conns : Closes(s, c) <=> s.op \in {"send", "header"} /\ s.to = c /\ s.frame = CloseFrame
  <2> TAKE c \in Conns
  <2>1. Closes(s, c) => s.op \in {"send", "header"} /\ s.to = c /\ s.frame = CloseFrame
    <3>1. CASE s = Send(c, CloseFrame)
      BY <3>1 DEF Send
    <3>2. CASE s = Header(c, CloseFrame)
      BY <3>2 DEF Header
    <3> QED
      BY <3>1, <3>2 DEF Closes
  <2>2. s.op \in {"send", "header"} /\ s.to = c /\ s.frame = CloseFrame => Closes(s, c)
    BY <1>13, <1>14 DEF Closes
  <2> QED
    BY <2>1, <2>2
<1> QED
  BY <1>9, <1>10, <1>11, <1>12, <1>13, <1>14, <1>15, <1>16, <1>17

LEMMA MadeFrames ==
  ASSUME NEW c \in Conns, NEW f \in Written
  PROVE  Send(c, f) \in Steps /\ Header(c, f) \in Pieces /\ Payload(c, f) \in Pieces
BY DEF Calm, Pieces, Steps

LEMMA MadeCloses == ASSUME NEW c \in Conns PROVE Close(c) \in Steps /\ HangUp(c) \in Steps
BY DEF Calm, Steps

LEMMA MessageFrames ==
  ASSUME NEW m \in Published
  PROVE  Publish(m) \in Steps /\ m \in Written /\ m # CloseFrame
<1>1. m.from # "close"
  BY LiveAssumption DEF Published
<1> QED
  BY <1>1 DEF Steps, Calm, Written, CloseFrame, Message

\* A goroutine's next step makes room for others.
LEMMA Spliced ==
  ASSUME NEW old \in Seq(Steps), old # <<>>, NEW steps \in Seq(Steps), NEW q, q = steps \o Tail(old)
  PROVE  /\ q \in Seq(Steps)
         /\ \A k \in DOMAIN q :
               \/ k \in 1 .. Len(steps) /\ q[k] = steps[k]
               \/ k > Len(steps) /\ k - Len(steps) + 1 \in 2 .. Len(old) /\ q[k] = old[k - Len(steps) + 1]
<1>1. /\ Tail(old) \in Seq(Steps) /\ Len(Tail(old)) = Len(old) - 1
      /\ \A k \in 1 .. Len(old) - 1 : Tail(old)[k] = old[k + 1]
  OBVIOUS
<1> DEFINE rest == Tail(old)
<1> HIDE DEF rest
<1>2. /\ q \in Seq(Steps) /\ Len(q) = Len(steps) + Len(rest) /\ DOMAIN q = 1 .. Len(steps) + Len(rest)
      /\ \A k \in 1 .. Len(q) : q[k] = IF k <= Len(steps) THEN steps[k] ELSE rest[k - Len(steps)]
  BY <1>1, ConcatProperties DEF rest
<1> QED
  BY <1>1, <1>2 DEF rest


-----------------------------------------------------------------------------
(* What a step leaves as it is *)

\* Nothing is written, and only a new connection opens.
LEMMA Quiet ==
  ASSUME Types, Whole, Once, UNCHANGED <<task, wire, writer, closed>>,
         \A c \in Conns : /\ tcp'[c] = "open" => tcp[c] = "open" \/ handler[c] = "new"
                          /\ handler'[c] = "new" => handler[c] = "new" /\ tcp'[c] = tcp[c]
  PROVE  Whole' /\ Once'
<1>1. \A g \in Goroutines, c \in Conns : Writes(g, c)' <=> Writes(g, c)
  BY DEF Writes
<1>2. ASSUME NEW c \in Conns PROVE Framed(c)'
  <2>1. Framed(c) /\ wire'[c] = wire[c] /\ writer'[c] = writer[c]
    BY DEF Whole
  <2>2. \A k \in DOMAIN wire'[c] :
          IF k % 2 = 1 THEN wire'[c][k] = Header(c, wire'[c][k].frame)
          ELSE wire'[c][k] = Payload(c, wire'[c][k - 1].frame)
    BY <2>1 DEF Framed
  <2>3. handler'[c] = "new" => wire'[c] = <<>> /\ tcp'[c] # "open"
                               /\ \A g \in Goroutines : Writes(g, c)' => task'[g][1].op = "header"
    BY <1>1, <2>1 DEF Framed
  <2>4. CASE tcp[c] = "open"
    BY <1>1, <2>1, <2>2, <2>3, <2>4 DEF Framed
  <2>5. CASE tcp[c] # "open" /\ handler[c] = "new"
    <3>1. wire[c] = <<>> /\ \A g \in Goroutines : Writes(g, c) => task[g][1].op = "header"
      BY <2>1, <2>5 DEF Framed
    <3>2. Len(wire[c]) % 2 = 0
      BY <3>1
    <3> QED
      BY <1>1, <2>1, <2>2, <2>3, <3>1, <3>2 DEF Framed
  <2>6. CASE tcp[c] # "open" /\ handler[c] # "new"
    <3>1. tcp'[c] # "open"
      BY <2>6
    <3> QED
      BY <2>2, <2>3, <3>1 DEF Framed
  <2> QED
    BY <2>4, <2>5, <2>6
<1>3. ASSUME NEW c \in Conns PROVE ClosesOnce(c)'
  BY DEF Once, ClosesOnce
<1> QED
  BY <1>1, <1>2, <1>3 DEF Whole, Once

\* A goroutine that writes no frame goes on to something else that is none.
LEMMA Rewrites ==
  ASSUME Types, Whole, NEW g \in Goroutines, NEW q \in Seq(Steps),
         task' = [task EXCEPT ![g] = q], UNCHANGED <<wire, writer>>,
         task[g] = <<>> \/ task[g][1].op \notin {"header", "payload"},
         \A k \in DOMAIN q : q[k].op \notin {"header", "payload"},
         \A c \in Conns : /\ tcp'[c] = "open" => tcp[c] = "open"
                          /\ handler'[c] = "new" => handler[c] = "new"
  PROVE  Whole'
<1>1. task \in [Goroutines -> Seq(Steps)] /\ task'[g] = q /\ \A h \in Goroutines \ {g} : task'[h] = task[h]
  BY DEF Types
<1>2. InWriting(q)
  BY DEF InWriting
<1>3. q # <<>> => 1 \in DOMAIN q
  OBVIOUS
<1>4. \A h \in Goroutines, c \in Conns : Writes(h, c)' <=> Writes(h, c)
  BY <1>1, <1>3 DEF Writes
<1>5. \A h \in Goroutines, c \in Conns : Writes(h, c) => task'[h] = task[h]
  BY <1>1 DEF Writes
<1>6. ASSUME NEW c \in Conns PROVE Framed(c)'
  <2>1. Framed(c) /\ wire'[c] = wire[c] /\ writer'[c] = writer[c]
    BY DEF Whole
  <2>2. \A k \in DOMAIN wire'[c] :
          IF k % 2 = 1 THEN wire'[c][k] = Header(c, wire'[c][k].frame)
          ELSE wire'[c][k] = Payload(c, wire'[c][k - 1].frame)
    BY <2>1 DEF Framed
  <2>3. handler'[c] = "new" => wire'[c] = <<>> /\ tcp'[c] # "open"
                               /\ \A h \in Goroutines : Writes(h, c)' => task'[h][1].op = "header"
    BY <1>4, <1>5, <2>1 DEF Framed
  <2>4. ASSUME tcp'[c] = "open"
        PROVE  /\ \A h \in Goroutines : Writes(h, c)' =>
                    IF Len(wire'[c]) % 2 = 0 THEN task'[h][1].op = "header"
                    ELSE task'[h][1] = Payload(c, wire'[c][Len(wire'[c])].frame)
               /\ Len(wire'[c]) % 2 = 1 => writer'[c] # None
    BY <1>4, <1>5, <2>1, <2>4 DEF Framed
  <2> QED
    BY <2>2, <2>3, <2>4 DEF Framed
<1> QED
  BY <1>1, <1>2, <1>4, <1>6 DEF Whole

\* No close frame to c is added.
LEMMA ClosesKept ==
  ASSUME Types, NEW g \in Goroutines, NEW q \in Seq(Steps), task' = [task EXCEPT ![g] = q],
         NEW c \in Conns, ClosesOnce(c), OneCloses(q, c), NoneCloses(task[g], c) => NoneCloses(q, c),
         \A j \in DOMAIN wire'[c] : Closes(wire'[c][j], c) => j \in DOMAIN wire[c] /\ Closes(wire[c][j], c),
         closed[c] => closed'[c]
  PROVE  ClosesOnce(c)'
<1>1. task'[g] = q /\ \A h \in Goroutines \ {g} : task'[h] = task[h]
  BY DEF Types
<1>2. ClosesOnce(c)
  OBVIOUS
<1>3. \A h \in Goroutines : \A k \in DOMAIN task'[h] : Closes(task'[h][k], c) => \E j \in DOMAIN task[h] : Closes(task[h][j], c)
  BY <1>1 DEF NoneCloses
<1>4. ASSUME NEW h \in Goroutines, NEW i \in Goroutines, NEW k \in DOMAIN task'[h], NEW j \in DOMAIN task'[i],
             Closes(task'[h][k], c), Closes(task'[i][j], c)
      PROVE  h = i /\ k = j
  <2>1. h = i
    BY <1>2, <1>3, <1>4 DEF ClosesOnce
  <2>2. CASE h = g
    BY <1>1, <1>4, <2>1, <2>2 DEF OneCloses
  <2>3. CASE h # g
    BY <1>1, <1>2, <1>4, <2>1, <2>3 DEF ClosesOnce
  <2> QED
    BY <2>1, <2>2, <2>3
<1>5. \A k, j \in DOMAIN wire'[c] : Closes(wire'[c][k], c) /\ Closes(wire'[c][j], c) => k = j
  BY <1>2 DEF ClosesOnce
<1>6. \A h \in Goroutines : \A k \in DOMAIN task'[h], j \in DOMAIN wire'[c] : ~(Closes(task'[h][k], c) /\ Closes(wire'[c][j], c))
  BY <1>2, <1>3 DEF ClosesOnce
<1>7. ~closed'[c] => /\ \A h \in Goroutines : \A k \in DOMAIN task'[h] : ~Closes(task'[h][k], c)
                     /\ \A j \in DOMAIN wire'[c] : ~Closes(wire'[c][j], c)
  BY <1>2, <1>3 DEF ClosesOnce
<1> QED
  BY <1>4, <1>5, <1>6, <1>7 DEF ClosesOnce


-----------------------------------------------------------------------------
(* The steps of a goroutine *)

LEMMA Doer ==
  ASSUME Types, NEW g \in Goroutines, NEW op, Doing(g, op)
  PROVE  /\ task[g] \in Seq(Steps) /\ task[g] # <<>> /\ 1 \in DOMAIN task[g]
         /\ task[g][1] = Head(task[g]) /\ task[g][1] \in Steps /\ task[g][1].op = op
BY DEF Types, Doing

\* A goroutine that has something to do is none of a timer that waits.
LEMMA StepTimed ==
  ASSUME Types, Timed, NEW g \in Goroutines, NEW q, task[g] # <<>>,
         task' = [task EXCEPT ![g] = q], UNCHANGED <<cast, mode, ticks, pending>>
  PROVE  Timed'
<1>1. \A t \in Timers : t \in Goroutines
  BY DEF Goroutines
<1>2. \A t \in Timers : mode[t] # "running" => task'[t] = <<>>
  BY <1>1 DEF Timed, Types
<1> QED
  BY <1>2 DEF Timed

\* Steps of which none closes, in the place of the first: no close frame is added.
LEMMA CloseNothing ==
  ASSUME NEW old \in Seq(Steps), old # <<>>, NEW steps \in Seq(Steps), NEW q, q = steps \o Tail(old),
         NEW c \in Conns, OneCloses(old, c), NoneCloses(steps, c)
  PROVE  OneCloses(q, c) /\ (NoneCloses(old, c) => NoneCloses(q, c))
<1> DEFINE n == Len(steps)
<1>1. n \in Nat /\ DOMAIN steps = 1 .. n /\ Len(old) \in Nat /\ DOMAIN old = 1 .. Len(old)
  OBVIOUS
<1>2. q \in Seq(Steps) /\ DOMAIN q = 1 .. Len(q) /\ Len(q) \in Nat
  BY Spliced
<1>3. \A k \in DOMAIN q : \/ k \in 1 .. n /\ q[k] = steps[k]
                          \/ k > n /\ k - n + 1 \in 2 .. Len(old) /\ q[k] = old[k - n + 1]
  BY Spliced
<1>4. \A k \in DOMAIN q : Closes(q[k], c) => k - n + 1 \in DOMAIN old /\ Closes(old[k - n + 1], c)
  BY <1>1, <1>3 DEF NoneCloses
<1> HIDE DEF n
<1>5. ASSUME NEW k \in DOMAIN q, NEW j \in DOMAIN q, Closes(q[k], c), Closes(q[j], c) PROVE k = j
  <2>1. k - n + 1 = j - n + 1
    BY <1>4, <1>5 DEF OneCloses
  <2>2. k \in Int /\ j \in Int
    BY <1>2
  <2> QED
    BY <1>1, <2>1, <2>2
<1> QED
  BY <1>4, <1>5 DEF OneCloses, NoneCloses

\* The first step, which is no part of a frame, makes room for steps that are none
\* and close nothing.
LEMMA Calms ==
  ASSUME Types, Timed, Whole, Once, NEW g \in Goroutines, task[g] # <<>>,
         task[g][1].op \notin {"header", "payload"},
         NEW steps \in Seq(Steps), Replace(g, steps), UNCHANGED <<cast, mode, ticks, pending, handler, wire, writer, closed>>,
         \A k \in DOMAIN steps : steps[k].op \notin {"header", "payload"} /\ \A c \in Conns : ~Closes(steps[k], c),
         \A c \in Conns : tcp'[c] = "open" => tcp[c] = "open"
  PROVE  Timed' /\ Whole' /\ Once' /\ task' \in [Goroutines -> Seq(Steps)]
<1>1. task \in [Goroutines -> Seq(Steps)] /\ task[g] \in Seq(Steps)
  BY DEF Types
<1> DEFINE q == steps \o Tail(task[g])
<1>2. task' = [task EXCEPT ![g] = q]
  BY <1>1 DEF Replace
<1>3. /\ q \in Seq(Steps)
      /\ \A k \in DOMAIN q :
            \/ k \in 1 .. Len(steps) /\ q[k] = steps[k]
            \/ k > Len(steps) /\ k - Len(steps) + 1 \in 2 .. Len(task[g]) /\ q[k] = task[g][k - Len(steps) + 1]
  BY <1>1, Spliced
<1>4. \A k \in 2 .. Len(task[g]) : task[g][k].op \notin {"header", "payload"}
  BY <1>1 DEF Whole, InWriting
<1>5. \A k \in DOMAIN q : q[k].op \notin {"header", "payload"}
  BY <1>3, <1>4
<1>6. ASSUME NEW c \in Conns
      PROVE  OneCloses(q, c) /\ (NoneCloses(task[g], c) => NoneCloses(q, c))
  <2>1. OneCloses(task[g], c)
    BY DEF Once, ClosesOnce, OneCloses
  <2>2. NoneCloses(steps, c)
    BY DEF NoneCloses
  <2> QED
    BY <1>1, <2>1, <2>2, CloseNothing
<1> HIDE DEF q
<1>7. Timed'
  BY <1>2, StepTimed
<1>8. Whole'
  BY <1>2, <1>3, <1>5, Rewrites
<1>9. Once'
  <2> SUFFICES ASSUME NEW c \in Conns PROVE ClosesOnce(c)'
    BY DEF Once
  <2>1. ClosesOnce(c) /\ wire'[c] = wire[c] /\ closed'[c] = closed[c]
    BY DEF Once
  <2> QED
    BY <1>2, <1>3, <1>6, <2>1, ClosesKept
<1> QED
  BY <1>1, <1>2, <1>3, <1>7, <1>8, <1>9


LEMMA TypesStep ==
  ASSUME Types, task' \in [Goroutines -> Seq(Steps)], wire' \in [Conns -> Seq(Pieces)],
         writer' \in [Conns -> Goroutines \cup {None}], tcp' \in [Conns -> {"open", "closed", "gone"}],
         closed' \in [Conns -> BOOLEAN], UNCHANGED <<cast, connVars, timerVars>>
  PROVE  Types'
BY DEF Types, connVars, timerVars

LEMMA StepPublish == ASSUME IInv, NEW g \in Goroutines, DoPublish(g) PROVE IInv'
<1>1. Types /\ Timed /\ Whole /\ Once
  BY DEF IInv
<1> DEFINE m == task[g][1].msg
<1>2. /\ task[g] \in Seq(Steps) /\ task[g] # <<>> /\ Head(task[g]) = task[g][1]
      /\ task[g][1] \in Steps /\ task[g][1].op = "publish"
  BY <1>1, Doer DEF DoPublish
<1>3. m \in Published
  BY <1>2, StepCases
<1>4. PICK order \in SetToSeqs(subs) : Replace(g, [k \in DOMAIN order |-> Send(order[k], m)])
  BY <1>2 DEF DoPublish
<1> DEFINE steps == [k \in DOMAIN order |-> Send(order[k], m)]
<1>5. UNCHANGED <<cast, connVars, wireVars, timerVars>>
  BY DEF DoPublish
<1>6. /\ steps \in Seq(Steps)
      /\ \A k \in DOMAIN steps : steps[k].op = "send" /\ \A c \in Conns : ~Closes(steps[k], c)
  <2> DEFINE n == Cardinality(subs)
  <2>1. n \in Nat
    BY <1>1, FS_CardinalityType DEF Types
  <2> HIDE DEF n, m
  <2>2. order \in [1 .. n -> subs] /\ subs \subseteq Conns
    BY <1>1 DEF SetToSeqs, n, Types
  <2>3. m \in Written /\ m # CloseFrame
    BY <1>3, MessageFrames
  <2>4. ASSUME NEW c \in Conns
        PROVE  Send(c, m) \in Steps /\ Send(c, m).op = "send" /\ \A o \in Conns : ~Closes(Send(c, m), o)
    <3>1. Send(c, m) \in Steps /\ Send(c, m).op = "send" /\ Send(c, m).frame # CloseFrame
      BY <2>3, MadeFrames, FrameFields
    <3> QED
      BY <3>1, StepCases
  <2>5. DOMAIN steps = 1 .. n /\ \A k \in 1 .. n : steps[k] = Send(order[k], m) /\ order[k] \in Conns
    BY <2>2
  <2>6. steps = [k \in 1 .. n |-> Send(order[k], m)]
    BY <2>2
  <2>7. steps \in [1 .. n -> Steps]
    BY <2>4, <2>5, <2>6
  <2>8. steps \in Seq(Steps)
    BY <2>1, <2>7
  <2> QED
    BY <2>4, <2>5, <2>8
<1> HIDE DEF m
<1>7. Replace(g, steps)
  BY <1>4
<1> HIDE DEF steps
<1>8. UNCHANGED <<mode, ticks, pending, handler, wire, writer, closed, tcp>>
  BY <1>5 DEF connVars, wireVars, timerVars
<1>9. Timed' /\ Whole' /\ Once' /\ task' \in [Goroutines -> Seq(Steps)]
  BY <1>1, <1>2, <1>5, <1>6, <1>7, <1>8, Calms
<1>10. Types'
  BY <1>1, <1>5, <1>9, TypesStep DEF wireVars, Types
<1> QED
  BY <1>9, <1>10 DEF IInv

LEMMA StepHangUp == ASSUME IInv, NEW g \in Goroutines, DoHangUp(g) PROVE IInv'
<1>1. Types /\ Timed /\ Whole /\ Once
  BY DEF IInv
<1>2. /\ task[g] \in Seq(Steps) /\ task[g] # <<>> /\ Head(task[g]) = task[g][1]
      /\ task[g][1] \in Steps /\ task[g][1].op = "hang up"
  BY <1>1, Doer DEF DoHangUp
<1>3. /\ tcp' = [tcp EXCEPT ![task[g][1].to] = "closed"] /\ Replace(g, <<>>)
      /\ UNCHANGED <<cast, connVars, timerVars, closed, writer, wire>>
  BY <1>2 DEF DoHangUp
<1>4. <<>> \in Seq(Steps) /\ DOMAIN <<>> = {}
  OBVIOUS
<1>5. UNCHANGED <<mode, ticks, pending, handler>>
  BY <1>3 DEF connVars, timerVars
<1>6. tcp' \in [Conns -> {"open", "closed", "gone"}] /\ \A c \in Conns : tcp'[c] = "open" => tcp[c] = "open"
  BY <1>1, <1>3 DEF Types
<1>7. Timed' /\ Whole' /\ Once' /\ task' \in [Goroutines -> Seq(Steps)]
  BY <1>1, <1>2, <1>3, <1>4, <1>5, <1>6, Calms
<1>8. Types'
  BY <1>1, <1>3, <1>6, <1>7, TypesStep DEF Types
<1> QED
  BY <1>7, <1>8 DEF IInv

\* The first caller adds a close frame: there was none.
LEMMA StepClose == ASSUME IInv, NEW g \in Goroutines, DoClose(g) PROVE IInv'
<1>1. Types /\ Timed /\ Whole /\ Once
  BY DEF IInv
<1> DEFINE c == task[g][1].to
<1>2. /\ task[g] \in Seq(Steps) /\ task[g] # <<>> /\ Head(task[g]) = task[g][1]
      /\ task[g][1] \in Steps /\ task[g][1].op = "close"
  BY <1>1, Doer DEF DoClose
<1>3. c \in Conns
  BY <1>2, StepCases
<1>4. /\ Replace(g, IF closed[c] THEN <<>> ELSE <<Send(c, CloseFrame), HangUp(c)>>)
      /\ closed' = [closed EXCEPT ![c] = TRUE]
      /\ UNCHANGED <<cast, connVars, timerVars, tcp, writer, wire>>
  BY <1>2 DEF DoClose
<1> HIDE DEF c
<1>5. UNCHANGED <<mode, ticks, pending, handler>> /\ closed' \in [Conns -> BOOLEAN]
  BY <1>1, <1>4 DEF connVars, timerVars, Types
<1>6. CASE closed[c]
  <2>1. <<>> \in Seq(Steps) /\ DOMAIN <<>> = {} /\ Replace(g, <<>>) /\ closed' = closed
    BY <1>1, <1>4, <1>6 DEF Types
  <2>2. Timed' /\ Whole' /\ Once' /\ task' \in [Goroutines -> Seq(Steps)]
    BY <1>1, <1>2, <1>4, <1>5, <2>1, Calms
  <2>3. Types'
    BY <1>1, <1>4, <1>5, <2>2, TypesStep DEF Types
  <2> QED
    BY <2>2, <2>3 DEF IInv
<1>7. CASE ~closed[c]
  <2> DEFINE s == Send(c, CloseFrame)
             h == HangUp(c)
             steps == <<s, h>>
             q == steps \o Tail(task[g])
  <2>1. /\ s \in Steps /\ s.op = "send" /\ s.to = c /\ h \in Steps /\ h.op = "hang up"
    <3>1. CloseFrame \in Written
      BY DEF Written
    <3>2. s \in Steps /\ s.op = "send" /\ s.to = c
      BY <1>3, <3>1, MadeFrames, FrameFields
    <3>3. h \in Steps /\ h.op = "hang up"
      BY <1>3, MadeCloses, ConnFields
    <3> QED
      BY <3>2, <3>3
  <2>2. \A o \in Conns : Closes(s, o) => o = c
    BY <2>1, StepCases
  <2>3. \A o \in Conns : ~Closes(h, o)
    BY <2>1, StepCases
  <2> HIDE DEF s, h
  <2>4. steps \in Seq(Steps) /\ Len(steps) = 2 /\ steps[1] = s /\ steps[2] = h
    <3>1. s \in Steps /\ h \in Steps
      BY <2>1
    <3> QED
      BY <3>1
  <2> HIDE DEF steps
  <2>5. Replace(g, steps)
    BY <1>4, <1>7 DEF steps, s, h
  <2>6. task \in [Goroutines -> Seq(Steps)] /\ task' = [task EXCEPT ![g] = q]
    BY <1>1, <2>5 DEF Replace, Types
  <2>7. /\ q \in Seq(Steps)
        /\ \A k \in DOMAIN q :
              \/ k \in 1 .. 2 /\ q[k] = steps[k]
              \/ k > 2 /\ k - 1 \in 2 .. Len(task[g]) /\ q[k] = task[g][k - 1]
    <3>1. /\ q \in Seq(Steps)
          /\ \A k \in DOMAIN q :
                \/ k \in 1 .. Len(steps) /\ q[k] = steps[k]
                \/ k > Len(steps) /\ k - Len(steps) + 1 \in 2 .. Len(task[g]) /\ q[k] = task[g][k - Len(steps) + 1]
      BY <1>2, <2>4, Spliced
    <3> QED
      BY <2>4, <3>1
  <2> HIDE DEF q
  <2>8. \A k \in 2 .. Len(task[g]) : task[g][k].op \notin {"header", "payload"}
    BY <1>1, <1>2 DEF Whole, InWriting
  <2>9. \A k \in DOMAIN q : q[k].op \notin {"header", "payload"}
    <3>1. \A k \in 1 .. 2 : k = 1 \/ k = 2
      OBVIOUS
    <3>2. \A k \in 1 .. 2 : steps[k].op \notin {"header", "payload"}
      BY <2>1, <2>4, <3>1
    <3> QED
      BY <2>7, <2>8, <3>2
  <2>10. Whole'
    BY <1>1, <1>2, <1>4, <1>5, <2>6, <2>7, <2>9, Rewrites
  <2>11. Timed'
    BY <1>1, <1>2, <1>4, <1>5, <2>6, StepTimed
  <2>12. task' \in [Goroutines -> Seq(Steps)] /\ task'[g] = q /\ \A o \in Goroutines \ {g} : task'[o] = task[o]
    BY <2>6, <2>7
  <2>13. ASSUME NEW o \in Conns PROVE ClosesOnce(o)'
    <3>1. ClosesOnce(o) /\ wire'[o] = wire[o]
      BY <1>1, <1>4 DEF Once
    <3>2. CASE o = c
      <4>1. \A i \in Goroutines : \A k \in DOMAIN task[i] : ~Closes(task[i][k], o)
        BY <1>7, <3>1, <3>2 DEF ClosesOnce
      <4>2. \A j \in DOMAIN wire'[o] : ~Closes(wire'[o][j], o)
        BY <1>7, <3>1, <3>2 DEF ClosesOnce
      <4>3. \A k \in DOMAIN q : Closes(q[k], o) => k = 1
        BY <1>2, <2>3, <2>4, <2>7, <4>1
      <4>4. \A i \in Goroutines : \A k \in DOMAIN task'[i] : Closes(task'[i][k], o) => i = g /\ k = 1
        BY <2>12, <4>1, <4>3
      <4>5. closed'[o]
        BY <1>1, <1>3, <1>4, <3>2 DEF Types
      <4> QED
        BY <4>2, <4>4, <4>5 DEF ClosesOnce
    <3>3. CASE o # c
      <4>1. closed'[o] = closed[o]
        BY <1>1, <1>4, <3>3 DEF Types
      <4>2. NoneCloses(steps, o)
        <5>1. \A k \in DOMAIN steps : k = 1 \/ k = 2
          BY <2>4
        <5> QED
          BY <2>2, <2>3, <2>4, <3>3, <5>1 DEF NoneCloses
      <4>3. OneCloses(task[g], o)
        BY <3>1 DEF ClosesOnce, OneCloses
      <4>4. q = steps \o Tail(task[g])
        BY DEF q
      <4>5. OneCloses(q, o) /\ (NoneCloses(task[g], o) => NoneCloses(q, o))
        BY <1>2, <2>4, <4>2, <4>3, <4>4, CloseNothing
      <4> QED
        BY <1>1, <2>6, <2>7, <3>1, <4>1, <4>5, ClosesKept
    <3> QED
      BY <3>2, <3>3
  <2>14. Once'
    BY <2>13 DEF Once
  <2>15. Types'
    BY <1>1, <1>4, <1>5, <2>12, TypesStep DEF Types
  <2> QED
    BY <2>10, <2>11, <2>14, <2>15 DEF IInv
<1> QED
  BY <1>6, <1>7


\* writeMu is taken: nobody else is within a frame to that connection.
LEMMA StepSend == ASSUME IInv, NEW g \in Goroutines, DoSend(g) PROVE IInv'
<1>1. Types /\ Timed /\ Whole /\ Once
  BY DEF IInv
<1> DEFINE old == task[g]
<1>2. /\ old \in Seq(Steps) /\ old # <<>> /\ Head(task[g]) = task[g][1]
      /\ task[g][1] \in Steps /\ task[g][1].op = "send" /\ 1 \in DOMAIN old
  BY <1>1, Doer DEF DoSend
<1>3. PICK c \in Conns, f \in Written : task[g][1].to = c /\ task[g][1].frame = f
  BY <1>2, StepCases
<1>4. /\ writer[c] = None /\ writer' = [writer EXCEPT ![c] = g]
      /\ Replace(g, <<Header(c, f), Payload(c, f)>>)
      /\ UNCHANGED <<cast, connVars, timerVars, tcp, closed, wire>>
  BY <1>2, <1>3 DEF DoSend
<1> DEFINE h == Header(c, f)
           p == Payload(c, f)
           steps == <<h, p>>
           q == steps \o Tail(old)
<1>5. UNCHANGED <<mode, ticks, pending, handler>>
  BY <1>4 DEF connVars, timerVars
<1>6. h \in Steps /\ h.op = "header" /\ h.to = c /\ h.frame = f
  BY <1>3, MadeFrames, FrameFields DEF Steps
<1>7. p \in Steps /\ p.op = "payload" /\ p.to = c /\ p = Payload(h.to, h.frame)
  BY <1>3, <1>6, MadeFrames, FrameFields DEF Steps
<1> HIDE DEF h, p
<1>8. steps \in Seq(Steps) /\ Len(steps) = 2 /\ steps[1] = h /\ steps[2] = p
  <2>1. h \in Steps /\ p \in Steps
    BY <1>6, <1>7
  <2> QED
    BY <2>1
<1> HIDE DEF steps, old
<1>9. Replace(g, steps)
  BY <1>4 DEF steps, h, p
<1>10. task \in [Goroutines -> Seq(Steps)] /\ task' = [task EXCEPT ![g] = q]
  BY <1>1, <1>9 DEF Replace, Types, old
<1>11. /\ q \in Seq(Steps) /\ Len(q) >= 2 /\ q[1] = h /\ q[2] = p /\ DOMAIN q = 1 .. Len(q)
       /\ \A k \in DOMAIN q : k = 1 \/ k = 2 \/ (k > 2 /\ k - 1 \in 2 .. Len(old) /\ q[k] = old[k - 1])
  <2>1. /\ q \in Seq(Steps)
        /\ \A k \in DOMAIN q :
              \/ k \in 1 .. Len(steps) /\ q[k] = steps[k]
              \/ k > Len(steps) /\ k - Len(steps) + 1 \in 2 .. Len(old) /\ q[k] = old[k - Len(steps) + 1]
    BY <1>2, <1>8, Spliced
  <2>2. Tail(old) \in Seq(Steps)
    BY <1>2
  <2>3. Len(q) = Len(steps) + Len(Tail(old))
    BY <1>8, <2>2, ConcatProperties
  <2> HIDE DEF q
  <2>4. Len(q) >= 2 /\ DOMAIN q = 1 .. Len(q)
    BY <1>8, <2>1, <2>2, <2>3
  <2> QED
    BY <1>8, <2>1, <2>4
<1> HIDE DEF q
<1>12. \A k \in 2 .. Len(old) : old[k].op \notin {"header", "payload"}
  BY <1>1, <1>2 DEF Whole, InWriting, old
<1>13. InWriting(q)
  <2>1. \A k \in DOMAIN q : (q[k].op = "header" => k = 1) /\ (q[k].op = "payload" => k = 2)
    BY <1>6, <1>7, <1>11, <1>12
  <2> QED
    BY <1>6, <1>7, <1>11, <2>1 DEF InWriting
<1>14. task'[g] = q /\ \A i \in Goroutines \ {g} : task'[i] = task[i]
  BY <1>10
<1>15. \A o \in Conns : ~Writes(g, o) /\ (Writes(g, o)' <=> o = c)
  BY <1>2, <1>6, <1>11, <1>14 DEF Writes, old
<1>16. \A i \in Goroutines \ {g}, o \in Conns : Writes(i, o)' <=> Writes(i, o)
  BY <1>14 DEF Writes
<1>17. \A i \in Goroutines : ~Writes(i, c)
  BY <1>1, <1>3, <1>4, LiveAssumption DEF Whole
<1>18. /\ writer'[c] = g /\ (\A o \in Conns \ {c} : writer'[o] = writer[o])
       /\ writer' \in [Conns -> Goroutines \cup {None}] /\ g # None
  BY <1>1, <1>3, <1>4, LiveAssumption DEF Types
<1>19. \A o \in Conns, i \in Goroutines : writer'[o] = i <=> Writes(i, o)'
  <2>1. \A i \in Goroutines : Writes(i, c)' <=> i = g
    BY <1>3, <1>15, <1>16, <1>17
  <2>2. \A i \in Goroutines, o \in Conns \ {c} : Writes(i, o)' <=> Writes(i, o)
    BY <1>15, <1>16
  <2> QED
    BY <1>1, <1>18, <2>1, <2>2 DEF Whole
<1>20. ASSUME NEW o \in Conns PROVE Framed(o)'
  <2>1. Framed(o) /\ wire'[o] = wire[o] /\ tcp'[o] = tcp[o] /\ handler'[o] = handler[o]
    BY <1>1, <1>4, <1>5 DEF Whole
  <2>2. \A k \in DOMAIN wire'[o] :
          IF k % 2 = 1 THEN wire'[o][k] = Header(o, wire'[o][k].frame)
          ELSE wire'[o][k] = Payload(o, wire'[o][k - 1].frame)
    BY <2>1 DEF Framed
  <2>3. CASE o = c
    <3>1. \A i \in Goroutines : Writes(i, o)' => task'[i][1].op = "header"
      BY <1>6, <1>11, <1>14, <1>16, <1>17, <2>3
    <3>2. tcp[o] = "open" => Len(wire[o]) % 2 = 0
      <4>1. Len(wire[o]) \in Nat
        BY <1>1 DEF Types
      <4>2. tcp[o] = "open" => Len(wire[o]) % 2 # 1
        BY <1>4, <2>1, <2>3 DEF Framed
      <4> QED
        BY <4>1, <4>2, Parity
    <3>3. handler'[o] = "new" => wire'[o] = <<>> /\ tcp'[o] # "open"
      BY <2>1 DEF Framed
    <3>4. writer'[o] # None
      BY <1>18, <2>3
    <3>5. tcp'[o] = "open" => Len(wire'[o]) % 2 = 0
      BY <2>1, <3>2
    <3> QED
      BY <2>2, <3>1, <3>3, <3>4, <3>5 DEF Framed
  <2>4. CASE o # c
    <3>1. \A i \in Goroutines : Writes(i, o)' => Writes(i, o) /\ task'[i] = task[i]
      BY <1>14, <1>15, <1>16, <2>4
    <3>2. writer'[o] = writer[o]
      BY <1>18, <2>4
    <3> QED
      BY <2>1, <2>2, <3>1, <3>2 DEF Framed
  <2> QED
    BY <2>3, <2>4
<1>21. Whole'
  <2>1. \A i \in Goroutines : InWriting(task'[i])
    BY <1>1, <1>13, <1>14 DEF Whole
  <2> QED
    BY <1>19, <1>20, <2>1 DEF Whole
<1>22. ASSUME NEW o \in Conns PROVE ClosesOnce(o)'
  <2>1. ClosesOnce(o) /\ wire'[o] = wire[o] /\ closed'[o] = closed[o]
    BY <1>1, <1>4 DEF Once
  <2>2. Closes(h, o) <=> Closes(old[1], o)
    <3>1. old[1] \in Steps /\ old[1].op = "send" /\ old[1].to = c /\ old[1].frame = f
      BY <1>2, <1>3 DEF old
    <3>2. Closes(h, o) <=> h.op \in {"send", "header"} /\ h.to = o /\ h.frame = CloseFrame
      BY <1>6, StepCases
    <3>3. Closes(old[1], o) <=> old[1].op \in {"send", "header"} /\ old[1].to = o /\ old[1].frame = CloseFrame
      BY <3>1, StepCases
    <3> QED
      BY <1>6, <3>1, <3>2, <3>3
  <2>3. ~Closes(p, o)
    BY <1>7, StepCases
  <2>4. OneCloses(old, o)
    BY <2>1 DEF ClosesOnce, OneCloses, old
  <2>5. DOMAIN old = 1 .. Len(old) /\ Len(old) \in Nat
    BY <1>2
  <2>6. \A k \in DOMAIN q : Closes(q[k], o) =>
            \/ k = 1 /\ Closes(old[1], o)
            \/ k > 2 /\ k - 1 \in 2 .. Len(old) /\ Closes(old[k - 1], o)
    BY <1>11, <2>2, <2>3
  <2>7. OneCloses(q, o)
    <3> SUFFICES ASSUME NEW k \in DOMAIN q, NEW j \in DOMAIN q, Closes(q[k], o), Closes(q[j], o) PROVE k = j
      BY DEF OneCloses
    <3>1. k \in Int /\ j \in Int
      BY <1>11
    <3> QED
      BY <1>2, <2>4, <2>5, <2>6, <3>1 DEF OneCloses
  <2>8. NoneCloses(old, o) => NoneCloses(q, o)
    BY <1>2, <2>5, <2>6 DEF NoneCloses
  <2> QED
    BY <1>1, <1>10, <1>11, <2>1, <2>7, <2>8, ClosesKept DEF old
<1>23. Timed'
  BY <1>1, <1>2, <1>4, <1>5, <1>10, StepTimed DEF old
<1>24. Types'
  <2>1. task' \in [Goroutines -> Seq(Steps)]
    BY <1>10, <1>11
  <2> QED
    BY <1>1, <1>4, <1>18, <2>1, TypesStep DEF Types
<1> QED
  BY <1>21, <1>22, <1>23, <1>24 DEF IInv, Once


\* Within a frame the goroutine holds writeMu, and nobody else is within one to c.
LEMMA Sole ==
  ASSUME Types, Whole, NEW g \in Goroutines, NEW c \in Conns, Writes(g, c)
  PROVE  /\ writer[c] = g
         /\ \A o \in Conns \ {c} : ~Writes(g, o)
         /\ \A i \in Goroutines \ {g} : ~Writes(i, c)
<1>1. writer[c] = g
  BY DEF Whole
<1> QED
  BY <1>1 DEF Whole, Writes

FramesOf(q, c) ==
    \A k \in DOMAIN q : IF k % 2 = 1 THEN q[k] = Header(c, q[k].frame) ELSE q[k] = Payload(c, q[k - 1].frame)

LEMMA FramedFrames == ASSUME NEW c \in Conns, Framed(c) PROVE FramesOf(wire[c], c)
BY DEF Framed, FramesOf

\* What is appended to a wire.
LEMMA Appended ==
  ASSUME NEW q \in Seq(Pieces), NEW c \in Conns, NEW p \in Pieces, FramesOf(q, c),
         IF Len(q) % 2 = 0 THEN p = Header(c, p.frame) ELSE p = Payload(c, q[Len(q)].frame)
  PROVE  /\ FramesOf(Append(q, p), c) /\ Append(q, p) \in Seq(Pieces)
         /\ Len(Append(q, p)) = Len(q) + 1 /\ Append(q, p)[Len(q) + 1] = p
         /\ \A k \in 1 .. Len(q) : Append(q, p)[k] = q[k]
<1> DEFINE n == Len(q)
           w == Append(q, p)
<1>1. /\ n \in Nat /\ DOMAIN q = 1 .. n /\ w \in Seq(Pieces) /\ DOMAIN w = 1 .. n + 1 /\ Len(w) = n + 1
      /\ w[n + 1] = p /\ \A k \in 1 .. n : w[k] = q[k]
  OBVIOUS
<1>2. IF n % 2 = 0 THEN p = Header(c, p.frame) ELSE p = Payload(c, q[n].frame)
  OBVIOUS
<1>3. (n % 2 = 0 \/ n % 2 = 1) /\ ((n + 1) % 2 = 1 <=> n % 2 = 0)
  BY <1>1, Parity
<1> HIDE DEF n, w
<1>4. ASSUME NEW k \in 1 .. n
      PROVE  IF k % 2 = 1 THEN w[k] = Header(c, w[k].frame) ELSE w[k] = Payload(c, w[k - 1].frame)
  <2>1. IF k % 2 = 1 THEN q[k] = Header(c, q[k].frame) ELSE q[k] = Payload(c, q[k - 1].frame)
    BY <1>1 DEF FramesOf
  <2>2. k % 2 # 1 => k - 1 \in 1 .. n
    <3>1. k = 1 => k % 2 = 1
      OBVIOUS
    <3> QED
      BY <1>1, <3>1
  <2> QED
    BY <1>1, <2>1, <2>2
<1>5. IF (n + 1) % 2 = 1 THEN w[n + 1] = Header(c, w[n + 1].frame) ELSE w[n + 1] = Payload(c, w[n + 1 - 1].frame)
  <2>1. CASE n % 2 = 0
    BY <1>1, <1>2, <1>3, <2>1
  <2>2. CASE n % 2 = 1
    <3>1. n \in 1 .. n /\ n + 1 - 1 = n
      BY <1>1, <2>2
    <3> QED
      BY <1>1, <1>2, <1>3, <2>2, <3>1
  <2> QED
    BY <1>3, <2>1, <2>2
<1>6. FramesOf(w, c)
  <2>1. \A k \in 1 .. n + 1 : k \in 1 .. n \/ k = n + 1
    BY <1>1
  <2> QED
    BY <1>1, <1>4, <1>5, <2>1 DEF FramesOf
<1> QED
  BY <1>1, <1>6 DEF n, w

\* g's frame to c ends, and what it does next is no part of one.
LEMMA FrameEnds ==
  ASSUME Types, Whole, NEW g \in Goroutines, NEW c \in Conns, Writes(g, c),
         NEW q \in Seq(Steps), task' = [task EXCEPT ![g] = q],
         \A k \in DOMAIN q : q[k].op \notin {"header", "payload"},
         writer' = [writer EXCEPT ![c] = None], UNCHANGED <<handler, tcp>>,
         \A o \in Conns \ {c} : wire'[o] = wire[o],
         wire'[c] \in Seq(Pieces), FramesOf(wire'[c], c), handler[c] = "new" => wire'[c] = <<>>,
         tcp[c] = "open" => Len(wire'[c]) % 2 = 0
  PROVE  Whole' /\ writer' \in [Conns -> Goroutines \cup {None}]
<1>1. /\ \A o \in Conns \ {c} : ~Writes(g, o)
      /\ \A i \in Goroutines \ {g} : ~Writes(i, c)
  BY Sole
<1>2. task'[g] = q /\ \A i \in Goroutines \ {g} : task'[i] = task[i]
  BY DEF Types
<1>3. q # <<>> => 1 \in DOMAIN q
  OBVIOUS
<1>4. \A i \in Goroutines, o \in Conns : Writes(i, o)' <=> i # g /\ o # c /\ Writes(i, o)
  BY <1>1, <1>2, <1>3 DEF Writes
<1>5. /\ writer'[c] = None /\ (\A o \in Conns \ {c} : writer'[o] = writer[o])
      /\ writer' \in [Conns -> Goroutines \cup {None}] /\ None \notin Goroutines
  BY LiveAssumption DEF Types
<1>6. \A o \in Conns, i \in Goroutines : writer'[o] = i <=> Writes(i, o)'
  <2>1. \A i \in Goroutines : ~Writes(i, c)' /\ writer'[c] # i
    BY <1>4, <1>5
  <2>2. \A o \in Conns \ {c}, i \in Goroutines : writer'[o] = i <=> Writes(i, o)'
    BY <1>1, <1>4, <1>5 DEF Whole
  <2> QED
    BY <2>1, <2>2
<1>7. ASSUME NEW o \in Conns PROVE Framed(o)'
  <2>1. Framed(o) /\ tcp'[o] = tcp[o] /\ handler'[o] = handler[o]
    BY DEF Whole
  <2>2. CASE o = c
    <3>1. \A i \in Goroutines : ~Writes(i, o)'
      BY <1>4, <2>2
    <3>2. Len(wire'[o]) % 2 = 0 => Len(wire'[o]) % 2 # 1
      <4>1. Len(wire'[o]) \in Nat
        BY <2>2
      <4> QED
        BY <4>1, Parity
    <3> QED
      BY <2>1, <2>2, <3>1, <3>2 DEF Framed, FramesOf
  <2>3. CASE o # c
    <3>1. \A i \in Goroutines : Writes(i, o)' => Writes(i, o) /\ task'[i] = task[i]
      BY <1>2, <1>4
    <3>2. writer'[o] = writer[o] /\ wire'[o] = wire[o]
      BY <1>5, <2>3
    <3> QED
      BY <2>1, <3>1, <3>2 DEF Framed
  <2> QED
    BY <2>2, <2>3
<1>8. InWriting(q)
  BY <1>3 DEF InWriting
<1> QED
  BY <1>2, <1>5, <1>6, <1>7, <1>8 DEF Whole

\* What g does after its next step.
LEMMA Rest ==
  ASSUME NEW old \in Seq(Steps), old # <<>>, NEW q, q = Tail(old)
  PROVE  /\ q \in Seq(Steps) /\ Len(q) = Len(old) - 1
         /\ \A k \in DOMAIN q : k \in 1 .. Len(q) /\ k + 1 \in DOMAIN old /\ q[k] = old[k + 1]
         /\ \A c \in Conns : /\ OneCloses(old, c) => OneCloses(q, c)
                             /\ NoneCloses(old, c) => NoneCloses(q, c)
<1>1. /\ q \in Seq(Steps) /\ Len(q) = Len(old) - 1 /\ DOMAIN q = 1 .. Len(old) - 1
      /\ \A k \in 1 .. Len(old) - 1 : q[k] = old[k + 1]
  OBVIOUS
<1>2. \A k \in DOMAIN q : k \in Int /\ k \in 1 .. Len(q) /\ k + 1 \in DOMAIN old /\ q[k] = old[k + 1]
  BY <1>1
<1>3. ASSUME NEW c \in Conns, OneCloses(old, c) PROVE OneCloses(q, c)
  BY <1>2, <1>3 DEF OneCloses
<1>4. ASSUME NEW c \in Conns, NoneCloses(old, c) PROVE NoneCloses(q, c)
  BY <1>2, <1>4 DEF NoneCloses
<1> QED
  BY <1>1, <1>2, <1>3, <1>4

LEMMA StepHeader == ASSUME IInv, NEW g \in Goroutines, DoHeader(g) PROVE IInv'
<1>1. Types /\ Timed /\ Whole /\ Once
  BY DEF IInv
<1> DEFINE old == task[g]
<1>2. /\ old \in Seq(Steps) /\ old # <<>> /\ Head(task[g]) = old[1]
      /\ old[1] \in Steps /\ old[1].op = "header" /\ 1 \in DOMAIN old
  BY <1>1, Doer DEF DoHeader
<1>3. PICK c \in Conns, f \in Written : old[1].to = c /\ old[1].frame = f
  BY <1>2, StepCases
<1>4. old[1] = Header(c, f) /\ old[1] \in Pieces
  BY <1>2, <1>3, StepCases
<1>5. Writes(g, c) /\ InWriting(old)
  BY <1>1, <1>2, <1>3 DEF Writes, Whole
<1>6. Len(old) > 1 /\ old[2] = Payload(c, f) /\ DOMAIN old = 1 .. Len(old) /\ Len(old) \in Nat
  BY <1>2, <1>3, <1>5 DEF InWriting
<1>7. old[2].op = "payload" /\ old[2].to = c
  BY <1>6, FrameFields
<1>8. \A k \in DOMAIN old : k > 2 => old[k].op \notin {"header", "payload"}
  BY <1>5 DEF InWriting
<1>9. /\ wire' = [wire EXCEPT ![c] = IF tcp[c] = "open" THEN Append(@, old[1]) ELSE @]
      /\ task' = [task EXCEPT ![g] = IF tcp[c] = "open" THEN Tail(@) ELSE Tail(Tail(@))]
      /\ writer' = [writer EXCEPT ![c] = IF tcp[c] = "open" THEN @ ELSE None]
      /\ UNCHANGED <<cast, connVars, tcp, closed, timerVars>>
  BY <1>2, <1>3 DEF DoHeader, Put
<1>10. UNCHANGED <<mode, ticks, pending, handler>>
  BY <1>9 DEF connVars, timerVars
<1>11. /\ task \in [Goroutines -> Seq(Steps)] /\ wire \in [Conns -> Seq(Pieces)]
       /\ writer \in [Conns -> Goroutines \cup {None}] /\ Len(wire[c]) \in Nat
  BY <1>1 DEF Types
<1>12. CASE tcp[c] # "open"
  <2> DEFINE q == Tail(Tail(old))
  <2>1. /\ q \in Seq(Steps)
        /\ \A k \in DOMAIN q : k + 2 \in DOMAIN old /\ q[k] = old[k + 2] /\ k \in 1 .. Len(q)
        /\ \A o \in Conns : /\ OneCloses(old, o) => OneCloses(q, o)
                            /\ NoneCloses(old, o) => NoneCloses(q, o)
    <3> DEFINE r == Tail(old)
    <3>1. r = Tail(old) /\ q = Tail(r) /\ old \in Seq(Steps) /\ old # <<>>
      BY <1>2
    <3> HIDE DEF old, r, q
    <3>2. /\ r \in Seq(Steps) /\ Len(r) = Len(old) - 1
          /\ \A k \in DOMAIN r : k \in 1 .. Len(r) /\ k + 1 \in DOMAIN old /\ r[k] = old[k + 1]
      BY <3>1, Rest
    <3>3. \A o \in Conns : /\ OneCloses(old, o) => OneCloses(r, o)
                           /\ NoneCloses(old, o) => NoneCloses(r, o)
      BY <3>1, Rest
    <3>4. r \in Seq(Steps) /\ r # <<>>
      BY <1>6, <3>2
    <3>5. /\ q \in Seq(Steps) /\ Len(q) = Len(r) - 1
          /\ \A k \in DOMAIN q : k \in 1 .. Len(q) /\ k + 1 \in DOMAIN r /\ q[k] = r[k + 1]
      BY <3>1, <3>4, Rest
    <3>6. \A o \in Conns : /\ OneCloses(r, o) => OneCloses(q, o)
                           /\ NoneCloses(r, o) => NoneCloses(q, o)
      BY <3>1, <3>4, Rest
    <3>7. \A k \in DOMAIN q : k + 1 + 1 = k + 2
      BY <3>5
    <3> QED
      BY <3>2, <3>3, <3>5, <3>6, <3>7
  <2>2. task' = [task EXCEPT ![g] = q]
    BY <1>9, <1>11, <1>12
  <2> HIDE DEF q
  <2>3. wire' = wire /\ writer' = [writer EXCEPT ![c] = None]
    BY <1>9, <1>11, <1>12
  <2>4. \A k \in DOMAIN q : q[k].op \notin {"header", "payload"}
    BY <1>8, <2>1
  <2>5. Framed(c) /\ FramesOf(wire'[c], c) /\ wire'[c] \in Seq(Pieces)
    BY <1>1, <1>11, <2>3, FramedFrames DEF Whole
  <2>6. handler[c] = "new" => wire'[c] = <<>>
    BY <2>3, <2>5 DEF Framed
  <2>7. Whole' /\ writer' \in [Conns -> Goroutines \cup {None}]
    BY <1>1, <1>5, <1>9, <1>10, <1>12, <2>1, <2>2, <2>3, <2>4, <2>5, <2>6, FrameEnds
  <2>8. ASSUME NEW o \in Conns PROVE ClosesOnce(o)'
    <3>1. ClosesOnce(o) /\ wire'[o] = wire[o] /\ closed'[o] = closed[o]
      BY <1>1, <1>9, <2>3 DEF Once
    <3>2. OneCloses(task[g], o)
      BY <3>1 DEF ClosesOnce, OneCloses
    <3> QED
      BY <1>1, <2>1, <2>2, <3>1, <3>2, ClosesKept
  <2>9. Timed'
    BY <1>1, <1>2, <1>9, <1>10, <2>2, StepTimed
  <2>10. task' \in [Goroutines -> Seq(Steps)]
    BY <1>11, <2>1, <2>2
  <2>11. Types'
    BY <1>1, <1>9, <2>3, <2>7, <2>10, TypesStep DEF Types
  <2> QED
    BY <2>7, <2>8, <2>9, <2>11 DEF IInv, Once
<1>13. CASE tcp[c] = "open"
  <2> DEFINE q == Tail(old)
             w == Append(wire[c], old[1])
  <2>1. /\ q \in Seq(Steps) /\ Len(q) = Len(old) - 1
        /\ \A k \in DOMAIN q : k + 1 \in DOMAIN old /\ q[k] = old[k + 1] /\ k \in 1 .. Len(q)
        /\ \A o \in Conns : /\ OneCloses(old, o) => OneCloses(q, o)
                            /\ NoneCloses(old, o) => NoneCloses(q, o)
    <3>1. q = Tail(old) /\ old \in Seq(Steps) /\ old # <<>>
      BY <1>2
    <3> HIDE DEF old, q
    <3>2. /\ q \in Seq(Steps) /\ Len(q) = Len(old) - 1
          /\ \A k \in DOMAIN q : k \in 1 .. Len(q) /\ k + 1 \in DOMAIN old /\ q[k] = old[k + 1]
      BY <3>1, Rest
    <3>3. \A o \in Conns : /\ OneCloses(old, o) => OneCloses(q, o)
                           /\ NoneCloses(old, o) => NoneCloses(q, o)
      BY <3>1, Rest
    <3> QED
      BY <3>2, <3>3
  <2>2. task' = [task EXCEPT ![g] = q] /\ task'[g] = q /\ \A i \in Goroutines \ {g} : task'[i] = task[i]
    BY <1>9, <1>11, <1>13
  <2>3. q # <<>> /\ 1 \in DOMAIN q /\ q[1] = Payload(c, f) /\ q[1].op = "payload" /\ q[1].to = c
    <3>1. 1 \in DOMAIN q
      BY <1>6, <2>1
    <3> QED
      <4>1. q[1] = old[1 + 1]
        BY <2>1, <3>1
      <4> HIDE DEF q, old
      <4> QED
        BY <1>6, <1>7, <3>1, <4>1
  <2> HIDE DEF q
  <2>4. /\ wire' \in [Conns -> Seq(Pieces)] /\ wire'[c] = w /\ writer' = writer
        /\ \A o \in Conns \ {c} : wire'[o] = wire[o]
    BY <1>4, <1>9, <1>11, <1>13
  <2>5. Framed(c) /\ Len(wire[c]) % 2 = 0
    <3>1. Framed(c)
      BY <1>1 DEF Whole
    <3>2. IF Len(wire[c]) % 2 = 0 THEN old[1].op = "header" ELSE old[1] = Payload(c, wire[c][Len(wire[c])].frame)
      BY <1>5, <1>13, <3>1 DEF Framed
    <3> QED
      <4>1. \A x : Payload(c, x).op # "header"
        BY DEF Payload
      <4> QED
        BY <1>2, <3>1, <3>2, <4>1
  <2>6. FramesOf(wire[c], c) /\ old[1] = Header(c, old[1].frame)
    BY <1>3, <1>4, <2>5, FramedFrames
  <2>7. /\ FramesOf(w, c) /\ Len(w) = Len(wire[c]) + 1 /\ w[Len(wire[c]) + 1] = old[1]
        /\ \A k \in 1 .. Len(wire[c]) : w[k] = wire[c][k]
    <3>1. wire[c] \in Seq(Pieces)
      BY <1>11
    <3> HIDE DEF old
    <3> QED
      BY <1>4, <2>5, <2>6, <3>1, Appended
  <2>8. DOMAIN w = 1 .. Len(wire[c]) + 1 /\ DOMAIN wire[c] = 1 .. Len(wire[c])
    BY <1>4, <1>11
  <2> HIDE DEF w, old
  <2>9. InWriting(q)
    <3>1. \A k \in DOMAIN q : q[k].op # "header" /\ (q[k].op = "payload" => k = 1)
      <4> SUFFICES ASSUME NEW k \in DOMAIN q PROVE q[k].op # "header" /\ (q[k].op = "payload" => k = 1)
        OBVIOUS
      <4>1. CASE k = 1
        BY <2>3, <4>1
      <4>2. CASE k # 1
        <5>1. k + 1 > 2 /\ k + 1 \in DOMAIN old /\ q[k] = old[k + 1]
          BY <2>1, <4>2
        <5> QED
          BY <1>8, <5>1
      <4> QED
        BY <4>1, <4>2
    <3> QED
      BY <2>3, <3>1 DEF InWriting
  <2>10. \A i \in Goroutines, o \in Conns : Writes(i, o)' <=> Writes(i, o)
    BY <1>2, <1>3, <2>2, <2>3 DEF Writes, old
  <2>11. writer[c] = g /\ (\A o \in Conns \ {c} : ~Writes(g, o)) /\ (\A i \in Goroutines \ {g} : ~Writes(i, c))
    BY <1>1, <1>5, Sole
  <2>12. ASSUME NEW o \in Conns PROVE Framed(o)'
    <3>1. Framed(o) /\ tcp'[o] = tcp[o] /\ handler'[o] = handler[o] /\ writer'[o] = writer[o]
      BY <1>1, <1>9, <1>10, <2>4 DEF Whole
    <3>2. CASE o = c
      <4>1. handler'[o] # "new"
        BY <1>13, <3>1, <3>2 DEF Framed
      <4>2. Len(w) % 2 = 1 /\ Len(w) % 2 # 0
        <5>1. (Len(wire[c]) + 1) % 2 = 1
          BY <1>11, <2>5, Parity
        <5>2. Len(wire[c]) + 1 \in Nat
          BY <1>11
        <5> QED
          BY <2>7, <5>1, <5>2, Parity
      <4>3. w[Len(w)].frame = f
        BY <1>3, <2>7
      <4>4. \A i \in Goroutines : Writes(i, o)' => task'[i][1] = Payload(o, w[Len(w)].frame)
        BY <2>2, <2>3, <2>10, <2>11, <3>2, <4>3
      <4>5. writer'[o] # None
        BY <2>11, <3>1, <3>2, LiveAssumption
      <4> QED
        BY <2>4, <2>7, <3>2, <4>1, <4>2, <4>4, <4>5 DEF Framed, FramesOf
    <3>3. CASE o # c
      <4>1. wire'[o] = wire[o] /\ \A i \in Goroutines : Writes(i, o)' => Writes(i, o) /\ task'[i] = task[i]
        BY <2>2, <2>4, <2>10, <2>11, <3>3
      <4> QED
        BY <3>1, <4>1 DEF Framed
    <3> QED
      BY <3>2, <3>3
  <2>13. Whole'
    <3>1. \A i \in Goroutines : InWriting(task'[i])
      BY <1>1, <2>2, <2>9 DEF Whole
    <3> QED
      BY <1>1, <2>4, <2>10, <2>12, <3>1 DEF Whole
  \* A close frame's header has come from g to the wire.
  <2>14. ASSUME NEW o \in Conns PROVE ClosesOnce(o)'
    <3>1. ClosesOnce(o) /\ closed'[o] = closed[o]
      BY <1>1, <1>9 DEF Once
    <3>2. OneCloses(task[g], o)
      BY <3>1 DEF ClosesOnce, OneCloses
    <3>3. CASE ~Closes(old[1], o) \/ o # c
      <4>1. \A j \in DOMAIN wire'[o] : Closes(wire'[o][j], o) => j \in DOMAIN wire[o] /\ Closes(wire[o][j], o)
        <5>1. CASE o = c
          <6>1. \A j \in DOMAIN w : j \in 1 .. Len(wire[c]) \/ j = Len(wire[c]) + 1
            BY <1>11, <2>8
          <6> QED
            BY <2>4, <2>7, <2>8, <3>3, <5>1, <6>1
        <5>2. CASE o # c
          BY <2>4, <5>2
        <5> QED
          BY <5>1, <5>2
      <4> QED
        BY <1>1, <2>1, <2>2, <3>1, <3>2, <4>1, ClosesKept DEF old
    <3>4. CASE Closes(old[1], o) /\ o = c
      <4>1. \A i \in Goroutines : \A k \in DOMAIN task[i] : Closes(task[i][k], o) => i = g /\ k = 1
        BY <1>2, <3>1, <3>4 DEF ClosesOnce, old
      <4>2. \A j \in DOMAIN wire[o] : ~Closes(wire[o][j], o)
        BY <1>2, <3>1, <3>4 DEF ClosesOnce, old
      <4>3. \A k \in DOMAIN q : ~Closes(q[k], o)
        <5>1. \A k \in DOMAIN q : k + 1 # 1 /\ k + 1 \in DOMAIN task[g] /\ q[k] = task[g][k + 1]
          BY <2>1 DEF old
        <5> QED
          BY <4>1, <5>1
      <4>4. \A i \in Goroutines : \A k \in DOMAIN task'[i] : ~Closes(task'[i][k], o)
        BY <2>2, <4>1, <4>3
      <4>5. \A j \in DOMAIN wire'[o] : Closes(wire'[o][j], o) => j = Len(wire[c]) + 1
        <5>1. \A j \in DOMAIN w : j \in 1 .. Len(wire[c]) \/ j = Len(wire[c]) + 1
          BY <1>11, <2>8
        <5> QED
          BY <2>4, <2>7, <2>8, <3>4, <4>2, <5>1
      <4>6. closed[o]
        BY <1>2, <3>1, <3>4 DEF ClosesOnce, old
      <4> QED
        BY <3>1, <4>4, <4>5, <4>6 DEF ClosesOnce
    <3> QED
      BY <3>3, <3>4
  <2>15. Timed'
    BY <1>1, <1>2, <1>9, <1>10, <2>2, StepTimed DEF old
  <2>16. task' \in [Goroutines -> Seq(Steps)]
    BY <1>11, <2>1, <2>2
  <2>17. Types'
    BY <1>1, <1>9, <2>4, <2>16, TypesStep DEF Types
  <2> QED
    BY <2>13, <2>14, <2>15, <2>17 DEF IInv, Once
<1> QED
  BY <1>12, <1>13


LEMMA StepPayload == ASSUME IInv, NEW g \in Goroutines, DoPayload(g) PROVE IInv'
<1>1. Types /\ Timed /\ Whole /\ Once
  BY DEF IInv
<1> DEFINE old == task[g]
           q == <<>> \o Tail(old)
<1>2. /\ old \in Seq(Steps) /\ old # <<>> /\ Head(task[g]) = old[1]
      /\ old[1] \in Steps /\ old[1].op = "payload" /\ 1 \in DOMAIN old
  BY <1>1, Doer DEF DoPayload
<1>3. PICK c \in Conns, f \in Written : old[1].to = c /\ old[1].frame = f
  BY <1>2, StepCases
<1>4. old[1] = Payload(c, f) /\ old[1] \in Pieces
  BY <1>2, <1>3, StepCases
<1>5. Writes(g, c) /\ InWriting(old)
  BY <1>1, <1>2, <1>3 DEF Writes, Whole
<1>6. \A k \in DOMAIN old : k > 1 => old[k].op \notin {"header", "payload"}
  BY <1>2, <1>5 DEF InWriting
<1>7. /\ wire' = [wire EXCEPT ![c] = IF tcp[c] = "open" THEN Append(@, old[1]) ELSE @]
      /\ task' = [task EXCEPT ![g] = q] /\ writer' = [writer EXCEPT ![c] = None]
      /\ UNCHANGED <<cast, connVars, tcp, closed, timerVars>>
  BY <1>1, <1>2, <1>3 DEF DoPayload, Put, Replace, Types
<1>8. UNCHANGED <<mode, ticks, pending, handler>>
  BY <1>7 DEF connVars, timerVars
<1>9. /\ task \in [Goroutines -> Seq(Steps)] /\ wire \in [Conns -> Seq(Pieces)]
      /\ wire[c] \in Seq(Pieces) /\ Len(wire[c]) \in Nat
  BY <1>1 DEF Types
<1>10. q = Tail(old)
  <2>1. Tail(old) \in Seq(Steps)
    BY <1>2
  <2> QED
    BY <2>1, ConcatEmptySeq
<1> HIDE DEF q
<1>11. /\ q \in Seq(Steps) /\ Len(q) = Len(old) - 1
       /\ \A k \in DOMAIN q : k \in 1 .. Len(q) /\ k + 1 \in DOMAIN old /\ q[k] = old[k + 1]
  <2> HIDE DEF old
  <2> QED
    BY <1>2, <1>10, Rest
<1>12. \A o \in Conns : /\ OneCloses(old, o) => OneCloses(q, o)
                        /\ NoneCloses(old, o) => NoneCloses(q, o)
  <2> HIDE DEF old
  <2> QED
    BY <1>2, <1>10, Rest
<1>13. \A k \in DOMAIN q : q[k].op \notin {"header", "payload"}
  <2>1. \A k \in DOMAIN q : k + 1 > 1
    BY <1>11
  <2> QED
    BY <1>6, <1>11, <2>1
<1>14. Framed(c) /\ FramesOf(wire[c], c)
  BY <1>1, FramedFrames DEF Whole
\* The header is the last that has been written.
<1>15. ASSUME tcp[c] = "open" PROVE Len(wire[c]) % 2 = 1 /\ old[1] = Payload(c, wire[c][Len(wire[c])].frame)
  <2>1. IF Len(wire[c]) % 2 = 0 THEN old[1].op = "header" ELSE old[1] = Payload(c, wire[c][Len(wire[c])].frame)
    BY <1>5, <1>14, <1>15 DEF Framed
  <2> QED
    BY <1>2, <1>9, <2>1, Parity
<1>16. /\ wire' \in [Conns -> Seq(Pieces)] /\ FramesOf(wire'[c], c)
       /\ \A o \in Conns \ {c} : wire'[o] = wire[o]
       /\ tcp[c] = "open" => Len(wire'[c]) % 2 = 0 /\ Len(wire'[c]) = Len(wire[c]) + 1
                             /\ wire'[c][Len(wire[c]) + 1] = old[1] /\ \A k \in 1 .. Len(wire[c]) : wire'[c][k] = wire[c][k]
       /\ tcp[c] # "open" => wire' = wire
  <2>1. CASE tcp[c] = "open"
    <3> DEFINE w == Append(wire[c], old[1])
    <3>1. IF Len(wire[c]) % 2 = 0 THEN old[1] = Header(c, old[1].frame) ELSE old[1] = Payload(c, wire[c][Len(wire[c])].frame)
      BY <1>9, <1>15, <2>1, Parity
    <3>2. /\ FramesOf(w, c) /\ w \in Seq(Pieces) /\ Len(w) = Len(wire[c]) + 1 /\ w[Len(wire[c]) + 1] = old[1]
          /\ \A k \in 1 .. Len(wire[c]) : w[k] = wire[c][k]
      <4> HIDE DEF old
      <4> QED
        BY <1>4, <1>9, <1>14, <3>1, Appended
    <3>3. wire' = [wire EXCEPT ![c] = w]
      BY <1>7, <1>9, <2>1
    <3> HIDE DEF w
    <3>4. Len(w) % 2 = 0
      BY <1>9, <1>15, <2>1, <3>2, Parity
    <3> QED
      BY <1>9, <2>1, <3>2, <3>3, <3>4
  <2>2. CASE tcp[c] # "open"
    BY <1>7, <1>9, <1>14, <2>2
  <2> QED
    BY <2>1, <2>2
<1>17. handler[c] = "new" => wire'[c] = <<>>
  BY <1>14, <1>16 DEF Framed
<1>18. Whole' /\ writer' \in [Conns -> Goroutines \cup {None}]
  <2>1. wire'[c] \in Seq(Pieces) /\ UNCHANGED <<handler, tcp>>
    BY <1>7, <1>8, <1>16
  <2> QED
    BY <1>1, <1>5, <1>7, <1>11, <1>13, <1>16, <1>17, <2>1, FrameEnds
<1>19. ASSUME NEW o \in Conns PROVE ClosesOnce(o)'
  <2>1. ClosesOnce(o) /\ closed'[o] = closed[o]
    BY <1>1, <1>7 DEF Once
  <2>2. OneCloses(task[g], o)
    BY <2>1 DEF ClosesOnce, OneCloses
  <2>3. ~Closes(old[1], o)
    BY <1>2, StepCases
  <2>4. \A j \in DOMAIN wire'[o] : Closes(wire'[o][j], o) => j \in DOMAIN wire[o] /\ Closes(wire[o][j], o)
    <3>1. CASE o = c /\ tcp[c] = "open"
      <4>1. DOMAIN wire'[c] = 1 .. Len(wire[c]) + 1 /\ DOMAIN wire[c] = 1 .. Len(wire[c])
        <5>1. wire'[c] \in Seq(Pieces) /\ Len(wire'[c]) = Len(wire[c]) + 1
          BY <1>16, <3>1
        <5> QED
          BY <1>9, <5>1
      <4>2. \A j \in 1 .. Len(wire[c]) + 1 : j \in 1 .. Len(wire[c]) \/ j = Len(wire[c]) + 1
        BY <1>9
      <4> QED
        BY <1>16, <2>3, <3>1, <4>1, <4>2
    <3>2. CASE o # c \/ tcp[c] # "open"
      BY <1>16, <3>2
    <3> QED
      BY <3>1, <3>2
  <2> QED
    BY <1>1, <1>7, <1>11, <1>12, <2>1, <2>2, <2>4, ClosesKept
<1>20. Timed'
  BY <1>1, <1>2, <1>7, <1>8, StepTimed
<1>21. task' \in [Goroutines -> Seq(Steps)]
  BY <1>7, <1>9, <1>11
<1>22. Types'
  BY <1>1, <1>7, <1>16, <1>18, <1>21, TypesStep DEF Types
<1> QED
  BY <1>18, <1>19, <1>20, <1>22 DEF IInv, Once

LEMMA StepSteps == ASSUME IInv, NEW g \in Goroutines, Step(g) PROVE IInv'
BY StepPublish, StepSend, StepHeader, StepPayload, StepClose, StepHangUp DEF Step

-----------------------------------------------------------------------------
(* Connections and timers *)

\* An idle goroutine is given something to do.
LEMMA Begins ==
  ASSUME IInv, NEW g \in Goroutines, task[g] = <<>>, NEW q \in Seq(Steps), task' = [task EXCEPT ![g] = q],
         \A k \in DOMAIN q : q[k].op \notin {"header", "payload"} /\ \A c \in Conns : ~Closes(q[k], c),
         UNCHANGED <<tcp, closed, writer, wire>>,
         \A c \in Conns : handler'[c] = "new" => handler[c] = "new"
  PROVE  Whole' /\ Once' /\ task' \in [Goroutines -> Seq(Steps)]
<1>1. Types /\ Whole /\ Once
  BY DEF IInv
<1>2. Whole'
  BY <1>1, Rewrites
<1>3. ASSUME NEW c \in Conns PROVE ClosesOnce(c)'
  <2>1. NoneCloses(q, c) /\ OneCloses(q, c) /\ ClosesOnce(c) /\ wire'[c] = wire[c] /\ closed'[c] = closed[c]
    BY <1>1 DEF NoneCloses, OneCloses, Once
  <2> QED
    BY <1>1, <2>1, ClosesKept
<1> QED
  BY <1>1, <1>2, <1>3 DEF Once, Types

LEMMA OneStep ==
  ASSUME NEW s \in Steps, s.op \in {"publish", "close"} \/ (s.op = "send" /\ s.frame # CloseFrame)
  PROVE  /\ <<s>> \in Seq(Steps)
         /\ \A k \in DOMAIN <<s>> : <<s>>[k].op \notin {"header", "payload"} /\ \A c \in Conns : ~Closes(<<s>>[k], c)
<1>1. s.op \notin {"header", "payload"} /\ \A c \in Conns : ~Closes(s, c)
  BY StepCases
<1>2. <<s>> \in Seq(Steps) /\ \A k \in DOMAIN <<s>> : <<s>>[k] = s
  OBVIOUS
<1> QED
  BY <1>1, <1>2

\* Only the connection's own body may be idle where it begins something.
LEMMA ConnTimed ==
  ASSUME IInv, NEW c \in Conns, NEW q, task' = [task EXCEPT ![c] = q], UNCHANGED <<cast, mode, ticks, pending>>
  PROVE  Timed'
<1>1. \A t \in Timers : t \in Goroutines /\ t # c
  BY LiveAssumption DEF Goroutines
<1>2. \A t \in Timers : task'[t] = task[t]
  BY <1>1 DEF IInv, Types
<1> QED
  BY <1>2 DEF IInv, Timed


LEMMA TimedStays == ASSUME IInv, UNCHANGED <<cast, task, mode, ticks, pending>> PROVE Timed'
BY DEF IInv, Timed

\* A connection opens, gets frames, goes away or is subscribed: nothing is written.
LEMMA StepConn ==
  ASSUME IInv, NEW c \in Conns, Connect(c) \/ ClientSends(c) \/ ClientGoes(c) \/ Subscribe(c) \/ RecvNull(c)
  PROVE  IInv'
<1>1. Types /\ Whole /\ Once
  BY DEF IInv
<1>2. UNCHANGED <<cast, task, wire, writer, closed, payload, timerVars>>
  BY DEF Connect, ClientSends, ClientGoes, Subscribe, RecvNull, connVars, wireVars
<1>3. UNCHANGED <<mode, ticks, pending>>
  BY <1>2 DEF timerVars
<1>4. /\ tcp' \in [Conns -> {"open", "closed", "gone"}]
      /\ handler' \in [Conns -> {"new", "open", "recv", "ending", "done"}]
      /\ \A o \in Conns : /\ tcp'[o] = "open" => tcp[o] = "open" \/ handler[o] = "new"
                          /\ handler'[o] = "new" => handler[o] = "new" /\ tcp'[o] = tcp[o]
      /\ inbox' \in [Conns -> Seq(Frames)] /\ sent' \in [Conns -> Nat]
      /\ subs' \subseteq Conns /\ IsFiniteSet(subs')
  <2>1. CASE Connect(c)
    BY <1>1, <2>1 DEF Connect, Types
  <2>2. CASE ClientSends(c)
    <3>1. UNCHANGED <<tcp, handler, subs>>
      BY <2>2 DEF ClientSends, wireVars
    <3>2. sent' \in [Conns -> Nat]
      BY <1>1, <2>2 DEF ClientSends, Types
    <3>3. PICK f \in cast.frames : inbox' = [inbox EXCEPT ![c] = Append(@, f)]
      BY <2>2 DEF ClientSends
    <3>4. f \in Frames
      BY <1>1, LiveAssumption DEF Types
    <3>5. inbox' \in [Conns -> Seq(Frames)]
      BY <1>1, <3>3, <3>4 DEF Types
    <3> QED
      BY <1>1, <3>1, <3>2, <3>5 DEF Types
  <2>3. CASE ClientGoes(c)
    <3>1. UNCHANGED <<handler, subs, inbox, sent>> /\ tcp[c] = "open" /\ tcp' = [tcp EXCEPT ![c] = "gone"]
      BY <2>3 DEF ClientGoes, connVars
    <3>2. handler[c] # "new"
      BY <1>1, <3>1 DEF Whole, Framed
    <3> QED
      BY <1>1, <3>1, <3>2 DEF Types
  <2>4. CASE Subscribe(c)
    <3>1. UNCHANGED <<tcp, inbox, sent>> /\ handler' = [handler EXCEPT ![c] = "recv"] /\ subs' = subs \cup {c}
      BY <2>4 DEF Subscribe, wireVars
    <3>2. IsFiniteSet(subs')
      BY <1>1, <3>1, FS_AddElement DEF Types
    <3> QED
      BY <1>1, <3>1, <3>2 DEF Types
  <2>5. CASE RecvNull(c)
    <3>1. UNCHANGED <<tcp, inbox, sent, subs>> /\ handler' = [handler EXCEPT ![c] = "ending"]
      BY <2>5 DEF RecvNull, wireVars
    <3> QED
      BY <1>1, <3>1 DEF Types
  <2> QED
    BY <2>1, <2>2, <2>3, <2>4, <2>5
<1>5. Whole' /\ Once'
  BY <1>1, <1>2, <1>4, Quiet
<1>6. Timed'
  BY <1>2, <1>3, TimedStays
<1>7. Types'
  BY <1>1, <1>2, <1>3, <1>4 DEF Types
<1> QED
  BY <1>5, <1>6, <1>7 DEF IInv

LEMMA StepUnsubscribe == ASSUME IInv, NEW c \in Conns, Unsubscribe(c) PROVE IInv'
<1>1. Types
  BY DEF IInv
<1>2. /\ task[c] = <<>> /\ task' = [task EXCEPT ![c] = <<Close(c)>>] /\ subs' = subs \ {c}
      /\ handler' = [handler EXCEPT ![c] = "done"]
      /\ UNCHANGED <<cast, inbox, sent, payload, wireVars, timerVars>>
  BY DEF Unsubscribe, AtBody
<1>3. UNCHANGED <<mode, ticks, pending, tcp, closed, writer, wire>>
  BY <1>2 DEF wireVars, timerVars
<1>4. c \in Goroutines
  BY DEF Goroutines
<1> DEFINE s == Close(c)
<1>5. s \in Steps /\ s.op = "close"
  BY MadeCloses, ConnFields
<1> HIDE DEF s
<1> DEFINE q == <<s>>
<1>6. /\ q \in Seq(Steps)
      /\ \A k \in DOMAIN q : q[k].op \notin {"header", "payload"} /\ \A o \in Conns : ~Closes(q[k], o)
  BY <1>5, OneStep
<1>7. task' = [task EXCEPT ![c] = q]
  BY <1>2 DEF s
<1> HIDE DEF q
<1>8. handler' \in [Conns -> {"new", "open", "recv", "ending", "done"}] /\ \A o \in Conns : handler'[o] = "new" => handler[o] = "new"
  BY <1>1, <1>2 DEF Types
<1>9. Whole' /\ Once' /\ task' \in [Goroutines -> Seq(Steps)]
  BY <1>2, <1>3, <1>4, <1>6, <1>7, <1>8, Begins
<1>10. Timed'
  BY <1>2, <1>3, <1>7, ConnTimed
<1>11. subs' \subseteq Conns /\ IsFiniteSet(subs')
  BY <1>1, <1>2, FS_RemoveElement DEF Types
<1>12. Types'
  BY <1>1, <1>2, <1>3, <1>8, <1>9, <1>11 DEF Types
<1> QED
  BY <1>9, <1>10, <1>12 DEF IInv

LEMMA StepRecv == ASSUME IInv, NEW c \in Conns, Recv(c) PROVE IInv'
<1>1. Types
  BY DEF IInv
<1> DEFINE f == Head(inbox[c])
           whole == Append(payload[c], sent[c] - Len(inbox[c]) + 1)
           data == f.op \in {"text", "more"}
           q == CASE data /\ f.fin -> <<Publish(Message(c, whole))>>
                  [] f.op = "ping" -> <<Send(c, Pong)>>
                  [] f.op \in {"close", "big"} -> <<Close(c)>>
                  [] OTHER -> <<>>
<1>2. /\ task[c] = <<>> /\ inbox[c] # <<>> /\ inbox' = [inbox EXCEPT ![c] = Tail(@)]
      /\ payload' = [payload EXCEPT ![c] = IF ~data THEN @ ELSE IF f.fin THEN <<>> ELSE whole]
      /\ handler' = [handler EXCEPT ![c] = IF f.op \in {"close", "big", "odd"} THEN "ending" ELSE @]
      /\ task' = [task EXCEPT ![c] = q]
      /\ UNCHANGED <<cast, subs, sent, wireVars, timerVars>>
  BY DEF Recv, AtBody
<1>3. UNCHANGED <<mode, ticks, pending, tcp, closed, writer, wire>>
  BY <1>2 DEF wireVars, timerVars
<1>4. c \in Goroutines
  BY DEF Goroutines
<1>5. whole \in Seq(Int)
  BY <1>1 DEF Types
<1> HIDE DEF whole, f
<1>6. /\ q \in Seq(Steps)
      /\ \A k \in DOMAIN q : q[k].op \notin {"header", "payload"} /\ \A o \in Conns : ~Closes(q[k], o)
  <2>1. CASE data /\ f.fin
    <3>1. Message(c, whole) \in Published
      BY <1>4, <1>5 DEF Message, Published
    <3> DEFINE s == Publish(Message(c, whole))
    <3>2. s \in Steps /\ s.op = "publish"
      BY <3>1, MessageFrames, PublishFields
    <3>3. q = <<s>>
      BY <2>1
    <3> HIDE DEF s, q
    <3> QED
      BY <3>2, <3>3, OneStep
  <2>2. CASE ~(data /\ f.fin) /\ f.op = "ping"
    <3> DEFINE s == Send(c, Pong)
    <3>1. s \in Steps /\ s.op = "send" /\ s.frame # CloseFrame
      <4>1. Pong \in Written /\ Pong # CloseFrame
        BY DEF Written, Pong, CloseFrame, Message
      <4> QED
        BY <4>1, MadeFrames, FrameFields
    <3>2. q = <<s>>
      BY <2>2
    <3> HIDE DEF s, q
    <3> QED
      BY <3>1, <3>2, OneStep
  <2>3. CASE ~(data /\ f.fin) /\ f.op \in {"close", "big"}
    <3> DEFINE s == Close(c)
    <3>1. s \in Steps /\ s.op = "close"
      BY MadeCloses, ConnFields
    <3>2. q = <<s>>
      BY <2>3
    <3> HIDE DEF s, q
    <3> QED
      BY <3>1, <3>2, OneStep
  <2>4. CASE ~(data /\ f.fin) /\ f.op \notin {"ping", "close", "big"}
    <3>1. q = <<>>
      BY <2>4
    <3> QED
      BY <3>1
  <2> QED
    BY <2>1, <2>2, <2>3, <2>4
<1> HIDE DEF q
<1>7. handler' \in [Conns -> {"new", "open", "recv", "ending", "done"}] /\ \A o \in Conns : handler'[o] = "new" => handler[o] = "new"
  BY <1>1, <1>2 DEF Types
<1>8. Whole' /\ Once' /\ task' \in [Goroutines -> Seq(Steps)]
  BY <1>2, <1>3, <1>4, <1>6, <1>7, Begins
<1>9. Timed'
  BY <1>2, <1>3, ConnTimed
<1>10. inbox' \in [Conns -> Seq(Frames)]
  BY <1>1, <1>2 DEF Types
<1>11. payload' \in [Conns -> Seq(Int)]
  BY <1>1, <1>2, <1>5 DEF Types
<1>12. Types'
  BY <1>1, <1>2, <1>3, <1>7, <1>8, <1>10, <1>11 DEF Types
<1> QED
  BY <1>8, <1>9, <1>12 DEF IInv


\* What a timer's function does: it writes no frame itself, nor a close frame.
LEMMA JobOfTimer ==
  ASSUME Types, NEW t \in Timers, NEW n \in 1 .. cast.ticks[t]
  PROVE  /\ Job[t][n] \in Seq(Steps)
         /\ \A k \in DOMAIN Job[t][n] : /\ Job[t][n][k].op \notin {"header", "payload"}
                                        /\ \A c \in Conns : ~Closes(Job[t][n][k], c)
<1> DEFINE q == Job[t][n]
<1>1. q \in Seq(JobSteps(t))
  BY LiveAssumption DEF Types
<1>2. t \in Goroutines
  BY DEF Goroutines
<1>3. ASSUME NEW s \in JobSteps(t)
      PROVE  s \in Steps /\ s.op \notin {"header", "payload"} /\ \A c \in Conns : ~Closes(s, c)
  <2>1. CASE s \in [op : {"publish"}, msg : [from : {t}, data : Seq(Int)]]
    <3>1. s.msg \in [from : {t}, data : Seq(Int)] /\ s = [op |-> "publish", msg |-> s.msg] /\ s.op = "publish"
      BY <2>1
    <3>2. s.msg \in Published
      BY <1>2, <3>1 DEF Published
    <3>3. s = Publish(s.msg)
      BY <3>1 DEF Publish
    <3>4. s \in Steps
      BY <3>2, <3>3, MessageFrames
    <3> QED
      BY <3>1, <3>4, StepCases
  <2>2. CASE s \in [op : {"close"}, to : Conns]
    <3>1. s.to \in Conns /\ s = Close(s.to) /\ s.op = "close"
      BY <2>2 DEF Close
    <3>2. s \in Steps
      BY <3>1, MadeCloses
    <3> QED
      BY <3>1, <3>2, StepCases
  <2> QED
    BY <2>1, <2>2 DEF JobSteps
<1> HIDE DEF q
<1>4. Len(q) \in Nat /\ DOMAIN q = 1 .. Len(q) /\ \A k \in 1 .. Len(q) : q[k] \in JobSteps(t)
  BY <1>1
<1>5. q \in [1 .. Len(q) -> Steps]
  <2>1. q = [k \in 1 .. Len(q) |-> q[k]]
    BY <1>1
  <2>2. \A k \in 1 .. Len(q) : q[k] \in Steps
    BY <1>3, <1>4
  <2> QED
    BY <2>1, <2>2
<1>6. q \in Seq(Steps)
  BY <1>4, <1>5
<1>7. \A k \in DOMAIN q : q[k].op \notin {"header", "payload"} /\ \A c \in Conns : ~Closes(q[k], c)
  BY <1>3, <1>4
<1> QED
  BY <1>6, <1>7 DEF q

\* A timer's function begins.
LEMMA Begun ==
  ASSUME IInv, NEW t \in Timers, mode[t] # "running", NEW n \in 1 .. cast.ticks[t], Runs(t, n),
         mode' = [mode EXCEPT ![t] = "running"],
         UNCHANGED <<cast, connVars, wireVars>>,
         ticks' \in [Timers -> Nat], pending' \in [Timers -> BOOLEAN],
         \A u \in Timers : ticks'[u] <= cast.ticks[u] /\ (pending'[u] => ticks'[u] > 0)
  PROVE  IInv'
<1>1. Types /\ t \in Goroutines
  BY DEF IInv, Goroutines
<1>2. task[t] = <<>>
  BY DEF IInv, Timed
<1> DEFINE q == Job[t][n]
<1>3. /\ q \in Seq(Steps)
      /\ \A k \in DOMAIN q : q[k].op \notin {"header", "payload"} /\ \A c \in Conns : ~Closes(q[k], c)
  BY <1>1, JobOfTimer
<1>4. task' = [task EXCEPT ![t] = q]
  BY DEF Runs
<1> HIDE DEF q
<1>5. UNCHANGED <<tcp, closed, writer, wire, handler>>
  BY DEF connVars, wireVars
<1>6. Whole' /\ Once' /\ task' \in [Goroutines -> Seq(Steps)]
  BY <1>1, <1>2, <1>3, <1>4, <1>5, Begins
<1>7. mode' \in [Timers -> {"select", "parked", "running", "ended"}]
  BY <1>1 DEF Types
<1>8. Timed'
  <2>1. \A u \in Timers \ {t} : mode'[u] = mode[u] /\ task'[u] = task[u]
    BY <1>1, <1>4 DEF Types
  <2>2. mode'[t] = "running"
    BY <1>1 DEF Types
  <2>3. \A u \in Timers : mode'[u] # "running" => task'[u] = <<>>
    BY <2>1, <2>2 DEF IInv, Timed
  <2> QED
    BY <2>3 DEF Timed
<1>9. Types'
  BY <1>1, <1>6, <1>7 DEF Types, connVars, wireVars
<1> QED
  BY <1>6, <1>8, <1>9 DEF IInv

\* A timer waits, ends or gets a tick: it has begun nothing.
LEMMA Waits ==
  ASSUME IInv, UNCHANGED <<cast, task, connVars, wireVars>>,
         mode' \in [Timers -> {"select", "parked", "running", "ended"}],
         \A t \in Timers : mode'[t] = "running" \/ mode[t] # "running" \/ task[t] = <<>>,
         ticks' \in [Timers -> Nat], pending' \in [Timers -> BOOLEAN],
         \A t \in Timers : ticks'[t] <= cast.ticks[t] /\ (pending'[t] => ticks'[t] > 0)
  PROVE  IInv'
<1>1. Types /\ Whole /\ Once
  BY DEF IInv
<1>2. UNCHANGED <<tcp, closed, writer, wire, handler>>
  BY DEF connVars, wireVars
<1>3. Whole' /\ Once'
  BY <1>1, <1>2, Quiet
<1>4. Timed'
  BY DEF IInv, Timed
<1>5. Types'
  BY <1>1 DEF Types, connVars, wireVars
<1> QED
  BY <1>3, <1>4, <1>5 DEF IInv

LEMMA StepTick == ASSUME IInv, NEW t \in Timers, Tick(t) PROVE IInv'
<1>1. Types /\ Timed
  BY DEF IInv
<1>2. /\ cast.ticks \in [Timers -> Nat] /\ cast.ticks[t] \in Nat
      /\ ticks[t] < cast.ticks[t] /\ ticks' = [ticks EXCEPT ![t] = @ + 1] /\ UNCHANGED <<cast, connVars, wireVars>>
      /\ ticks \in [Timers -> Nat] /\ pending \in [Timers -> BOOLEAN]
  BY <1>1, LiveAssumption DEF Tick, Types
<1>3. /\ ticks' \in [Timers -> Nat] /\ ticks'[t] \in 1 .. cast.ticks[t] /\ ticks'[t] > 0
      /\ \A u \in Timers \ {t} : ticks'[u] = ticks[u]
  BY <1>2
<1>4. CASE mode[t] = "parked"
  <2>1. mode' = [mode EXCEPT ![t] = "running"] /\ Runs(t, ticks'[t]) /\ pending' = pending
    BY <1>4 DEF Tick
  <2> DEFINE n == ticks'[t]
  <2>2. n \in 1 .. cast.ticks[t] /\ Runs(t, n)
    BY <1>3, <2>1
  <2>3. \A u \in Timers : ticks'[u] <= cast.ticks[u] /\ (pending'[u] => ticks'[u] > 0)
    BY <1>1, <1>2, <1>3, <2>1 DEF Timed
  <2> HIDE DEF n
  <2> QED
    BY <1>2, <1>3, <1>4, <2>1, <2>2, <2>3, Begun
<1>5. CASE mode[t] # "parked"
  <2>1. pending' = [pending EXCEPT ![t] = TRUE] /\ UNCHANGED <<mode, task>>
    BY <1>5 DEF Tick
  <2>2. pending' \in [Timers -> BOOLEAN] /\ \A u \in Timers \ {t} : pending'[u] = pending[u]
    BY <1>2, <2>1
  <2>3. \A u \in Timers : ticks'[u] <= cast.ticks[u] /\ (pending'[u] => ticks'[u] > 0)
    BY <1>1, <1>2, <1>3, <2>2 DEF Timed
  <2>4. \A u \in Timers : mode'[u] = "running" \/ mode[u] # "running" \/ task[u] = <<>>
    BY <1>1, <2>1
  <2> QED
    BY <1>1, <1>2, <1>3, <2>1, <2>2, <2>3, <2>4, Waits DEF Types
<1> QED
  BY <1>4, <1>5

LEMMA StepSelect == ASSUME IInv, NEW t \in Timers, Select(t) \/ Returned(t) PROVE IInv'
<1>1. Types /\ Timed
  BY DEF IInv
<1>2. /\ ticks \in [Timers -> Nat] /\ pending \in [Timers -> BOOLEAN]
      /\ mode \in [Timers -> {"select", "parked", "running", "ended"}]
      /\ cast.ticks \in [Timers -> Nat]
      /\ \A u \in Timers : ticks[u] <= cast.ticks[u] /\ (pending[u] => ticks[u] > 0)
  BY <1>1, LiveAssumption DEF Types, Timed
<1>3. CASE SelectTick(t)
  <2>1. /\ mode[t] = "select" /\ pending[t] /\ mode' = [mode EXCEPT ![t] = "running"] /\ Runs(t, ticks[t])
        /\ pending' = [pending EXCEPT ![t] = FALSE] /\ UNCHANGED <<cast, connVars, wireVars, ticks>>
    BY <1>3 DEF SelectTick
  <2>2. PICK n \in 1 .. cast.ticks[t] : n = ticks[t]
    BY <1>2, <2>1
  <2>3. \A u \in Timers : ticks'[u] <= cast.ticks[u] /\ (pending'[u] => ticks'[u] > 0)
    BY <1>2, <2>1
  <2>4. pending' \in [Timers -> BOOLEAN] /\ ticks' \in [Timers -> Nat] /\ Runs(t, n) /\ mode[t] # "running"
    BY <1>2, <2>1, <2>2
  <2> QED
    BY <2>1, <2>3, <2>4, Begun
<1>4. CASE SelectStop(t) \/ SelectWaits(t) \/ Returned(t)
  <2>1. /\ UNCHANGED <<cast, task, connVars, wireVars, ticks, pending>>
        /\ \/ mode' = [mode EXCEPT ![t] = "ended"]
           \/ mode' = [mode EXCEPT ![t] = "parked"]
           \/ mode' = [mode EXCEPT ![t] = "select"]
        /\ mode[t] # "running" \/ task[t] = <<>>
    <3>1. CASE SelectStop(t)
      BY <3>1 DEF SelectStop
    <3>2. CASE SelectWaits(t)
      BY <3>2 DEF SelectWaits
    <3>3. CASE Returned(t)
      BY <3>3 DEF Returned
    <3> QED
      BY <1>4, <3>1, <3>2, <3>3
  <2>2. /\ mode' \in [Timers -> {"select", "parked", "running", "ended"}]
        /\ \A u \in Timers \ {t} : mode'[u] = mode[u]
    BY <1>2, <2>1
  <2>3. \A u \in Timers : mode'[u] = "running" \/ mode[u] # "running" \/ task[u] = <<>>
    BY <2>1, <2>2
  <2> QED
    BY <1>2, <2>1, <2>2, <2>3, Waits
<1> QED
  BY <1>3, <1>4 DEF Select

LEMMA StepStop == ASSUME IInv, NEW s \in StopCalls, StopLooks(s) \/ StopCloses(s) PROVE IInv'
<1>1. Types /\ Timed
  BY DEF IInv
<1>2. /\ ticks \in [Timers -> Nat] /\ pending \in [Timers -> BOOLEAN]
      /\ mode \in [Timers -> {"select", "parked", "running", "ended"}]
      /\ \A u \in Timers : ticks[u] <= cast.ticks[u] /\ (pending[u] => ticks[u] > 0)
  BY <1>1 DEF Types, Timed
<1>3. /\ UNCHANGED <<cast, task, connVars, wireVars, ticks, pending>>
      /\ mode' = mode \/ mode' = [mode EXCEPT ![s[2]] = IF @ = "parked" THEN "ended" ELSE @]
  BY DEF StopLooks, StopCloses
<1>4. /\ mode' \in [Timers -> {"select", "parked", "running", "ended"}]
      /\ \A u \in Timers : mode'[u] = "running" \/ mode[u] # "running"
  BY <1>2, <1>3
<1> QED
  BY <1>2, <1>3, <1>4, Waits

LEMMA StepOthers ==
  ASSUME IInv, (\E r \in Requests : Arrive(r) \/ Answer(r)) \/ Signal \/ TenSeconds \/ Exit \/ UNCHANGED vars
  PROVE  IInv'
<1>1. UNCHANGED <<cast, task, connVars, wireVars, timerVars>>
  BY DEF Arrive, Answer, Signal, TenSeconds, Exit, vars
<1>2. UNCHANGED <<mode, ticks, pending>>
  BY <1>1 DEF timerVars
<1>3. /\ ticks \in [Timers -> Nat] /\ pending \in [Timers -> BOOLEAN]
      /\ mode \in [Timers -> {"select", "parked", "running", "ended"}]
      /\ \A u \in Timers : ticks[u] <= cast.ticks[u] /\ (pending[u] => ticks[u] > 0)
  BY DEF IInv, Types, Timed
<1> QED
  BY <1>1, <1>2, <1>3, Waits

-----------------------------------------------------------------------------
(* The theorems *)

LEMMA InitIInv == Init => IInv
<1> SUFFICES ASSUME Init PROVE IInv
  OBVIOUS
<1>1. /\ cast \in Casts /\ task = [g \in Goroutines |-> <<>>] /\ wire = [c \in Conns |-> <<>>]
      /\ writer = [c \in Conns |-> None] /\ tcp = [c \in Conns |-> "closed"] /\ closed = [c \in Conns |-> FALSE]
      /\ handler = [c \in Conns |-> "new"] /\ subs = {} /\ inbox = [c \in Conns |-> <<>>]
      /\ sent = [c \in Conns |-> 0] /\ payload = [c \in Conns |-> <<>>]
      /\ mode = [t \in Timers |-> IF cast.ticks[t] > 0 THEN "select" ELSE "ended"]
      /\ ticks = [t \in Timers |-> 0] /\ pending = [t \in Timers |-> FALSE]
  BY DEF Init
<1>2. \A t \in Timers : t \in Goroutines /\ cast.ticks[t] \in Nat
  BY <1>1, LiveAssumption DEF Goroutines
<1>3. Types
  <2>1. IsFiniteSet(subs)
    BY <1>1, FS_EmptySet
  <2> QED
    BY <1>1, <2>1 DEF Types
<1>4. Timed
  BY <1>1, <1>2 DEF Timed
<1>5. (\A g \in Goroutines : task[g] = <<>>) /\ (\A c \in Conns : wire[c] = <<>>)
  BY <1>1
<1>6. Whole
  <2>1. \A g \in Goroutines : InWriting(task[g])
    BY <1>5 DEF InWriting
  <2>2. \A c \in Conns : \A g \in Goroutines : ~Writes(g, c)
    BY <1>5 DEF Writes
  <2>3. \A c \in Conns : \A g \in Goroutines : writer[c] # g
    BY <1>1, LiveAssumption
  <2>4. \A c \in Conns : Framed(c)
    BY <1>1, <1>5, <2>2 DEF Framed
  <2> QED
    BY <2>1, <2>2, <2>3, <2>4 DEF Whole
<1>7. Once
  BY <1>5 DEF Once, ClosesOnce
<1> QED
  BY <1>3, <1>4, <1>6, <1>7 DEF IInv

LEMMA StepIInv == IInv /\ [Next]_vars => IInv'
<1> SUFFICES ASSUME IInv, [Next]_vars PROVE IInv'
  OBVIOUS
<1>1. ASSUME NEW g \in Goroutines, Step(g) PROVE IInv'
  BY <1>1, StepSteps
<1>2. ASSUME NEW c \in Conns, Connect(c) \/ ClientSends(c) \/ ClientGoes(c) \/ Subscribe(c) \/ RecvNull(c) PROVE IInv'
  BY <1>2, StepConn
<1>3. ASSUME NEW c \in Conns, Recv(c) PROVE IInv'
  BY <1>3, StepRecv
<1>4. ASSUME NEW c \in Conns, Unsubscribe(c) PROVE IInv'
  BY <1>4, StepUnsubscribe
<1>5. ASSUME NEW t \in Timers, Tick(t) PROVE IInv'
  BY <1>5, StepTick
<1>6. ASSUME NEW t \in Timers, Select(t) \/ Returned(t) PROVE IInv'
  BY <1>6, StepSelect
<1>7. ASSUME NEW s \in StopCalls, StopLooks(s) \/ StopCloses(s) PROVE IInv'
  BY <1>7, StepStop
<1>8. ASSUME (\E r \in Requests : Arrive(r) \/ Answer(r)) \/ Signal \/ TenSeconds \/ Exit \/ UNCHANGED vars PROVE IInv'
  BY <1>8, StepOthers
<1> QED
  BY <1>1, <1>2, <1>3, <1>4, <1>5, <1>6, <1>7, <1>8 DEF Next

\* The invariant says that frames are whole.
LEMMA IInvFrames == IInv => FramesWhole
<1> SUFFICES ASSUME IInv, NEW c \in Conns
             PROVE  /\ writer[c] # None =>
                          /\ task[writer[c]] # <<>>
                          /\ Head(task[writer[c]]).op \in {"header", "payload"} /\ Head(task[writer[c]]).to = c
                    /\ \A k \in DOMAIN wire[c] :
                          IF k % 2 = 1 THEN wire[c][k].op = "header"
                          ELSE wire[c][k] = Payload(c, wire[c][k - 1].frame)
                    /\ Cardinality({ k \in DOMAIN wire[c] : k % 2 = 1 /\ wire[c][k].frame = CloseFrame }) <= 1
  BY DEF FramesWhole
<1>1. Types /\ Framed(c) /\ ClosesOnce(c)
  BY DEF IInv, Whole, Once
<1>2. writer[c] # None => /\ task[writer[c]] # <<>>
                          /\ Head(task[writer[c]]).op \in {"header", "payload"} /\ Head(task[writer[c]]).to = c
  <2> SUFFICES ASSUME writer[c] # None PROVE /\ task[writer[c]] # <<>>
                          /\ Head(task[writer[c]]).op \in {"header", "payload"} /\ Head(task[writer[c]]).to = c
    OBVIOUS
  <2>1. writer[c] \in Goroutines
    BY <1>1 DEF Types
  <2>2. PICK g \in Goroutines : g = writer[c]
    BY <2>1
  <2>3. Writes(g, c) /\ task[g] \in Seq(Steps)
    BY <1>1, <2>2 DEF IInv, Whole, Types
  <2>4. Head(task[g]) = task[g][1]
    BY <2>3 DEF Writes
  <2> QED
    BY <2>2, <2>3, <2>4 DEF Writes
<1>3. \A k \in DOMAIN wire[c] : k % 2 = 1 => wire[c][k] = Header(c, wire[c][k].frame)
  BY <1>1 DEF Framed
<1>4. \A k \in DOMAIN wire[c] :
          IF k % 2 = 1 THEN wire[c][k].op = "header"
          ELSE wire[c][k] = Payload(c, wire[c][k - 1].frame)
  <2>1. \A k \in DOMAIN wire[c] : k % 2 = 1 => wire[c][k].op = "header"
    BY <1>3, FrameFields
  <2> QED
    BY <1>1, <2>1 DEF Framed
<1> DEFINE S == { k \in DOMAIN wire[c] : k % 2 = 1 /\ wire[c][k].frame = CloseFrame }
<1>5. \A k, j \in S : k = j
  <2>1. \A k \in S : k \in DOMAIN wire[c] /\ Closes(wire[c][k], c)
    BY <1>3 DEF Closes
  <2> HIDE DEF S
  <2> QED
    BY <1>1, <2>1 DEF ClosesOnce
<1> HIDE DEF S
<1>6. Cardinality(S) <= 1
  <2>1. CASE S = {}
    BY <2>1, FS_EmptySet
  <2>2. CASE S # {}
    <3>1. PICK k \in S : S = {k}
      BY <1>5, <2>2
    <3>2. Cardinality({k}) = 1
      BY FS_Singleton
    <3> QED
      BY <3>1, <3>2
  <2> QED
    BY <2>1, <2>2
<1> QED
  BY <1>2, <1>4, <1>6 DEF S

THEOREM Invariance == Spec => []IInv
<1>1. Init => IInv
  BY InitIInv
<1>2. IInv /\ [Next]_vars => IInv'
  BY StepIInv
<1> QED
  BY <1>1, <1>2, PTL DEF Spec

\* What the peer of a connection gets can be parsed, whoever writes at the same time:
\* each header is followed by its own payload, there is one close frame at most, and
\* who holds writeMu has the rest of its frame to write next (websocket.go: writeFrame,
\* WriteClose).  For any number of connections and timers, whatever clients send.
THEOREM FramesAlwaysWhole == Spec => []FramesWhole
<1>1. IInv => FramesWhole
  BY IInvFrames
<1> QED
  BY <1>1, Invariance, PTL
-----------------------------------------------------------------------------
(* Messages: what a publisher has to say follows what it has said, and what it *)
(* still has to bring to a connection follows what has arrived there.          *)

Sound(m) == m.data # <<>> /\ Head(m.data) <= Last(m.data)

\* A step that is to bring a message to a connection.
Delivers(s) == s.op \in {"send", "header", "payload"} /\ IsMessage(s.frame)

\* The steps of g: a message is brought to its subscribers before the next is
\* published, to each of them once.
InLine(g, q) ==
    /\ \A k \in DOMAIN q : /\ q[k].op = "publish" => q[k].msg.from = g /\ Sound(q[k].msg)
                           /\ Delivers(q[k]) => q[k].frame.from = g
    /\ \A j, k \in DOMAIN q : j < k =>
          /\ q[j].op = "publish" => ~Delivers(q[k])
          /\ q[j].op = "publish" /\ q[k].op = "publish" => Follows(q[j].msg, q[k].msg)
          /\ Delivers(q[j]) /\ Delivers(q[k]) /\ q[j].to = q[k].to => q[j].op = "header" /\ q[k].op = "payload"

\* What is published is new; what is brought was published, for that subscriber.
Known(g, q, told) ==
    \A k \in DOMAIN q :
       /\ q[k].op = "publish" => \A a \in told : a.msg.from = g => Follows(a.msg, q[k].msg)
       /\ Delivers(q[k]) => \E a \in told : a.msg = q[k].frame /\ q[k].to \in a.subs

Places(w) == {k \in DOMAIN w : k % 2 = 0 /\ IsMessage(w[k].frame)}

Later(q, w, c) ==
    \A k \in DOMAIN q : Delivers(q[k]) /\ q[k].to = c =>
       \A j \in Places(w) : w[j].frame.from = q[k].frame.from => Follows(w[j].frame, q[k].frame)

Came(w, c, told) ==
    /\ \A j, k \in Places(w) : j < k /\ w[j].frame.from = w[k].frame.from => Follows(w[j].frame, w[k].frame)
    /\ \A k \in Places(w) : \E a \in told : a.msg = w[k].frame /\ c \in a.subs

\* A message of a is at c, or will come there.
Brings(q, c, m) == \E k \in DOMAIN q : q[k] \in {Send(c, m), Header(c, m), Payload(c, m)}
At(w, m) == \E k \in Places(w) : w[k].frame = m

Heard(told, at) ==
    \A a \in told : /\ a.msg \in Published /\ Sound(a.msg) /\ a.subs \subseteq Conns
                    /\ \A c \in a.subs : at[c] # "new"

\* The messages that g has published or is about to.
Said(g, q, told) == {a.msg : a \in {b \in told : b.msg.from = g}} \cup {q[k].msg : k \in {l \in DOMAIN q : q[l].op = "publish"}}

\* Of n frames a client has sent, its messages hold the first and those being read the last.
Counted(said, n, part) ==
    /\ \A m \in said : Last(m.data) <= n /\ \A i \in DOMAIN part : Last(m.data) < part[i]
    /\ \A i \in DOMAIN part : part[i] <= n

\* A timer has published what its function does at the first n ticks.
Told(t, said, n) == \A m \in said : \E i \in 1 .. n : \E k \in DOMAIN Job[t][i] : Job[t][i][k] = Publish(m)
Due(t) == ticks[t] - (IF pending[t] THEN 1 ELSE 0)

Queues  == \A g \in Goroutines : InLine(g, task[g]) /\ Known(g, task[g], audience)
Wires   == \A c \in Conns : Came(wire[c], c, audience) /\ \A g \in Goroutines : Later(task[g], wire[c], c)
Reaches == \A a \in audience : \A c \in a.subs : At(wire[c], a.msg) \/ tcp[c] # "open" \/ Brings(task[a.msg.from], c, a.msg)
Sources ==
    /\ Heard(audience, handler) /\ \A c \in subs : handler[c] # "new"
    /\ \A c \in Conns : Counted(Said(c, task[c], audience), sent[c] - Len(inbox[c]), payload[c])
    /\ \A t \in Timers : /\ mode[t] = "parked" => ~pending[t]
                         /\ Told(t, Said(t, task[t], audience), Due(t))

DInv == Queues /\ Wires /\ Reaches /\ Sources

(* Places on a wire, and what was said *)

LEMMA MessageIs == \A m \in Published : IsMessage(m)
<1> SUFFICES ASSUME NEW m \in Published PROVE IsMessage(m)
  OBVIOUS
<1>1. m.from \in Goroutines
  BY DEF Published
<1>2. CloseFrame.from = "close" /\ Pong.from = "pong"
  BY DEF CloseFrame, Pong, Message
<1> QED
  BY <1>1, <1>2, LiveAssumption DEF IsMessage

\* A message is brought by a step that delivers, and the other way round.
LEMMA BringsDelivers ==
  ASSUME NEW s \in Steps, NEW c \in Conns, NEW m
  PROVE  /\ s \in {Send(c, m), Header(c, m), Payload(c, m)} <=>
               s.op \in {"send", "header", "payload"} /\ s.to = c /\ s.frame = m
         /\ s.op = "publish" => ~Delivers(s) /\ s \notin {Send(c, m), Header(c, m), Payload(c, m)}
<1>1. s \in {Send(c, m), Header(c, m), Payload(c, m)} =>
         s.op \in {"send", "header", "payload"} /\ s.to = c /\ s.frame = m
  BY FrameFields
<1>2. s.op \in {"send", "header", "payload"} /\ s.to = c /\ s.frame = m =>
         s \in {Send(c, m), Header(c, m), Payload(c, m)}
  BY StepCases
<1>3. s.op = "publish" => ~Delivers(s)
  BY DEF Delivers
<1> QED
  BY <1>1, <1>2, <1>3

\* The wire of a connection when nothing arrives on it.
Alike(w, v) == Places(v) = Places(w) /\ \A k \in Places(w) : v[k] = w[k]

LEMMA AlikeKeeps ==
  ASSUME NEW w, NEW v, Alike(w, v)
  PROVE  /\ \A c, told : Came(w, c, told) => Came(v, c, told)
         /\ \A q, c : Later(q, w, c) => Later(q, v, c)
         /\ \A m : At(w, m) => At(v, m)
<1>1. ASSUME NEW c, NEW told, Came(w, c, told) PROVE Came(v, c, told)
  BY <1>1 DEF Came, Alike
<1>2. ASSUME NEW q, NEW c, Later(q, w, c) PROVE Later(q, v, c)
  BY <1>2 DEF Later, Alike
<1>3. ASSUME NEW m, At(w, m) PROVE At(v, m)
  BY <1>3 DEF At, Alike
<1> QED
  BY <1>1, <1>2, <1>3

LEMMA CameGrows ==
  ASSUME NEW w, NEW c, NEW told, NEW more, told \subseteq more, Came(w, c, told)
  PROVE  Came(w, c, more)
BY DEF Came

\* q has nothing to say or to bring that old had not.
Shrinks(old, q) ==
    \A k \in DOMAIN q :
       /\ q[k].op = "publish" => \E j \in DOMAIN old : old[j] = q[k]
       /\ Delivers(q[k]) => \E j \in DOMAIN old : Delivers(old[j]) /\ old[j].to = q[k].to /\ old[j].frame = q[k].frame

LEMMA Shrunk ==
  ASSUME NEW old, NEW q, Shrinks(old, q)
  PROVE  /\ \A g, told : Known(g, old, told) => Known(g, q, told)
         /\ \A g, told : Said(g, q, told) \subseteq Said(g, old, told)
         /\ \A w, c : Later(old, w, c) => Later(q, w, c)
<1>1. ASSUME NEW g, NEW told, Known(g, old, told) PROVE Known(g, q, told)
  <2> SUFFICES ASSUME NEW k \in DOMAIN q
               PROVE  /\ q[k].op = "publish" => \A a \in told : a.msg.from = g => Follows(a.msg, q[k].msg)
                      /\ Delivers(q[k]) => \E a \in told : a.msg = q[k].frame /\ q[k].to \in a.subs
    BY DEF Known
  <2>1. q[k].op = "publish" => \A a \in told : a.msg.from = g => Follows(a.msg, q[k].msg)
    BY <1>1 DEF Known, Shrinks
  <2>2. Delivers(q[k]) => \E a \in told : a.msg = q[k].frame /\ q[k].to \in a.subs
    <3> SUFFICES ASSUME Delivers(q[k]) PROVE \E a \in told : a.msg = q[k].frame /\ q[k].to \in a.subs
      OBVIOUS
    <3>1. PICK j \in DOMAIN old : Delivers(old[j]) /\ old[j].to = q[k].to /\ old[j].frame = q[k].frame
      BY DEF Shrinks
    <3> QED
      BY <1>1, <3>1 DEF Known
  <2> QED
    BY <2>1, <2>2
<1>2. ASSUME NEW g, NEW told, NEW m \in Said(g, q, told) PROVE m \in Said(g, old, told)
  <2>1. CASE m \in {a.msg : a \in {b \in told : b.msg.from = g}}
    BY <2>1 DEF Said
  <2>2. CASE m \in {q[k].msg : k \in {l \in DOMAIN q : q[l].op = "publish"}}
    <3>1. PICK k \in DOMAIN q : q[k].op = "publish" /\ m = q[k].msg
      BY <2>2
    <3>2. PICK j \in DOMAIN old : old[j] = q[k]
      BY <3>1 DEF Shrinks
    <3> QED
      BY <3>1, <3>2 DEF Said
  <2> QED
    BY <1>2, <2>1, <2>2 DEF Said
<1>3. ASSUME NEW w, NEW c, Later(old, w, c) PROVE Later(q, w, c)
  <2> SUFFICES ASSUME NEW k \in DOMAIN q, Delivers(q[k]), q[k].to = c, NEW j \in Places(w), w[j].frame.from = q[k].frame.from
               PROVE  Follows(w[j].frame, q[k].frame)
    BY DEF Later
  <2>1. PICK i \in DOMAIN old : Delivers(old[i]) /\ old[i].to = q[k].to /\ old[i].frame = q[k].frame
    BY DEF Shrinks
  <2> QED
    BY <1>3, <2>1 DEF Later
<1> QED
  BY <1>1, <1>2, <1>3

\* A list of steps whose first is replaced.
LEMMA SplicedInLine ==
  ASSUME NEW g, NEW old \in Seq(Steps), old # <<>>, NEW steps \in Seq(Steps), InLine(g, old), InLine(g, steps),
         NEW q, q = steps \o Tail(old),
         \A j \in DOMAIN steps : steps[j].op # "publish",
         \A j \in DOMAIN steps, k \in 2 .. Len(old) : Delivers(steps[j]) /\ Delivers(old[k]) => steps[j].to # old[k].to
  PROVE  InLine(g, q)
<1> DEFINE n == Len(steps)
<1>1. n \in Nat /\ DOMAIN steps = 1 .. n /\ Len(old) \in Nat /\ DOMAIN old = 1 .. Len(old)
  OBVIOUS
<1>2. /\ q \in Seq(Steps)
      /\ \A k \in DOMAIN q : \/ k \in 1 .. n /\ q[k] = steps[k]
                             \/ k > n /\ k - n + 1 \in 2 .. Len(old) /\ q[k] = old[k - n + 1]
  BY Spliced
<1>3. DOMAIN q \subseteq Int
  BY <1>2
<1>4. \A k \in DOMAIN q : /\ q[k].op = "publish" => q[k].msg.from = g /\ Sound(q[k].msg)
                          /\ Delivers(q[k]) => q[k].frame.from = g
  <2>1. 2 .. Len(old) \subseteq DOMAIN old
    BY <1>1
  <2> HIDE DEF n
  <2> QED
    BY <1>1, <1>2, <2>1 DEF InLine
<1> HIDE DEF n
<1>5. ASSUME NEW j \in DOMAIN q, NEW k \in DOMAIN q, j < k
      PROVE  /\ q[j].op = "publish" => ~Delivers(q[k])
             /\ q[j].op = "publish" /\ q[k].op = "publish" => Follows(q[j].msg, q[k].msg)
             /\ Delivers(q[j]) /\ Delivers(q[k]) /\ q[j].to = q[k].to => q[j].op = "header" /\ q[k].op = "payload"
  <2>1. CASE k \in 1 .. n
    <3>1. j \in 1 .. n
      BY <1>1, <1>2, <1>3, <1>5, <2>1
    <3>2. q[j] = steps[j] /\ q[k] = steps[k]
      BY <1>1, <1>2, <2>1, <3>1
    <3> QED
      BY <1>1, <1>5, <2>1, <3>1, <3>2 DEF InLine
  <2>2. CASE k \notin 1 .. n
    <3> DEFINE l == k - n + 1
    <3>1. l \in 2 .. Len(old) /\ l \in DOMAIN old /\ q[k] = old[l]
      BY <1>1, <1>2, <2>2
    <3>2. CASE j \in 1 .. n
      <4>1. q[j] = steps[j]
        BY <1>1, <1>2, <3>2
      <4> HIDE DEF l
      <4> QED
        BY <1>1, <3>1, <3>2, <4>1
    <3>3. CASE j \notin 1 .. n
      <4> DEFINE i == j - n + 1
      <4>1. i \in DOMAIN old /\ q[j] = old[i] /\ i < l
        BY <1>1, <1>2, <1>3, <1>5, <3>3
      <4> HIDE DEF l, i
      <4> QED
        BY <3>1, <4>1 DEF InLine
    <3> QED
      BY <3>2, <3>3
  <2> QED
    BY <2>1, <2>2
<1> QED
  BY <1>4, <1>5 DEF InLine

LEMMA NothingInLine == \A g : InLine(g, <<>>)
BY DEF InLine

LEMMA TailInLine ==
  ASSUME NEW g, NEW old \in Seq(Steps), old # <<>>, InLine(g, old)
  PROVE  InLine(g, Tail(old)) /\ Tail(old) \in Seq(Steps) /\ Shrinks(old, Tail(old))
<1> DEFINE q == Tail(old)
           r == <<>> \o q
<1>1. q \in Seq(Steps) /\ \A k \in DOMAIN q : k + 1 \in DOMAIN old /\ q[k] = old[k + 1]
  OBVIOUS
<1>2. r = q
  BY <1>1, ConcatEmptySeq
<1>3. <<>> \in Seq(Steps) /\ DOMAIN <<>> = {}
  OBVIOUS
<1>4. InLine(g, r)
  BY <1>3, NothingInLine, SplicedInLine
<1>5. Shrinks(old, q)
  <2> HIDE DEF q
  <2> QED
    BY <1>1 DEF Shrinks
<1> QED
  BY <1>1, <1>2, <1>4, <1>5

(* What a step leaves as it is *)

\* The counts of what was said hold of less.
LEMMA CountedLess ==
  ASSUME NEW some, NEW said, some \subseteq said
  PROVE  /\ \A n, part : Counted(said, n, part) => Counted(some, n, part)
         /\ \A t, n : Told(t, said, n) => Told(t, some, n)
BY DEF Counted, Told

LEMMA Turns ==
  ASSUME Types, DInv, NEW g \in Goroutines, NEW q, task' = [task EXCEPT ![g] = q], InLine(g, q), Shrinks(task[g], q),
         UNCHANGED <<audience, connVars, mode, ticks, pending>>
  PROVE  Queues' /\ Sources'
<1>1. task'[g] = q /\ \A h \in Goroutines \ {g} : task'[h] = task[h]
  BY DEF Types
<1>2. Queues /\ Sources
  BY DEF DInv
<1>3. Queues'
  <2> SUFFICES ASSUME NEW h \in Goroutines PROVE InLine(h, task'[h]) /\ Known(h, task'[h], audience')
    BY DEF Queues
  <2>1. InLine(h, task[h]) /\ Known(h, task[h], audience)
    BY <1>2 DEF Queues
  <2>2. CASE h = g
    BY <1>1, <2>1, <2>2, Shrunk
  <2>3. CASE h # g
    BY <1>1, <2>1, <2>3
  <2> QED
    BY <2>2, <2>3
<1>4. \A h \in Goroutines : Said(h, task'[h], audience') \subseteq Said(h, task[h], audience)
  <2> SUFFICES ASSUME NEW h \in Goroutines PROVE Said(h, task'[h], audience') \subseteq Said(h, task[h], audience)
    OBVIOUS
  <2>1. Said(g, q, audience) \subseteq Said(g, task[g], audience)
    BY Shrunk
  <2>2. CASE h = g
    BY <1>1, <2>1, <2>2
  <2>3. CASE h # g
    BY <1>1, <2>3
  <2> QED
    BY <2>2, <2>3
<1>5. Sources'
  <2>1. UNCHANGED <<handler, subs, inbox, sent, payload>>
    BY DEF connVars
  <2>2. \A c \in Conns : Counted(Said(c, task'[c], audience'), sent'[c] - Len(inbox'[c]), payload'[c])
    <3> SUFFICES ASSUME NEW c \in Conns PROVE Counted(Said(c, task'[c], audience'), sent'[c] - Len(inbox'[c]), payload'[c])
      OBVIOUS
    <3>1. Counted(Said(c, task[c], audience), sent[c] - Len(inbox[c]), payload[c]) /\ c \in Goroutines
      BY <1>2 DEF Sources, Goroutines
    <3>2. Said(c, task'[c], audience') \subseteq Said(c, task[c], audience)
      BY <1>4, <3>1
    <3> QED
      BY <2>1, <3>1, <3>2, CountedLess
  <2>3. \A t \in Timers : /\ mode'[t] = "parked" => ~pending'[t]
                          /\ Told(t, Said(t, task'[t], audience'), Due(t)')
    <3> SUFFICES ASSUME NEW t \in Timers
                 PROVE  /\ mode'[t] = "parked" => ~pending'[t]
                        /\ Told(t, Said(t, task'[t], audience'), Due(t)')
      OBVIOUS
    <3>1. /\ mode[t] = "parked" => ~pending[t]
          /\ Told(t, Said(t, task[t], audience), Due(t)) /\ t \in Goroutines
      BY <1>2 DEF Sources, Goroutines
    <3>2. Said(t, task'[t], audience') \subseteq Said(t, task[t], audience)
      BY <1>4, <3>1
    <3>3. Due(t)' = Due(t)
      BY DEF Due
    <3> QED
      BY <3>1, <3>2, <3>3, CountedLess
  <2>4. Heard(audience', handler') /\ \A c \in subs' : handler'[c] # "new"
    BY <1>2, <2>1 DEF Sources
  <2> QED
    BY <2>2, <2>3, <2>4 DEF Sources
<1> QED
  BY <1>3, <1>5

LEMMA SameWires ==
  ASSUME Types, DInv, NEW g \in Goroutines, NEW q, task' = [task EXCEPT ![g] = q], Shrinks(task[g], q),
         audience' = audience, \A c \in Conns : Alike(wire[c], wire'[c])
  PROVE  Wires'
<1>1. task'[g] = q /\ \A h \in Goroutines \ {g} : task'[h] = task[h]
  BY DEF Types
<1>2. Wires
  BY DEF DInv
<1> SUFFICES ASSUME NEW c \in Conns
             PROVE  Came(wire'[c], c, audience') /\ \A h \in Goroutines : Later(task'[h], wire'[c], c)
  BY DEF Wires
<1>3. Came(wire[c], c, audience) /\ \A h \in Goroutines : Later(task[h], wire[c], c)
  BY <1>2 DEF Wires
<1>4. Alike(wire[c], wire'[c])
  OBVIOUS
<1>5. Came(wire'[c], c, audience')
  BY <1>3, <1>4, AlikeKeeps
<1>6. ASSUME NEW h \in Goroutines PROVE Later(task'[h], wire'[c], c)
  <2>1. Later(task'[h], wire[c], c)
    <3>1. CASE h = g
      <4>1. Later(task[g], wire[c], c)
        BY <1>3
      <4> QED
        BY <1>1, <3>1, <4>1, Shrunk
    <3>2. CASE h # g
      BY <1>1, <1>3, <3>2
    <3> QED
      BY <3>1, <3>2
  <2> QED
    BY <1>4, <2>1, AlikeKeeps
<1> QED
  BY <1>5, <1>6

LEMMA StillReaches ==
  ASSUME Types, DInv, NEW g \in Goroutines, NEW q, task' = [task EXCEPT ![g] = q], audience' = audience,
         \A c \in Conns : tcp'[c] = "open" => tcp[c] = "open",
         \A c \in Conns, m \in Published : /\ At(wire[c], m) => At(wire'[c], m)
                                           /\ Brings(task[g], c, m) => Brings(q, c, m) \/ tcp'[c] # "open" \/ At(wire'[c], m)
  PROVE  Reaches'
<1>1. task'[g] = q /\ \A h \in Goroutines \ {g} : task'[h] = task[h]
  BY DEF Types
<1>2. Reaches /\ Heard(audience, handler)
  BY DEF DInv, Sources
<1> SUFFICES ASSUME NEW a \in audience, NEW c \in a.subs
             PROVE  At(wire'[c], a.msg) \/ tcp'[c] # "open" \/ Brings(task'[a.msg.from], c, a.msg)
  BY DEF Reaches
<1>3. a.msg \in Published /\ c \in Conns
  BY <1>2 DEF Heard
<1>4. At(wire[c], a.msg) \/ tcp[c] # "open" \/ Brings(task[a.msg.from], c, a.msg)
  BY <1>2 DEF Reaches
<1>5. a.msg.from \in Goroutines
  BY <1>3 DEF Published
<1> DEFINE m == a.msg
           h == a.msg.from
<1> HIDE DEF m, h
<1>6. CASE Brings(task[h], c, m)
  <2>1. CASE h = g
    BY <1>1, <1>3, <1>6, <2>1 DEF m, h
  <2>2. CASE h # g
    BY <1>1, <1>5, <1>6, <2>2 DEF m, h
  <2> QED
    BY <2>1, <2>2
<1> QED
  BY <1>3, <1>4, <1>6 DEF m, h

\* Nothing is lost but the first step.
Has(q, s) == \E i \in DOMAIN q : q[i] = s

LEMMA SplicedHolds ==
  ASSUME NEW old \in Seq(Steps), old # <<>>, NEW steps \in Seq(Steps), NEW q, q = steps \o Tail(old)
  PROVE  /\ \A j \in DOMAIN steps : Has(q, steps[j])
         /\ \A k \in 2 .. Len(old) : Has(q, old[k])
<1> DEFINE r == Tail(old)
           n == Len(steps)
           l == Len(r)
<1>1. r \in Seq(Steps) /\ l = Len(old) - 1 /\ \A k \in 2 .. Len(old) : k - 1 \in 1 .. l /\ r[k - 1] = old[k]
  OBVIOUS
<1>2. n \in Nat /\ DOMAIN steps = 1 .. n /\ l \in Nat
  BY <1>1
<1> HIDE DEF r
<1>3. q \in Seq(Steps) /\ Len(q) = n + l /\ \A x \in 1 .. n + l : q[x] = IF x <= n THEN steps[x] ELSE r[x - n]
  BY <1>1, ConcatProperties DEF r
<1>4. DOMAIN q = 1 .. n + l
  BY <1>3
<1> HIDE DEF n, l
<1>5. ASSUME NEW j \in DOMAIN steps PROVE j \in DOMAIN q /\ q[j] = steps[j]
  BY <1>2, <1>3, <1>4
<1>6. ASSUME NEW k \in 2 .. Len(old) PROVE Has(q, old[k])
  <2> DEFINE i == n + (k - 1)
  <2>1. k - 1 \in 1 .. l /\ r[k - 1] = old[k]
    BY <1>1
  <2>2. i \in 1 .. n + l /\ ~ (i <= n) /\ i - n = k - 1
    BY <1>2, <2>1
  <2>3. q[i] = r[i - n]
    <3> HIDE DEF i
    <3> QED
      BY <1>3, <2>2
  <2>4. i \in DOMAIN q /\ q[i] = old[k]
    <3> HIDE DEF i
    <3> QED
      BY <1>4, <2>1, <2>2, <2>3
  <2> QED
    BY <2>4 DEF Has
<1>7. ASSUME NEW j \in DOMAIN steps PROVE Has(q, steps[j])
  BY <1>5 DEF Has
<1> QED
  BY <1>6, <1>7

\* Steps that bring no message, in the place of one that brings none.
LEMMA CalmDelivery ==
  ASSUME IInv, DInv, NEW g \in Goroutines, task[g] # <<>>, task[g][1].op \notin {"publish", "send", "header", "payload"},
         NEW steps \in Seq(Steps), Replace(g, steps),
         \A k \in DOMAIN steps : steps[k].op # "publish" /\ ~Delivers(steps[k]),
         UNCHANGED <<audience, connVars, mode, ticks, pending, wire>>,
         \A c \in Conns : tcp'[c] = "open" => tcp[c] = "open"
  PROVE  DInv'
<1> DEFINE old == task[g]
           q == steps \o Tail(old)
<1>1. Types /\ task \in [Goroutines -> Seq(Steps)] /\ old \in Seq(Steps)
  BY DEF IInv, Types
<1>2. task' = [task EXCEPT ![g] = q]
  BY <1>1 DEF Replace
<1>3. /\ q \in Seq(Steps)
      /\ \A k \in DOMAIN q :
            \/ k \in 1 .. Len(steps) /\ q[k] = steps[k]
            \/ k > Len(steps) /\ k - Len(steps) + 1 \in 2 .. Len(old) /\ q[k] = old[k - Len(steps) + 1]
  BY <1>1, Spliced
<1>4. InLine(g, old)
  BY DEF DInv, Queues
<1>5. InLine(g, steps)
  BY DEF InLine
<1>6. InLine(g, q)
  <2>1. \A j \in DOMAIN steps, k \in 2 .. Len(old) : Delivers(steps[j]) /\ Delivers(old[k]) => steps[j].to # old[k].to
    OBVIOUS
  <2> HIDE DEF old
  <2> QED
    BY <1>1, <1>4, <1>5, <2>1, SplicedInLine DEF old
<1> DEFINE n == Len(steps)
<1>7. n \in Nat /\ Len(old) \in Nat /\ DOMAIN old = 1 .. Len(old) /\ DOMAIN steps = 1 .. n
  BY <1>1
<1>8. Shrinks(old, q)
  <2> SUFFICES ASSUME NEW k \in DOMAIN q, q[k].op = "publish" \/ Delivers(q[k])
               PROVE  \E j \in DOMAIN old : old[j] = q[k]
    BY DEF Shrinks
  <2>1. k > n /\ k - n + 1 \in 2 .. Len(old) /\ q[k] = old[k - n + 1]
    BY <1>3, <1>7
  <2> DEFINE l == k - n + 1
  <2>2. l \in DOMAIN old /\ q[k] = old[l]
    BY <1>7, <2>1
  <2> HIDE DEF l
  <2> QED
    BY <2>2
<1>9. ASSUME NEW c \in Conns, NEW m, Brings(old, c, m) PROVE Brings(q, c, m)
  <2>1. PICK k \in DOMAIN old : old[k] \in {Send(c, m), Header(c, m), Payload(c, m)}
    BY <1>9 DEF Brings
  <2>2. k # 1
    BY <2>1, FrameFields
  <2>3. k \in 2 .. Len(old)
    BY <1>7, <2>2
  <2>4. Has(q, old[k])
    <3>1. old \in Seq(Steps) /\ old # <<>> /\ steps \in Seq(Steps) /\ q = steps \o Tail(old)
      BY <1>1
    <3> HIDE DEF old, q
    <3> QED
      BY <2>3, <3>1, SplicedHolds
  <2>5. PICK i \in DOMAIN q : q[i] = old[k]
    BY <2>4 DEF Has
  <2> HIDE DEF q, old
  <2> QED
    BY <2>1, <2>5 DEF Brings
<1> HIDE DEF q, old
<1>10. Queues' /\ Sources'
  BY <1>1, <1>2, <1>6, <1>8, Turns DEF old
<1>11. \A c \in Conns : Alike(wire[c], wire'[c])
  BY DEF Alike
<1>12. Wires'
  BY <1>1, <1>2, <1>8, <1>11, SameWires DEF old
<1>13. Reaches'
  BY <1>1, <1>2, <1>9, StillReaches DEF old
<1> QED
  BY <1>10, <1>12, <1>13 DEF DInv

LEMMA CloseDelivery == ASSUME IInv, DInv, NEW g \in Goroutines, DoClose(g) PROVE DInv'
<1>1. Types
  BY DEF IInv
<1> DEFINE c == task[g][1].to
<1>2. /\ task[g] \in Seq(Steps) /\ task[g] # <<>> /\ Head(task[g]) = task[g][1]
      /\ task[g][1] \in Steps /\ task[g][1].op = "close"
  BY <1>1, Doer DEF DoClose
<1>3. c \in Conns
  BY <1>2, StepCases
<1>4. /\ Replace(g, IF closed[c] THEN <<>> ELSE <<Send(c, CloseFrame), HangUp(c)>>)
      /\ UNCHANGED <<audience, connVars, timerVars, tcp, wire>>
  BY <1>2 DEF DoClose
<1>5. UNCHANGED <<mode, ticks, pending>>
  BY <1>4 DEF timerVars
<1> HIDE DEF c
<1>6. CASE closed[c]
  <2>1. <<>> \in Seq(Steps) /\ DOMAIN <<>> = {} /\ Replace(g, <<>>)
    BY <1>4, <1>6
  <2> QED
    BY <1>2, <1>4, <1>5, <2>1, CalmDelivery
<1>7. CASE ~closed[c]
  <2> DEFINE s == Send(c, CloseFrame)
             h == HangUp(c)
             steps == <<s, h>>
  <2>1. s \in Steps /\ s.op = "send" /\ s.frame = CloseFrame /\ h \in Steps /\ h.op = "hang up"
    <3>1. CloseFrame \in Written
      BY DEF Written
    <3>2. s \in Steps /\ s.op = "send" /\ s.frame = CloseFrame
      BY <1>3, <3>1, MadeFrames, FrameFields
    <3>3. h \in Steps /\ h.op = "hang up"
      BY <1>3, MadeCloses, ConnFields
    <3> QED
      BY <3>2, <3>3
  <2>2. ~Delivers(s) /\ ~Delivers(h)
    BY <2>1 DEF Delivers, IsMessage
  <2> HIDE DEF s, h
  <2>3. steps \in Seq(Steps) /\ \A k \in DOMAIN steps : steps[k].op # "publish" /\ ~Delivers(steps[k])
    <3>0. s \in Steps /\ h \in Steps
      BY <2>1
    <3>1. steps \in Seq(Steps) /\ DOMAIN steps = 1 .. 2 /\ steps[1] = s /\ steps[2] = h
      BY <3>0
    <3>2. \A k \in 1 .. 2 : k = 1 \/ k = 2
      OBVIOUS
    <3> HIDE DEF steps
    <3> QED
      BY <2>1, <2>2, <3>1, <3>2
  <2>4. Replace(g, steps)
    BY <1>4, <1>7 DEF s, h
  <2> HIDE DEF steps
  <2> QED
    BY <1>2, <1>4, <1>5, <2>3, <2>4, CalmDelivery
<1> QED
  BY <1>6, <1>7

LEMMA HangUpDelivery == ASSUME IInv, DInv, NEW g \in Goroutines, DoHangUp(g) PROVE DInv'
<1>1. Types
  BY DEF IInv
<1>2. /\ task[g] \in Seq(Steps) /\ task[g] # <<>> /\ Head(task[g]) = task[g][1]
      /\ task[g][1] \in Steps /\ task[g][1].op = "hang up"
  BY <1>1, Doer DEF DoHangUp
<1>3. /\ tcp' = [tcp EXCEPT ![task[g][1].to] = "closed"] /\ Replace(g, <<>>)
      /\ UNCHANGED <<audience, connVars, timerVars, wire>>
  BY <1>2 DEF DoHangUp
<1>4. UNCHANGED <<mode, ticks, pending>> /\ \A c \in Conns : tcp'[c] = "open" => tcp[c] = "open"
  BY <1>1, <1>3 DEF timerVars, Types
<1>5. <<>> \in Seq(Steps) /\ DOMAIN <<>> = {}
  OBVIOUS
<1> QED
  BY <1>2, <1>3, <1>4, <1>5, CalmDelivery

\* Whatever a step does not replace is still to come.
LEMMA HeldBrings ==
  ASSUME NEW old \in Seq(Steps), NEW q, \A k \in 2 .. Len(old) : Has(q, old[k]),
         NEW c, NEW m, Brings(old, c, m)
  PROVE  Brings(q, c, m) \/ old[1] \in {Send(c, m), Header(c, m), Payload(c, m)}
<1>1. PICK k \in DOMAIN old : old[k] \in {Send(c, m), Header(c, m), Payload(c, m)}
  BY DEF Brings
<1>2. CASE k = 1
  BY <1>1, <1>2
<1>3. CASE k # 1
  <2>1. k \in 2 .. Len(old)
    BY <1>3
  <2>2. Has(q, old[k])
    BY <2>1
  <2>3. PICK i \in DOMAIN q : q[i] = old[k]
    BY <2>2 DEF Has
  <2> QED
    BY <1>1, <2>3 DEF Brings
<1> QED
  BY <1>2, <1>3

LEMMA TailHolds ==
  ASSUME NEW old \in Seq(Steps), old # <<>>
  PROVE  \A k \in 2 .. Len(old) : Has(Tail(old), old[k])
<1> DEFINE q == Tail(old)
<1>1. \A k \in 2 .. Len(old) : k - 1 \in DOMAIN q /\ q[k - 1] = old[k]
  OBVIOUS
<1> HIDE DEF q
<1>2. ASSUME NEW k \in 2 .. Len(old) PROVE Has(q, old[k])
  <2> DEFINE i == k - 1
  <2>1. i \in DOMAIN q /\ q[i] = old[k]
    BY <1>1
  <2> HIDE DEF i
  <2> QED
    BY <2>1 DEF Has
<1> QED
  BY <1>2 DEF q

\* A header stands at an odd place.
LEMMA HeaderAlike ==
  ASSUME NEW w \in Seq(Pieces), Len(w) % 2 = 0, NEW p
  PROVE  Alike(w, Append(w, p))
<1> DEFINE v == Append(w, p)
           n == Len(w)
<1>1. /\ n \in Nat /\ DOMAIN w = 1 .. n /\ DOMAIN v = 1 .. n + 1 /\ \A k \in 1 .. n : v[k] = w[k]
      /\ n % 2 = 0
  OBVIOUS
<1> HIDE DEF n, v
<1>2. (n + 1) % 2 # 0
  BY <1>1, Parity
<1>3. \A k \in 1 .. n + 1 : k \in 1 .. n \/ k = n + 1
  BY <1>1
<1>4. 1 .. n \subseteq 1 .. n + 1
  BY <1>1
<1>5. Places(v) = Places(w)
  BY <1>1, <1>2, <1>3, <1>4 DEF Places
<1> QED
  BY <1>1, <1>5 DEF Alike, Places, v

LEMMA SendDelivery == ASSUME IInv, DInv, NEW g \in Goroutines, DoSend(g) PROVE DInv'
<1>1. Types
  BY DEF IInv
<1> DEFINE old == task[g]
           c == old[1].to
           f == old[1].frame
           h == Header(c, f)
           p == Payload(c, f)
           steps == <<h, p>>
           q == steps \o Tail(old)
<1>2. /\ old \in Seq(Steps) /\ old # <<>> /\ Head(old) = old[1]
      /\ old[1] \in Steps /\ old[1].op = "send" /\ 1 \in DOMAIN old
  BY <1>1, Doer DEF DoSend
<1>3. c \in Conns /\ f \in Written
  BY <1>2, StepCases
<1>4. /\ task' = [task EXCEPT ![g] = q]
      /\ UNCHANGED <<audience, connVars, timerVars, tcp, wire>>
  BY <1>1, <1>2 DEF DoSend, Replace, Types
<1>5. UNCHANGED <<mode, ticks, pending>>
  BY <1>4 DEF timerVars
<1>6. InLine(g, old)
  BY DEF DInv, Queues
<1>7. /\ h \in Steps /\ p \in Steps /\ h.op = "header" /\ h.to = c /\ h.frame = f /\ p.op = "payload" /\ p.to = c /\ p.frame = f
  BY <1>3, MadeFrames, FrameFields DEF Steps
<1>8. /\ Delivers(h) <=> Delivers(old[1])
      /\ Delivers(p) <=> Delivers(old[1])
  BY <1>2, <1>7 DEF Delivers
<1> HIDE DEF h, p
<1>9. steps \in Seq(Steps) /\ Len(steps) = 2 /\ DOMAIN steps = 1 .. 2 /\ steps[1] = h /\ steps[2] = p
  BY <1>7
<1>10. \A k \in 1 .. 2 : k = 1 \/ k = 2
  OBVIOUS
<1> HIDE DEF steps
<1>11. InLine(g, steps)
  <2>1. Delivers(old[1]) => f.from = g
    BY <1>2, <1>6 DEF InLine
  <2>2. \A j, k \in 1 .. 2 : j < k => j = 1 /\ k = 2
    OBVIOUS
  <2> HIDE DEF old, c, f
  <2> QED
    BY <1>7, <1>8, <1>9, <1>10, <2>1, <2>2 DEF InLine
<1>12. \A j \in DOMAIN steps : /\ steps[j].op # "publish" /\ steps[j].to = c /\ steps[j].frame = f
                               /\ Delivers(steps[j]) => Delivers(old[1])
  <2> HIDE DEF old, c, f
  <2> QED
    BY <1>7, <1>8, <1>9, <1>10
<1>13. \A k \in 2 .. Len(old) : Delivers(old[1]) /\ Delivers(old[k]) => c # old[k].to
  <2>1. \A k \in 2 .. Len(old) : k \in DOMAIN old /\ 1 < k
    BY <1>2
  <2> QED
    BY <1>2, <1>6, <2>1 DEF InLine
<1> HIDE DEF c, f
<1>14. InLine(g, q)
  <2>1. q = steps \o Tail(old)
    OBVIOUS
  <2> HIDE DEF old, q
  <2> QED
    BY <1>2, <1>6, <1>9, <1>11, <1>12, <1>13, <2>1, SplicedInLine
<1>15. /\ \A k \in DOMAIN q :
            \/ k \in 1 .. Len(steps) /\ q[k] = steps[k]
            \/ k > Len(steps) /\ k - Len(steps) + 1 \in 2 .. Len(old) /\ q[k] = old[k - Len(steps) + 1]
       /\ q \in Seq(Steps)
  BY <1>2, <1>9, Spliced
<1>16. Shrinks(old, q)
  <2> SUFFICES ASSUME NEW k \in DOMAIN q
               PROVE  /\ q[k].op = "publish" => \E j \in DOMAIN old : old[j] = q[k]
                      /\ Delivers(q[k]) => \E j \in DOMAIN old : Delivers(old[j]) /\ old[j].to = q[k].to /\ old[j].frame = q[k].frame
    BY DEF Shrinks
  <2>1. CASE k \in 1 .. Len(steps) /\ q[k] = steps[k]
    <3>1. k \in DOMAIN steps
      BY <1>9, <2>1
    <3>2. old[1].to = c /\ old[1].frame = f
      BY DEF c, f
    <3> HIDE DEF old, q
    <3> QED
      BY <1>2, <1>12, <2>1, <3>1, <3>2
  <2>2. CASE k > Len(steps) /\ k - Len(steps) + 1 \in 2 .. Len(old) /\ q[k] = old[k - Len(steps) + 1]
    <3> DEFINE l == k - Len(steps) + 1
    <3>1. l \in DOMAIN old /\ q[k] = old[l]
      BY <1>2, <2>2
    <3> HIDE DEF l, q, old
    <3> QED
      BY <3>1
  <2> QED
    BY <1>15, <2>1, <2>2
<1>17. (\A k \in 2 .. Len(old) : Has(q, old[k])) /\ Has(q, h)
  <2>1. old \in Seq(Steps) /\ old # <<>> /\ steps \in Seq(Steps) /\ q = steps \o Tail(old)
    BY <1>2, <1>9
  <2> HIDE DEF old, q
  <2>2. \A j \in DOMAIN steps : Has(q, steps[j])
    BY <2>1, SplicedHolds
  <2>3. \A k \in 2 .. Len(old) : Has(q, old[k])
    BY <2>1, SplicedHolds
  <2>4. 1 \in DOMAIN steps
    BY <1>9
  <2> QED
    BY <1>9, <2>2, <2>3, <2>4
<1> HIDE DEF q
<1>18. ASSUME NEW o \in Conns, NEW m, Brings(old, o, m) PROVE Brings(q, o, m)
  <2>1. Brings(q, o, m) \/ old[1] \in {Send(o, m), Header(o, m), Payload(o, m)}
    <3> HIDE DEF old
    <3> QED
      BY <1>2, <1>17, <1>18, HeldBrings
  <2>2. CASE old[1] \in {Send(o, m), Header(o, m), Payload(o, m)}
    <3>1. o = c /\ m = f
      BY <2>2, FrameFields DEF c, f
    <3>2. PICK i \in DOMAIN q : q[i] = h
      BY <1>17 DEF Has
    <3> QED
      BY <3>1, <3>2 DEF Brings, h
  <2> QED
    BY <2>1, <2>2
<1> HIDE DEF old
<1>19. Queues' /\ Sources'
  BY <1>1, <1>4, <1>5, <1>14, <1>16, Turns DEF old
<1>20. \A o \in Conns : Alike(wire[o], wire'[o])
  BY <1>4 DEF Alike
<1>21. Wires'
  BY <1>1, <1>4, <1>16, <1>20, SameWires DEF old
<1>22. Reaches'
  BY <1>1, <1>4, <1>18, StillReaches DEF old
<1> QED
  BY <1>19, <1>21, <1>22 DEF DInv

LEMMA HeaderDelivery == ASSUME IInv, DInv, NEW g \in Goroutines, DoHeader(g) PROVE DInv'
<1>1. Types /\ Whole
  BY DEF IInv
<1> DEFINE old == task[g]
           r == Tail(old)
           s == Tail(r)
<1>2. /\ old \in Seq(Steps) /\ old # <<>> /\ Head(task[g]) = old[1]
      /\ old[1] \in Steps /\ old[1].op = "header" /\ 1 \in DOMAIN old
  BY <1>1, Doer DEF DoHeader
<1>3. PICK c \in Conns, f \in Written : old[1].to = c /\ old[1].frame = f
  BY <1>2, StepCases
<1>4. old[1] = Header(c, f) /\ old[1] \in Pieces
  BY <1>2, <1>3, StepCases
<1>5. Writes(g, c) /\ InWriting(old) /\ Framed(c)
  BY <1>1, <1>2, <1>3 DEF Writes, Whole
<1>6. Len(old) > 1 /\ old[2] = Payload(c, f) /\ DOMAIN old = 1 .. Len(old) /\ Len(old) \in Nat
  BY <1>2, <1>3, <1>5 DEF InWriting
<1>7. /\ wire' = [wire EXCEPT ![c] = IF tcp[c] = "open" THEN Append(@, old[1]) ELSE @]
      /\ task' = [task EXCEPT ![g] = IF tcp[c] = "open" THEN r ELSE s]
      /\ UNCHANGED <<audience, connVars, tcp, timerVars>>
  BY <1>2, <1>3 DEF DoHeader, Put
<1>8. UNCHANGED <<mode, ticks, pending>>
  BY <1>7 DEF timerVars
<1>9. InLine(g, old)
  BY DEF DInv, Queues
<1>10. r = Tail(old) /\ s = Tail(r)
  OBVIOUS
<1> HIDE DEF old, r, s
<1>11. InLine(g, r) /\ r \in Seq(Steps) /\ Shrinks(old, r)
  BY <1>2, <1>9, <1>10, TailInLine
<1>12. \A k \in 2 .. Len(old) : Has(r, old[k])
  BY <1>2, <1>10, TailHolds
<1>13. r # <<>> /\ r[1] = old[2] /\ Len(r) = Len(old) - 1
  <2>1. /\ Len(r) = Len(old) - 1
        /\ \A k \in DOMAIN r : k \in 1 .. Len(r) /\ k + 1 \in DOMAIN old /\ r[k] = old[k + 1]
    <3>1. r = Tail(old)
      BY <1>10
    <3> QED
      BY <1>2, <3>1, Rest
  <2>2. 1 \in DOMAIN r
    BY <1>6, <1>11, <2>1
  <2>3. r[1] = old[1 + 1]
    BY <2>1, <2>2
  <2> QED
    BY <2>1, <2>2, <2>3
<1>14. InLine(g, s) /\ s \in Seq(Steps) /\ Shrinks(r, s)
  BY <1>10, <1>11, <1>13, TailInLine
<1>15. \A k \in 2 .. Len(r) : Has(s, r[k])
  BY <1>10, <1>11, <1>13, TailHolds
<1>16. ASSUME NEW o \in Conns, NEW m, Brings(old, o, m) PROVE Brings(r, o, m)
  <2>1. Brings(r, o, m) \/ old[1] \in {Send(o, m), Header(o, m), Payload(o, m)}
    BY <1>2, <1>12, <1>16, HeldBrings
  <2>2. CASE old[1] \in {Send(o, m), Header(o, m), Payload(o, m)}
    <3>1. o = c /\ m = f
      BY <1>3, <2>2, FrameFields
    <3>2. 1 \in DOMAIN r /\ r[1] = Payload(o, m)
      BY <1>6, <1>11, <1>13, <3>1
    <3> QED
      BY <3>2 DEF Brings
  <2> QED
    BY <2>1, <2>2
<1>17. ASSUME NEW o \in Conns, NEW m, Brings(old, o, m) PROVE Brings(s, o, m) \/ o = c
  <2>1. Brings(r, o, m)
    BY <1>16, <1>17
  <2>2. Brings(s, o, m) \/ r[1] \in {Send(o, m), Header(o, m), Payload(o, m)}
    BY <1>11, <1>15, <2>1, HeldBrings
  <2>3. r[1] \in {Send(o, m), Header(o, m), Payload(o, m)} => o = c
    BY <1>6, <1>13, FrameFields
  <2> QED
    BY <2>2, <2>3
<1>18. Shrinks(old, s)
  BY <1>11, <1>14 DEF Shrinks
<1>19. CASE tcp[c] = "open"
  <2>1. task' = [task EXCEPT ![g] = r] /\ wire \in [Conns -> Seq(Pieces)]
    BY <1>1, <1>7, <1>19 DEF Types
  <2>2. \A o \in Conns : Alike(wire[o], wire'[o])
    <3>1. Len(wire[c]) % 2 = 0
      <4>1. IF Len(wire[c]) % 2 = 0 THEN old[1].op = "header" ELSE old[1] = Payload(c, wire[c][Len(wire[c])].frame)
        BY <1>5, <1>19 DEF Framed, old
      <4>2. \A x : Payload(c, x).op = "payload"
        BY FrameFields
      <4> QED
        BY <1>2, <4>1, <4>2
    <3>2. wire'[c] = Append(wire[c], old[1]) /\ \A o \in Conns \ {c} : wire'[o] = wire[o]
      BY <1>7, <1>19, <2>1
    <3>3. Alike(wire[c], wire'[c])
      <4>1. wire[c] \in Seq(Pieces)
        BY <2>1
      <4> QED
        BY <3>1, <3>2, <4>1, HeaderAlike
    <3>4. \A o \in Conns \ {c} : Alike(wire[o], wire'[o])
      BY <3>2 DEF Alike
    <3> QED
      BY <3>3, <3>4
  <2>3. Queues' /\ Sources'
    BY <1>1, <1>7, <1>8, <1>11, <2>1, Turns DEF old
  <2>4. Wires'
    BY <1>1, <1>7, <1>11, <2>1, <2>2, SameWires DEF old
  <2>5. \A o \in Conns, m \in Published : At(wire[o], m) => At(wire'[o], m)
    <3> SUFFICES ASSUME NEW o \in Conns, NEW m \in Published, At(wire[o], m) PROVE At(wire'[o], m)
      OBVIOUS
    <3>1. Alike(wire[o], wire'[o])
      BY <2>2
    <3> QED
      BY <3>1, AlikeKeeps
  <2>6. Reaches'
    BY <1>1, <1>7, <1>16, <2>1, <2>5, StillReaches DEF old
  <2> QED
    BY <2>3, <2>4, <2>6 DEF DInv
<1>20. CASE tcp[c] # "open"
  <2>1. task' = [task EXCEPT ![g] = s] /\ wire' = wire
    BY <1>1, <1>7, <1>20 DEF Types
  <2>2. Queues' /\ Sources'
    BY <1>1, <1>7, <1>8, <1>14, <1>18, <2>1, Turns DEF old
  <2>3. \A o \in Conns : Alike(wire[o], wire'[o])
    BY <2>1 DEF Alike
  <2>4. Wires'
    BY <1>1, <1>7, <1>18, <2>1, <2>3, SameWires DEF old
  <2>5. Reaches'
    <3>1. \A o \in Conns : tcp'[o] = "open" => tcp[o] = "open"
      BY <1>7
    <3>2. \A o \in Conns, m \in Published : At(wire[o], m) => At(wire'[o], m)
      BY <2>1
    <3>3. \A o \in Conns, m \in Published : Brings(task[g], o, m) => Brings(s, o, m) \/ tcp'[o] # "open"
      BY <1>7, <1>17, <1>20 DEF old
    <3>4. audience' = audience
      BY <1>7
    <3> QED
      BY <1>1, <2>1, <3>1, <3>2, <3>3, <3>4, StillReaches
  <2> QED
    BY <2>2, <2>4, <2>5 DEF DInv
<1> QED
  BY <1>19, <1>20

\* A payload stands at an even place: its message has arrived there.
Grown(w, v, p) ==
    /\ ~IsMessage(p.frame) => Alike(w, v)
    /\ IsMessage(p.frame) => Places(v) = Places(w) \cup {Len(w) + 1}
    /\ Len(w) \in Nat /\ v[Len(w) + 1] = p
    /\ \A k \in Places(w) : v[k] = w[k] /\ k \in Int /\ k <= Len(w)

LEMMA PayloadArrives ==
  ASSUME NEW w \in Seq(Pieces), Len(w) % 2 = 1, NEW p
  PROVE  Grown(w, Append(w, p), p)
<1> DEFINE v == Append(w, p)
<1> DEFINE n == Len(w)
<1>1. /\ n \in Nat /\ DOMAIN w = 1 .. n /\ DOMAIN v = 1 .. n + 1 /\ \A k \in 1 .. n : v[k] = w[k]
      /\ n % 2 = 1 /\ v[n + 1] = p
  OBVIOUS
<1> HIDE DEF n, v
<1>2. (n + 1) % 2 = 0
  BY <1>1, Parity
<1>3. \A k \in 1 .. n + 1 : k \in 1 .. n \/ k = n + 1
  BY <1>1
<1>4. 1 .. n \subseteq 1 .. n + 1 /\ n + 1 \in 1 .. n + 1 /\ n + 1 \notin 1 .. n
  BY <1>1
<1>5. IsMessage(p.frame) => Places(v) = Places(w) \cup {n + 1}
  BY <1>1, <1>2, <1>3, <1>4 DEF Places
<1>6. ~IsMessage(p.frame) => Places(v) = Places(w)
  BY <1>1, <1>2, <1>3, <1>4 DEF Places
<1>7. \A k \in Places(w) : k \in 1 .. n
  BY <1>1 DEF Places
<1>8. \A k \in Places(w) : v[k] = w[k] /\ k \in Int /\ k <= n
  BY <1>1, <1>7
<1> QED
  BY <1>1, <1>5, <1>6, <1>8 DEF Alike, Grown, n, v

LEMMA PayloadDelivery == ASSUME IInv, DInv, NEW g \in Goroutines, DoPayload(g) PROVE DInv'
<1>1. Types /\ Whole
  BY DEF IInv
<1> DEFINE old == task[g]
           q == Tail(old)
<1>2. /\ old \in Seq(Steps) /\ old # <<>> /\ Head(task[g]) = old[1]
      /\ old[1] \in Steps /\ old[1].op = "payload" /\ 1 \in DOMAIN old
  BY <1>1, Doer DEF DoPayload
<1>3. PICK c \in Conns, f \in Written : old[1].to = c /\ old[1].frame = f
  BY <1>2, StepCases
<1>4. old[1] = Payload(c, f) /\ old[1] \in Pieces
  BY <1>2, <1>3, StepCases
<1>5. Writes(g, c) /\ Framed(c)
  BY <1>1, <1>2, <1>3 DEF Writes, Whole
<1>6. <<>> \o q = q
  <2>1. q \in Seq(Steps)
    BY <1>2
  <2> QED
    BY <2>1, ConcatEmptySeq
<1>7. /\ wire' = [wire EXCEPT ![c] = IF tcp[c] = "open" THEN Append(@, old[1]) ELSE @]
      /\ task' = [task EXCEPT ![g] = <<>> \o q]
      /\ UNCHANGED <<audience, connVars, tcp, timerVars>>
  BY <1>1, <1>2, <1>3 DEF DoPayload, Put, Replace, Types
<1>8. UNCHANGED <<mode, ticks, pending>> /\ task' = [task EXCEPT ![g] = q]
  BY <1>6, <1>7 DEF timerVars
<1>9. InLine(g, old) /\ Known(g, old, audience)
  BY DEF DInv, Queues
<1>10. q = Tail(old) /\ wire \in [Conns -> Seq(Pieces)] /\ task'[g] = q /\ \A h \in Goroutines \ {g} : task'[h] = task[h]
  BY <1>1, <1>8 DEF Types
<1> HIDE DEF old, q
<1>11. InLine(g, q) /\ q \in Seq(Steps) /\ Shrinks(old, q)
  BY <1>2, <1>9, <1>10, TailInLine
<1>12. \A k \in 2 .. Len(old) : Has(q, old[k])
  BY <1>2, <1>10, TailHolds
<1>13. ASSUME NEW o \in Conns, NEW m, Brings(old, o, m) PROVE Brings(q, o, m) \/ (o = c /\ m = f)
  <2>1. Brings(q, o, m) \/ old[1] \in {Send(o, m), Header(o, m), Payload(o, m)}
    BY <1>2, <1>12, <1>13, HeldBrings
  <2>2. old[1] \in {Send(o, m), Header(o, m), Payload(o, m)} => o = c /\ m = f
    BY <1>3, FrameFields
  <2> QED
    BY <2>1, <2>2
<1>14. Queues' /\ Sources'
  BY <1>1, <1>7, <1>8, <1>11, Turns DEF old
<1>15. \A o \in Conns \ {c} : wire'[o] = wire[o] /\ Alike(wire[o], wire'[o])
  BY <1>7, <1>10 DEF Alike
<1>16. \A o \in Conns : tcp'[o] = tcp[o]
  BY <1>7
<1>17. audience' = audience
  BY <1>7
<1>18. CASE tcp[c] # "open"
  <2>1. wire' = wire /\ \A o \in Conns : Alike(wire[o], wire'[o])
    BY <1>7, <1>10, <1>18 DEF Alike
  <2>2. Wires'
    BY <1>1, <1>8, <1>11, <1>17, <2>1, SameWires DEF old
  <2>3. \A o \in Conns, m \in Published : Brings(task[g], o, m) => Brings(q, o, m) \/ tcp'[o] # "open"
    BY <1>13, <1>16, <1>18 DEF old
  <2>4. Reaches'
    <3>1. \A o \in Conns : tcp'[o] = "open" => tcp[o] = "open"
      BY <1>16
    <3>2. \A o \in Conns, m \in Published : At(wire[o], m) => At(wire'[o], m)
      BY <2>1
    <3>3. \A o \in Conns, m \in Published :
             /\ At(wire[o], m) => At(wire'[o], m)
             /\ Brings(task[g], o, m) => Brings(q, o, m) \/ tcp'[o] # "open" \/ At(wire'[o], m)
      BY <2>3, <3>2
    <3>4. task' = [task EXCEPT ![g] = q] /\ audience' = audience
      BY <1>8, <1>17
    <3> QED
      BY <1>1, <3>1, <3>3, <3>4, StillReaches
  <2> QED
    BY <1>14, <2>2, <2>4 DEF DInv
<1>19. CASE tcp[c] = "open"
  <2> DEFINE w == wire[c]
             v == Append(w, old[1])
  <2>1. w \in Seq(Pieces) /\ wire'[c] = v /\ v = Append(w, old[1])
    BY <1>7, <1>10, <1>19
  <2>2. Len(w) % 2 = 1
    <3>1. IF Len(w) % 2 = 0 THEN old[1].op = "header" ELSE old[1] = Payload(c, w[Len(w)].frame)
      BY <1>5, <1>19 DEF Framed, old
    <3>2. Len(w) \in Nat
      BY <2>1
    <3>3. Len(w) % 2 = 0 \/ Len(w) % 2 = 1
      BY <3>2, Parity
    <3> QED
      BY <1>2, <3>1, <3>3
  <2> HIDE DEF w, v
  <2>0. Grown(w, v, old[1])
    BY <2>1, <2>2, PayloadArrives
  <2>3. ~IsMessage(f) => Alike(w, v)
    BY <1>3, <2>0 DEF Grown
  <2>4. CASE ~IsMessage(f)
    <3>1. \A o \in Conns : Alike(wire[o], wire'[o])
      BY <1>15, <2>1, <2>3, <2>4 DEF w
    <3>2. Wires'
      BY <1>1, <1>8, <1>11, <1>17, <3>1, SameWires DEF old
    <3>3. \A o \in Conns, m \in Published : Brings(task[g], o, m) => Brings(q, o, m)
      BY <1>13, <2>4, MessageIs DEF old
    <3>4. ASSUME NEW o \in Conns, NEW m \in Published, At(wire[o], m) PROVE At(wire'[o], m)
      <4>1. Alike(wire[o], wire'[o])
        BY <3>1
      <4> QED
        BY <3>4, <4>1, AlikeKeeps
    <3>5. Reaches'
      BY <1>1, <1>8, <1>16, <1>17, <3>3, <3>4, StillReaches
    <3> QED
      BY <1>14, <3>2, <3>5 DEF DInv
  <2>5. CASE IsMessage(f)
    <3> DEFINE n == Len(w)
    <3>1. Places(v) = Places(w) \cup {n + 1}
      BY <1>3, <2>0, <2>5 DEF Grown
    <3>2. v[n + 1] = old[1] /\ n \in Nat /\ \A k \in Places(w) : v[k] = w[k] /\ k \in Int /\ k <= n
      BY <2>0 DEF Grown
    <3> HIDE DEF n
    <3>3. Delivers(old[1])
      BY <1>2, <1>3, <2>5 DEF Delivers
    <3>4. f.from = g
      BY <1>2, <1>3, <1>9, <3>3 DEF InLine
    <3>5. Came(w, c, audience) /\ \A h \in Goroutines : Later(task[h], w, c)
      BY DEF DInv, Wires, w
    <3>6. Came(v, c, audience)
      <4>1. ASSUME NEW j \in Places(v), NEW k \in Places(v), j < k, v[j].frame.from = v[k].frame.from
            PROVE  Follows(v[j].frame, v[k].frame)
        <5>1. j \in Places(w)
          BY <3>1, <3>2, <4>1
        <5>2. CASE k \in Places(w)
          BY <3>2, <3>5, <4>1, <5>1, <5>2 DEF Came
        <5>3. CASE k = n + 1
          <6>1. v[k].frame = f /\ v[j] = w[j]
            BY <1>3, <3>2, <5>1, <5>3
          <6>2. Later(old, w, c)
            BY <3>5 DEF old
          <6> QED
            BY <1>2, <1>3, <3>3, <4>1, <5>1, <6>1, <6>2 DEF Later
        <5> QED
          BY <3>1, <5>2, <5>3
      <4>2. ASSUME NEW k \in Places(v) PROVE \E a \in audience : a.msg = v[k].frame /\ c \in a.subs
        <5>1. CASE k \in Places(w)
          BY <3>2, <3>5, <5>1 DEF Came
        <5>2. CASE k = n + 1
          BY <1>2, <1>3, <1>9, <3>2, <3>3, <5>2 DEF Known
        <5> QED
          BY <3>1, <5>1, <5>2
      <4> QED
        BY <4>1, <4>2 DEF Came
    <3>7. ASSUME NEW h \in Goroutines PROVE Later(task'[h], v, c)
      <4> SUFFICES ASSUME NEW k \in DOMAIN task'[h], Delivers(task'[h][k]), task'[h][k].to = c,
                          NEW j \in Places(v), v[j].frame.from = task'[h][k].frame.from
                   PROVE  Follows(v[j].frame, task'[h][k].frame)
        BY DEF Later
      <4>1. CASE j \in Places(w)
        <5>1. Later(task[h], w, c) /\ v[j] = w[j]
          BY <3>2, <3>5, <4>1
        <5>2. Later(task'[h], w, c)
          <6>1. CASE h = g
            <7>1. Later(old, w, c)
              BY <5>1, <6>1 DEF old
            <7> QED
              BY <1>10, <1>11, <6>1, <7>1, Shrunk
          <6>2. CASE h # g
            BY <1>10, <5>1, <6>2
          <6> QED
            BY <6>1, <6>2
        <5> QED
          BY <4>1, <5>1, <5>2 DEF Later
      <4>2. CASE j = n + 1
        <5>1. v[j].frame.from = g
          BY <1>3, <3>2, <3>4, <4>2
        <5>2. CASE h = g
          <6>1. k \in DOMAIN q /\ Delivers(q[k]) /\ q[k].to = c
            BY <1>10, <5>2
          <6>2. k + 1 \in DOMAIN old /\ q[k] = old[k + 1] /\ k \in 1 .. Len(q)
            BY <1>2, <1>10, <6>1, Rest
          <6> DEFINE l == k + 1
          <6>3. l \in DOMAIN old /\ Delivers(old[l]) /\ old[l].to = c
            BY <6>1, <6>2
          <6>4. 1 < l
            BY <6>2
          <6> HIDE DEF l
          <6>5. old[1].op = "header"
            BY <1>2, <1>3, <1>9, <3>3, <6>3, <6>4 DEF InLine
          <6> QED
            BY <1>2, <6>5
        <5>3. CASE h # g
          <6>1. task'[h] = task[h] /\ InLine(h, task[h])
            BY <1>10, <5>3 DEF DInv, Queues
          <6>2. task'[h][k].frame.from = h
            BY <6>1 DEF InLine
          <6> QED
            BY <5>1, <5>3, <6>2
        <5> QED
          BY <5>2, <5>3
      <4> QED
        BY <3>1, <4>1, <4>2
    <3>8. ASSUME NEW o \in Conns, o # c
          PROVE  Came(wire'[o], o, audience) /\ \A h \in Goroutines : Later(task'[h], wire'[o], o)
      <4>1. wire'[o] = wire[o] /\ Came(wire[o], o, audience) /\ \A h \in Goroutines : Later(task[h], wire[o], o)
        BY <1>15, <3>8 DEF DInv, Wires
      <4>2. ASSUME NEW h \in Goroutines PROVE Later(task'[h], wire[o], o)
        <5>1. CASE h = g
          <6>1. Later(old, wire[o], o)
            BY <4>1, <5>1 DEF old
          <6> QED
            BY <1>10, <1>11, <5>1, <6>1, Shrunk
        <5>2. CASE h # g
          BY <1>10, <4>1, <5>2
        <5> QED
          BY <5>1, <5>2
      <4> QED
        BY <4>1, <4>2
    <3>9. Wires'
      <4> SUFFICES ASSUME NEW o \in Conns
                   PROVE  Came(wire'[o], o, audience') /\ \A h \in Goroutines : Later(task'[h], wire'[o], o)
        BY DEF Wires
      <4> QED
        BY <1>17, <2>1, <3>6, <3>7, <3>8
    <3>10. ASSUME NEW o \in Conns, NEW m \in Published, At(wire[o], m) PROVE At(wire'[o], m)
      <4>1. CASE o # c
        BY <1>15, <3>10, <4>1
      <4>2. CASE o = c
        <5>1. PICK k \in Places(w) : w[k].frame = m
          BY <3>10, <4>2 DEF At, w
        <5> QED
          BY <2>1, <3>1, <3>2, <4>2, <5>1 DEF At
      <4> QED
        BY <4>1, <4>2
    <3>11. At(v, f)
      BY <1>3, <3>1, <3>2 DEF At
    <3>12. \A o \in Conns, m \in Published : Brings(task[g], o, m) => Brings(q, o, m) \/ At(wire'[o], m)
      BY <1>13, <2>1, <3>11 DEF old
    <3>13. Reaches'
      BY <1>1, <1>8, <1>16, <1>17, <3>10, <3>12, StillReaches
    <3> QED
      BY <1>14, <3>9, <3>13 DEF DInv
  <2> QED
    BY <2>4, <2>5
<1> QED
  BY <1>18, <1>19

\* The order in which the subscribers are called leaves none out and takes none twice.
LEMMA Called ==
  ASSUME NEW S, IsFiniteSet(S), NEW order \in SetToSeqs(S)
  PROVE  /\ Cardinality(S) \in Nat /\ order \in [1 .. Cardinality(S) -> S]
         /\ \A i, j \in 1 .. Cardinality(S) : order[i] = order[j] => i = j
         /\ \A x \in S : \E k \in 1 .. Cardinality(S) : order[k] = x
<1> DEFINE n == Cardinality(S)
           D == 1 .. n
<1>1. n \in Nat
  BY FS_CardinalityType
<1>2. order \in [D -> S] /\ \A i, j \in D : i # j => order[i] # order[j]
  BY DEF SetToSeqs
<1>3. IsFiniteSet(D) /\ Cardinality(D) = n
  <2>1. 1 \in Int /\ n \in Int
    BY <1>1
  <2>2. IsFiniteSet(1 .. n) /\ Cardinality(1 .. n) = IF 1 > n THEN 0 ELSE n - 1 + 1
    BY <2>1, FS_Interval
  <2> QED
    BY <1>1, <2>2
<1> HIDE DEF n, D
<1>4. order \in Injection(D, S)
  BY <1>2 DEF Injection, IsInjective
<1>5. order \in Surjection(D, S)
  BY <1>3, <1>4, FS_Injection DEF n
<1> QED
  BY <1>1, <1>2, <1>5 DEF Surjection, n, D

LEMMA PublishSteps ==
  ASSUME Types, NEW m \in Published, NEW order \in SetToSeqs(subs),
         NEW steps, steps = [k \in DOMAIN order |-> Send(order[k], m)]
  PROVE  /\ steps \in Seq(Steps)
         /\ \A k \in DOMAIN steps : /\ steps[k] = Send(steps[k].to, m) /\ steps[k].to \in subs
                                    /\ steps[k].op = "send" /\ steps[k].frame = m
         /\ \A j, k \in DOMAIN steps : steps[j].to = steps[k].to => j = k
         /\ \A c \in subs : \E k \in DOMAIN steps : steps[k] = Send(c, m)
<1> DEFINE n == Cardinality(subs)
<1>1. IsFiniteSet(subs) /\ subs \subseteq Conns
  BY DEF Types
<1>2. /\ n \in Nat /\ order \in [1 .. n -> subs]
      /\ \A i, j \in 1 .. n : order[i] = order[j] => i = j
      /\ \A x \in subs : \E k \in 1 .. n : order[k] = x
  BY <1>1, Called
<1> HIDE DEF n
<1>3. m \in Written
  BY MessageFrames
<1>4. ASSUME NEW c \in Conns PROVE Send(c, m) \in Steps /\ Send(c, m).op = "send" /\ Send(c, m).to = c /\ Send(c, m).frame = m
  BY <1>3, MadeFrames, FrameFields
<1>5. /\ DOMAIN steps = 1 .. n /\ \A k \in 1 .. n : steps[k] = Send(order[k], m) /\ order[k] \in Conns /\ order[k] \in subs
      /\ steps = [k \in 1 .. n |-> Send(order[k], m)]
  BY <1>1, <1>2
<1>6. steps \in Seq(Steps)
  <2>1. steps \in [1 .. n -> Steps]
    BY <1>4, <1>5
  <2> QED
    BY <1>2, <2>1
<1>7. \A k \in 1 .. n : steps[k].to = order[k] /\ steps[k].op = "send" /\ steps[k].frame = m
  BY <1>4, <1>5
<1>8. \A k \in DOMAIN steps : steps[k] = Send(steps[k].to, m) /\ steps[k].to \in subs /\ steps[k].op = "send" /\ steps[k].frame = m
  BY <1>5, <1>7
<1>9. \A j, k \in DOMAIN steps : steps[j].to = steps[k].to => j = k
  BY <1>2, <1>5, <1>7
<1>10. \A c \in subs : \E k \in DOMAIN steps : steps[k] = Send(c, m)
  BY <1>2, <1>5
<1> QED
  BY <1>6, <1>8, <1>9, <1>10

LEMMA PublishDelivery == ASSUME IInv, DInv, NEW g \in Goroutines, DoPublish(g) PROVE DInv'
<1>1. Types
  BY DEF IInv
<1> DEFINE old == task[g]
           m == old[1].msg
           new == [msg |-> m, subs |-> subs]
<1>2. /\ old \in Seq(Steps) /\ old # <<>> /\ Head(task[g]) = old[1]
      /\ old[1] \in Steps /\ old[1].op = "publish" /\ 1 \in DOMAIN old
  BY <1>1, Doer DEF DoPublish
<1>3. m \in Published
  BY <1>2, StepCases
<1>4. PICK order \in SetToSeqs(subs) : Replace(g, [k \in DOMAIN order |-> Send(order[k], m)])
  BY <1>2 DEF DoPublish
<1> DEFINE steps == [k \in DOMAIN order |-> Send(order[k], m)]
           q == steps \o Tail(old)
<1>5. /\ audience' = audience \cup {new} /\ new.msg = m /\ new.subs = subs
      /\ UNCHANGED <<connVars, wireVars, timerVars>>
  BY <1>2 DEF DoPublish
<1>6. task' = [task EXCEPT ![g] = q]
  BY <1>1, <1>4 DEF Replace, Types
<1> HIDE DEF m, new
<1>7. /\ steps \in Seq(Steps)
      /\ \A k \in DOMAIN steps : /\ steps[k] = Send(steps[k].to, m) /\ steps[k].to \in subs
                                 /\ steps[k].op = "send" /\ steps[k].frame = m
      /\ \A j, k \in DOMAIN steps : steps[j].to = steps[k].to => j = k
      /\ \A c \in subs : \E k \in DOMAIN steps : steps[k] = Send(c, m)
  BY <1>1, <1>3, PublishSteps
<1> HIDE DEF steps
<1>8. InLine(g, old) /\ Known(g, old, audience)
  BY DEF DInv, Queues
<1>9. m.from = g /\ Sound(m)
  BY <1>2, <1>8 DEF InLine, m
<1>10. \A k \in 2 .. Len(old) : /\ k \in DOMAIN old /\ ~Delivers(old[k])
                                /\ old[k].op = "publish" => Follows(m, old[k].msg)
  <2>1. \A k \in 2 .. Len(old) : k \in DOMAIN old /\ 1 < k
    BY <1>2
  <2> QED
    BY <1>2, <1>8, <2>1 DEF InLine, m
<1>11. \A k \in DOMAIN steps : Delivers(steps[k])
  BY <1>3, <1>7, MessageIs DEF Delivers
<1>12. InLine(g, steps)
  <2>1. \A k \in DOMAIN steps : k \in Int
    BY <1>7
  <2> HIDE DEF old
  <2> QED
    BY <1>7, <1>9, <2>1 DEF InLine
<1>13. q = steps \o Tail(old)
  OBVIOUS
<1> HIDE DEF q
<1>14. /\ q \in Seq(Steps)
       /\ \A k \in DOMAIN q :
            \/ k \in 1 .. Len(steps) /\ q[k] = steps[k]
            \/ k > Len(steps) /\ k - Len(steps) + 1 \in 2 .. Len(old) /\ q[k] = old[k - Len(steps) + 1]
  BY <1>2, <1>7, Spliced DEF q
<1>15. \A k \in DOMAIN q : \/ \E j \in DOMAIN steps : q[k] = steps[j]
                           \/ \E l \in 2 .. Len(old) : q[k] = old[l]
  <2>1. DOMAIN steps = 1 .. Len(steps)
    BY <1>7
  <2> QED
    BY <1>14, <2>1
<1> HIDE DEF old
<1>16. InLine(g, q)
  BY <1>2, <1>7, <1>8, <1>10, <1>12, <1>13, SplicedInLine
<1>17. (\A k \in 2 .. Len(old) : Has(q, old[k])) /\ \A k \in DOMAIN steps : Has(q, steps[k])
  BY <1>2, <1>7, <1>13, SplicedHolds
<1>18. task'[g] = q /\ \A h \in Goroutines \ {g} : task'[h] = task[h]
  BY <1>1, <1>6 DEF Types
<1>19. Known(g, q, audience')
  <2> SUFFICES ASSUME NEW k \in DOMAIN q
               PROVE  /\ q[k].op = "publish" => \A a \in audience' : a.msg.from = g => Follows(a.msg, q[k].msg)
                      /\ Delivers(q[k]) => \E a \in audience' : a.msg = q[k].frame /\ q[k].to \in a.subs
    BY DEF Known
  <2>1. CASE \E j \in DOMAIN steps : q[k] = steps[j]
    BY <1>5, <1>7, <2>1
  <2>2. CASE \E l \in 2 .. Len(old) : q[k] = old[l]
    <3>1. PICK l \in 2 .. Len(old) : q[k] = old[l]
      BY <2>2
    <3> QED
      BY <1>5, <1>8, <1>10, <3>1 DEF Known
  <2> QED
    BY <1>15, <2>1, <2>2
<1>20. Queues'
  <2> SUFFICES ASSUME NEW h \in Goroutines PROVE InLine(h, task'[h]) /\ Known(h, task'[h], audience')
    BY DEF Queues
  <2>1. CASE h = g
    BY <1>16, <1>18, <1>19, <2>1
  <2>2. CASE h # g
    <3>1. InLine(h, task[h]) /\ Known(h, task[h], audience) /\ task'[h] = task[h]
      BY <1>18, <2>2 DEF DInv, Queues
    <3> QED
      BY <1>5, <1>9, <2>2, <3>1 DEF Known
  <2> QED
    BY <2>1, <2>2
<1>21. Wires'
  <2> SUFFICES ASSUME NEW c \in Conns
               PROVE  Came(wire'[c], c, audience') /\ \A h \in Goroutines : Later(task'[h], wire'[c], c)
    BY DEF Wires
  <2>1. wire' = wire /\ Came(wire[c], c, audience) /\ \A h \in Goroutines : Later(task[h], wire[c], c)
    BY <1>5 DEF DInv, Wires, wireVars
  <2>2. Came(wire[c], c, audience')
    BY <1>5, <2>1, CameGrows
  <2>3. ASSUME NEW k \in DOMAIN q, Delivers(q[k]), q[k].to = c, NEW j \in Places(wire[c]), wire[c][j].frame.from = q[k].frame.from
        PROVE  Follows(wire[c][j].frame, q[k].frame)
    <3>1. q[k].frame = m
      BY <1>7, <1>10, <1>15, <2>3
    <3>2. PICK a \in audience : a.msg = wire[c][j].frame
      BY <2>1 DEF Came
    <3>3. Follows(a.msg, m)
      BY <1>2, <1>8, <1>9, <2>3, <3>1, <3>2 DEF Known, m, old
    <3> QED
      BY <3>1, <3>2, <3>3
  <2>4. Later(q, wire[c], c)
    BY <2>3 DEF Later
  <2> QED
    BY <1>18, <2>1, <2>2, <2>4
<1>22. Reaches'
  <2> SUFFICES ASSUME NEW a \in audience', NEW c \in a.subs
               PROVE  At(wire'[c], a.msg) \/ tcp'[c] # "open" \/ Brings(task'[a.msg.from], c, a.msg)
    BY DEF Reaches
  <2>1. wire' = wire /\ tcp' = tcp
    BY <1>5 DEF wireVars
  <2>2. CASE a \in audience
    <3>1. At(wire[c], a.msg) \/ tcp[c] # "open" \/ Brings(task[a.msg.from], c, a.msg)
      BY <2>2 DEF DInv, Reaches
    <3>2. a.msg \in Published
      BY <2>2 DEF DInv, Sources, Heard
    <3> DEFINE h == a.msg.from
               x == a.msg
    <3>3. h \in Goroutines
      BY <3>2 DEF Published
    <3> HIDE DEF h, x
    <3>4. Brings(task[h], c, x) => Brings(task'[h], c, x)
      <4>1. CASE h = g
        <5>1. old[1] \notin {Send(c, x), Header(c, x), Payload(c, x)}
          BY <1>2, FrameFields
        <5>2. Brings(old, c, x) => Brings(q, c, x)
          BY <1>2, <1>17, <5>1, HeldBrings
        <5> QED
          BY <1>18, <4>1, <5>2 DEF old
      <4>2. CASE h # g
        BY <1>18, <3>3, <4>2
      <4> QED
        BY <4>1, <4>2
    <3> QED
      BY <2>1, <3>1, <3>4 DEF h, x
  <2>3. CASE a = new
    <3>1. a.msg = m /\ c \in subs
      BY <1>5, <2>3
    <3>2. PICK k \in DOMAIN steps : steps[k] = Send(c, m)
      BY <1>7, <3>1
    <3>3. Has(q, Send(c, m))
      BY <1>17, <3>2
    <3>4. Brings(q, c, m)
      BY <3>3 DEF Has, Brings
    <3> QED
      BY <1>9, <1>18, <3>1, <3>4
  <2> QED
    BY <1>5, <2>2, <2>3
<1>23. ASSUME NEW h \in Goroutines PROVE Said(h, task'[h], audience') \subseteq Said(h, task[h], audience)
  <2> SUFFICES ASSUME NEW x \in Said(h, task'[h], audience') PROVE x \in Said(h, task[h], audience)
    OBVIOUS
  <2>1. CASE x \in {a.msg : a \in {b \in audience' : b.msg.from = h}}
    <3>1. PICK a \in audience' : a.msg.from = h /\ x = a.msg
      BY <2>1
    <3>2. CASE a \in audience
      BY <3>1, <3>2 DEF Said
    <3>3. CASE a = new
      <4>1. h = g /\ x = m
        BY <1>5, <1>9, <3>1, <3>3
      <4>2. x \in {old[k].msg : k \in {l \in DOMAIN old : old[l].op = "publish"}}
        BY <1>2, <4>1 DEF m
      <4> QED
        BY <4>1, <4>2 DEF Said, old
    <3> QED
      BY <1>5, <3>2, <3>3
  <2>2. CASE x \in {task'[h][k].msg : k \in {l \in DOMAIN task'[h] : task'[h][l].op = "publish"}}
    <3>1. PICK k \in DOMAIN task'[h] : task'[h][k].op = "publish" /\ x = task'[h][k].msg
      BY <2>2
    <3>2. CASE h = g
      <4>1. k \in DOMAIN q /\ q[k].op = "publish" /\ x = q[k].msg
        BY <1>18, <3>1, <3>2
      <4>2. PICK l \in 2 .. Len(old) : q[k] = old[l]
        BY <1>7, <1>15, <4>1
      <4>3. l \in DOMAIN old /\ old[l].op = "publish" /\ x = old[l].msg
        BY <1>10, <4>1, <4>2
      <4> QED
        BY <3>2, <4>3 DEF Said, old
    <3>3. CASE h # g
      BY <1>18, <3>1, <3>3 DEF Said
    <3> QED
      BY <3>2, <3>3
  <2> QED
    BY <2>1, <2>2 DEF Said
<1>24. Sources'
  <2>1. UNCHANGED <<handler, subs, inbox, sent, payload, mode, ticks, pending>>
    BY <1>5 DEF connVars, timerVars
  <2>2. Heard(audience, handler) /\ \A c \in subs : handler[c] # "new"
    BY DEF DInv, Sources
  <2>3. Heard(audience', handler')
    <3>1. subs \subseteq Conns
      BY <1>1 DEF Types
    <3> QED
      BY <1>3, <1>5, <1>9, <2>1, <2>2, <3>1 DEF Heard
  <2>4. ASSUME NEW c \in Conns PROVE Counted(Said(c, task'[c], audience'), sent'[c] - Len(inbox'[c]), payload'[c])
    <3>1. Counted(Said(c, task[c], audience), sent[c] - Len(inbox[c]), payload[c]) /\ c \in Goroutines
      BY DEF DInv, Sources, Goroutines
    <3>2. Said(c, task'[c], audience') \subseteq Said(c, task[c], audience)
      BY <1>23, <3>1
    <3> QED
      BY <2>1, <3>1, <3>2, CountedLess
  <2>5. ASSUME NEW t \in Timers
        PROVE  /\ mode'[t] = "parked" => ~pending'[t]
               /\ Told(t, Said(t, task'[t], audience'), Due(t)')
    <3>1. /\ mode[t] = "parked" => ~pending[t]
          /\ Told(t, Said(t, task[t], audience), Due(t)) /\ t \in Goroutines
      BY DEF DInv, Sources, Goroutines
    <3>2. Said(t, task'[t], audience') \subseteq Said(t, task[t], audience)
      BY <1>23, <3>1
    <3>3. Due(t)' = Due(t)
      BY <2>1 DEF Due
    <3> QED
      BY <2>1, <3>1, <3>2, <3>3, CountedLess
  <2> QED
    BY <2>1, <2>2, <2>3, <2>4, <2>5 DEF Sources
<1> QED
  BY <1>20, <1>21, <1>22, <1>24 DEF DInv

(* A goroutine begins, and the steps that begin nothing *)

LEMMA BeginsWithout ==
  ASSUME Types, DInv, NEW g \in Goroutines, task[g] = <<>>, NEW q, task' = [task EXCEPT ![g] = q], InLine(g, q),
         \A k \in DOMAIN q : /\ ~Delivers(q[k])
                             /\ q[k].op = "publish" => \A a \in audience : a.msg.from = g => Follows(a.msg, q[k].msg),
         UNCHANGED <<audience, wire, tcp>>
  PROVE  Queues' /\ Wires' /\ Reaches'
<1>1. task'[g] = q /\ \A h \in Goroutines \ {g} : task'[h] = task[h]
  BY DEF Types
<1>2. Known(g, q, audience)
  BY DEF Known
<1>3. Queues'
  <2> SUFFICES ASSUME NEW h \in Goroutines PROVE InLine(h, task'[h]) /\ Known(h, task'[h], audience')
    BY DEF Queues
  <2>1. CASE h = g
    BY <1>1, <1>2, <2>1
  <2>2. CASE h # g
    BY <1>1, <2>2 DEF DInv, Queues
  <2> QED
    BY <2>1, <2>2
<1>4. Wires'
  <2> SUFFICES ASSUME NEW c \in Conns
               PROVE  Came(wire'[c], c, audience') /\ \A h \in Goroutines : Later(task'[h], wire'[c], c)
    BY DEF Wires
  <2>1. Came(wire[c], c, audience) /\ \A h \in Goroutines : Later(task[h], wire[c], c)
    BY DEF DInv, Wires
  <2>2. Later(q, wire[c], c)
    BY DEF Later
  <2> QED
    BY <1>1, <2>1, <2>2
<1>5. Reaches'
  <2> SUFFICES ASSUME NEW a \in audience, NEW c \in a.subs
               PROVE  At(wire[c], a.msg) \/ tcp[c] # "open" \/ Brings(task'[a.msg.from], c, a.msg)
    BY DEF Reaches
  <2>1. a.msg.from \in Goroutines
    BY DEF DInv, Sources, Heard, Published
  <2>2. At(wire[c], a.msg) \/ tcp[c] # "open" \/ Brings(task[a.msg.from], c, a.msg)
    BY DEF DInv, Reaches
  <2>3. ~Brings(task[g], c, a.msg)
    BY DEF Brings
  <2> QED
    BY <1>1, <2>1, <2>2, <2>3
<1> QED
  BY <1>3, <1>4, <1>5

\* Nothing is written, published or begun.
LEMMA QuietDelivery ==
  ASSUME IInv, DInv, UNCHANGED <<task, audience, wire, payload>>,
         \A c \in Conns : /\ tcp'[c] = "open" => tcp[c] = "open" \/ handler[c] = "new"
                          /\ handler'[c] = "new" => handler[c] = "new"
                          /\ sent'[c] - Len(inbox'[c]) = sent[c] - Len(inbox[c]),
         \A c \in subs' : handler'[c] # "new",
         \A t \in Timers : (mode'[t] = "parked" => ~pending'[t]) /\ Due(t)' = Due(t)
  PROVE  DInv'
<1>1. Queues /\ Wires /\ Reaches /\ Sources
  BY DEF DInv
<1>2. Queues' /\ Wires'
  BY <1>1 DEF Queues, Wires
<1>3. Reaches'
  <2> SUFFICES ASSUME NEW a \in audience, NEW c \in a.subs
               PROVE  At(wire[c], a.msg) \/ tcp'[c] # "open" \/ Brings(task[a.msg.from], c, a.msg)
    BY DEF Reaches
  <2>1. c \in Conns /\ handler[c] # "new"
    BY <1>1 DEF Sources, Heard
  <2> QED
    BY <1>1, <2>1 DEF Reaches
<1>4. Sources'
  <2>1. Heard(audience', handler')
    BY <1>1 DEF Sources, Heard
  <2>2. \A c \in Conns : Counted(Said(c, task'[c], audience'), sent'[c] - Len(inbox'[c]), payload'[c])
    BY <1>1 DEF Sources
  <2>3. \A t \in Timers : Told(t, Said(t, task'[t], audience'), Due(t)')
    BY <1>1 DEF Sources
  <2> QED
    BY <2>1, <2>2, <2>3 DEF Sources
<1> QED
  BY <1>2, <1>3, <1>4 DEF DInv

LEMMA ConnDelivery ==
  ASSUME IInv, DInv, NEW c \in Conns, Connect(c) \/ ClientSends(c) \/ ClientGoes(c) \/ Subscribe(c) \/ RecvNull(c)
  PROVE  DInv'
<1>1. Types /\ subs \subseteq Conns /\ \A o \in subs : handler[o] # "new"
  BY DEF IInv, Types, DInv, Sources
<1>2. /\ handler \in [Conns -> {"new", "open", "recv", "ending", "done"}] /\ tcp \in [Conns -> {"open", "closed", "gone"}]
      /\ sent \in [Conns -> Nat] /\ inbox \in [Conns -> Seq(Frames)]
  BY <1>1 DEF Types
<1>3. UNCHANGED <<task, audience, wire, payload, mode, ticks, pending>>
  BY DEF Connect, ClientSends, ClientGoes, Subscribe, RecvNull, connVars, wireVars, timerVars
<1>4. \A t \in Timers : (mode'[t] = "parked" => ~pending'[t]) /\ Due(t)' = Due(t)
  BY <1>3 DEF DInv, Sources, Due
<1>5. CASE Connect(c)
  <2>1. /\ handler[c] = "new" /\ handler' = [handler EXCEPT ![c] = "open"] /\ tcp' = [tcp EXCEPT ![c] = "open"]
        /\ UNCHANGED <<sent, inbox, subs>>
    BY <1>5 DEF Connect
  <2>2. \A o \in Conns : /\ tcp'[o] = "open" => tcp[o] = "open" \/ handler[o] = "new"
                         /\ handler'[o] = "new" => handler[o] = "new"
                         /\ sent'[o] - Len(inbox'[o]) = sent[o] - Len(inbox[o])
    BY <1>2, <2>1
  <2>3. \A o \in subs' : handler'[o] # "new"
    BY <1>1, <1>2, <2>1
  <2> QED
    BY <1>3, <1>4, <2>2, <2>3, QuietDelivery
<1>6. CASE ClientSends(c)
  <2>1. PICK f \in cast.frames : inbox' = [inbox EXCEPT ![c] = Append(@, f)]
    BY <1>6 DEF ClientSends
  <2>2. sent' = [sent EXCEPT ![c] = @ + 1] /\ UNCHANGED <<handler, subs, tcp>>
    BY <1>6 DEF ClientSends, wireVars
  <2>3. Len(inbox'[c]) = Len(inbox[c]) + 1 /\ Len(inbox[c]) \in Nat
    BY <1>2, <2>1
  <2>4. sent'[c] = sent[c] + 1 /\ sent[c] \in Nat
    BY <1>2, <2>2
  <2>5. sent'[c] - Len(inbox'[c]) = sent[c] - Len(inbox[c])
    BY <2>3, <2>4
  <2>6. \A o \in Conns \ {c} : sent'[o] = sent[o] /\ inbox'[o] = inbox[o]
    BY <1>2, <2>1, <2>2
  <2>7. \A o \in Conns : /\ tcp'[o] = "open" => tcp[o] = "open" \/ handler[o] = "new"
                         /\ handler'[o] = "new" => handler[o] = "new"
                         /\ sent'[o] - Len(inbox'[o]) = sent[o] - Len(inbox[o])
    BY <2>2, <2>5, <2>6
  <2>8. \A o \in subs' : handler'[o] # "new"
    BY <1>1, <2>2
  <2> QED
    BY <1>3, <1>4, <2>7, <2>8, QuietDelivery
<1>7. CASE ClientGoes(c) \/ Subscribe(c) \/ RecvNull(c)
  <2>1. /\ UNCHANGED <<sent, inbox>>
        /\ tcp' = tcp \/ tcp' = [tcp EXCEPT ![c] = "gone"]
        /\ \/ handler' = handler /\ subs' = subs
           \/ handler' = [handler EXCEPT ![c] = "recv"] /\ subs' = subs \cup {c}
           \/ handler' = [handler EXCEPT ![c] = "ending"] /\ subs' = subs
    BY <1>7 DEF ClientGoes, Subscribe, RecvNull, connVars, wireVars
  <2>2. \A o \in Conns : tcp'[o] = "open" => tcp[o] = "open"
    BY <1>2, <2>1
  <2>3. \A o \in Conns : handler'[o] = "new" => handler[o] = "new"
    BY <1>2, <2>1
  <2>4. \A o \in Conns : sent'[o] - Len(inbox'[o]) = sent[o] - Len(inbox[o])
    BY <2>1
  <2>5. \A o \in subs' : handler'[o] # "new"
    BY <1>1, <1>2, <2>1
  <2> QED
    BY <1>3, <1>4, <2>2, <2>3, <2>4, <2>5, QuietDelivery
<1> QED
  BY <1>5, <1>6, <1>7

\* Timers that wait or end, other requests, and the end of the server.
LEMMA WaitDelivery ==
  ASSUME IInv, DInv, UNCHANGED <<task, audience, connVars, wire, tcp>>,
         \A t \in Timers : (mode'[t] = "parked" => ~pending'[t]) /\ Due(t)' = Due(t)
  PROVE  DInv'
<1>1. UNCHANGED <<handler, subs, inbox, sent, payload>>
  BY DEF connVars
<1>2. \A c \in subs' : handler'[c] # "new"
  BY <1>1 DEF DInv, Sources
<1> QED
  BY <1>1, <1>2, QuietDelivery

LEMMA OtherDelivery ==
  ASSUME IInv, DInv,
         \/ \E s \in StopCalls : StopLooks(s) \/ StopCloses(s)
         \/ (\E r \in Requests : Arrive(r) \/ Answer(r)) \/ Signal \/ TenSeconds \/ Exit \/ UNCHANGED vars
  PROVE  DInv'
<1>1. /\ UNCHANGED <<task, audience, connVars, wireVars, ticks, pending>>
      /\ mode' = mode \/ \E s \in StopCalls : mode' = [mode EXCEPT ![s[2]] = IF @ = "parked" THEN "ended" ELSE @]
  BY DEF StopLooks, StopCloses, Arrive, Answer, Signal, TenSeconds, Exit, vars, timerVars
<1>2. mode \in [Timers -> {"select", "parked", "running", "ended"}]
  BY DEF IInv, Types
<1>3. \A t \in Timers : mode'[t] = "parked" => mode[t] = "parked"
  BY <1>1, <1>2
<1>4. \A t \in Timers : (mode'[t] = "parked" => ~pending'[t]) /\ Due(t)' = Due(t)
  BY <1>1, <1>3 DEF DInv, Sources, Due
<1>5. UNCHANGED <<wire, tcp>>
  BY <1>1 DEF wireVars
<1> QED
  BY <1>1, <1>4, <1>5, WaitDelivery

\* What a connection begins, of which it says nothing.
LEMMA SaysNothing ==
  ASSUME NEW g, NEW q, NEW told, \A k \in DOMAIN q : q[k].op # "publish"
  PROVE  Said(g, q, told) = Said(g, <<>>, told)
BY DEF Said

LEMMA OneInLine ==
  ASSUME NEW s \in Steps, NEW q, q = <<s>>, s.op # "publish", ~Delivers(s), NEW g
  PROVE  /\ InLine(g, q)
         /\ \A k \in DOMAIN q : q[k].op # "publish" /\ ~Delivers(q[k])
<1>1. DOMAIN q = {1} /\ q[1] = s
  OBVIOUS
<1> QED
  BY <1>1 DEF InLine

LEMMA UnsubscribeDelivery == ASSUME IInv, DInv, NEW c \in Conns, Unsubscribe(c) PROVE DInv'
<1>1. Types /\ c \in Goroutines /\ Sources
  BY DEF IInv, DInv, Goroutines
<1> DEFINE s == Close(c)
           q == <<s>>
<1>2. /\ task[c] = <<>> /\ subs' = subs \ {c} /\ handler' = [handler EXCEPT ![c] = "done"]
      /\ task' = [task EXCEPT ![c] = q] /\ UNCHANGED <<inbox, sent, payload, wireVars, timerVars, audience>>
  BY DEF Unsubscribe, AtBody
<1>3. UNCHANGED <<mode, ticks, pending, tcp, wire>>
  BY <1>2 DEF wireVars, timerVars
<1>4. s \in Steps /\ s.op = "close"
  BY MadeCloses, ConnFields
<1>5. ~Delivers(s)
  BY <1>4 DEF Delivers
<1> HIDE DEF s
<1>6. q = <<s>>
  OBVIOUS
<1> HIDE DEF q
<1>7. InLine(c, q) /\ \A k \in DOMAIN q : q[k].op # "publish" /\ ~Delivers(q[k])
  BY <1>4, <1>5, <1>6, OneInLine
<1>8. Queues' /\ Wires' /\ Reaches'
  BY <1>1, <1>2, <1>3, <1>7, BeginsWithout
<1>9. task'[c] = q /\ \A h \in Goroutines \ {c} : task'[h] = task[h]
  BY <1>1, <1>2 DEF Types
<1>10. \A h \in Goroutines : Said(h, task'[h], audience) = Said(h, task[h], audience)
  <2>1. Said(c, q, audience) = Said(c, <<>>, audience)
    BY <1>7, SaysNothing
  <2> QED
    BY <1>2, <1>9, <2>1
<1>11. Sources'
  <2>1. \A o \in Conns : handler'[o] = "new" => handler[o] = "new"
    BY <1>1, <1>2 DEF Types
  <2>2. Heard(audience', handler') /\ \A o \in subs' : handler'[o] # "new"
    <3>1. subs \subseteq Conns
      BY <1>1 DEF Types
    <3> QED
      BY <1>1, <1>2, <2>1, <3>1 DEF Sources, Heard
  <2>3. \A o \in Conns : Counted(Said(o, task'[o], audience'), sent'[o] - Len(inbox'[o]), payload'[o])
    BY <1>1, <1>2, <1>10 DEF Sources, Goroutines
  <2>4. \A t \in Timers : /\ mode'[t] = "parked" => ~pending'[t]
                          /\ Told(t, Said(t, task'[t], audience'), Due(t)')
    BY <1>1, <1>2, <1>3, <1>10 DEF Sources, Goroutines, Due
  <2> QED
    BY <2>2, <2>3, <2>4 DEF Sources
<1> QED
  BY <1>8, <1>11 DEF DInv

\* A message that begins: it follows what its connection has said.
LEMMA NewMessage ==
  ASSUME NEW part \in Seq(Int), NEW n \in Int, NEW said, \A m \in said : Last(m.data) \in Int, Counted(said, n, part),
         NEW whole, whole = Append(part, n + 1)
  PROVE  /\ whole \in Seq(Int) /\ whole # <<>> /\ Head(whole) <= Last(whole) /\ Last(whole) = n + 1
         /\ \A m \in said : Last(m.data) < Head(whole)
         /\ Counted(said, n + 1, whole) /\ Counted(said, n + 1, part) /\ Counted(said, n + 1, <<>>)
<1> DEFINE l == Len(part)
<1>1. /\ whole \in Seq(Int) /\ Len(whole) = l + 1 /\ l \in Nat /\ DOMAIN part = 1 .. l /\ DOMAIN whole = 1 .. l + 1
      /\ whole[l + 1] = n + 1 /\ \A i \in 1 .. l : whole[i] = part[i] /\ part[i] \in Int
  OBVIOUS
<1> HIDE DEF l
<1>2. Head(whole) = whole[1] /\ Last(whole) = whole[l + 1] /\ whole # <<>>
  BY <1>1 DEF Last
<1>3. /\ \A m \in said : Last(m.data) <= n /\ \A i \in 1 .. l : Last(m.data) < part[i]
      /\ \A i \in 1 .. l : part[i] <= n
  BY <1>1 DEF Counted
<1>4. \A i \in 1 .. l + 1 : i \in 1 .. l \/ i = l + 1
  BY <1>1
<1>5. \A i \in 1 .. l + 1 : whole[i] \in Int /\ whole[i] <= n + 1 /\ \A m \in said : Last(m.data) < whole[i]
  <2> SUFFICES ASSUME NEW i \in 1 .. l + 1 PROVE whole[i] \in Int /\ whole[i] <= n + 1 /\ \A m \in said : Last(m.data) < whole[i]
    OBVIOUS
  <2>1. CASE i \in 1 .. l
    BY <1>1, <1>3, <2>1
  <2>2. CASE i = l + 1
    BY <1>1, <1>3, <2>2
  <2> QED
    BY <1>4, <2>1, <2>2
<1>6. 1 \in 1 .. l + 1
  BY <1>1
<1>7. Counted(said, n + 1, whole)
  BY <1>1, <1>3, <1>5 DEF Counted
<1>8. Counted(said, n + 1, part)
  <2>1. \A i \in 1 .. l : part[i] <= n + 1
    BY <1>1, <1>3
  <2>2. \A m \in said : Last(m.data) <= n + 1
    BY <1>3
  <2> QED
    BY <1>1, <1>3, <2>1, <2>2 DEF Counted
<1>9. Counted(said, n + 1, <<>>)
  <2>1. \A m \in said : Last(m.data) <= n + 1
    BY <1>3
  <2> QED
    BY <2>1 DEF Counted
<1>10. Head(whole) <= Last(whole) /\ Last(whole) = n + 1 /\ \A m \in said : Last(m.data) < Head(whole)
  BY <1>1, <1>2, <1>5, <1>6
<1> QED
  BY <1>1, <1>2, <1>7, <1>8, <1>9, <1>10

LEMMA SaidTyped ==
  ASSUME DInv, NEW g \in Goroutines, NEW m \in Said(g, <<>>, audience)
  PROVE  m.data # <<>> /\ Last(m.data) \in Int /\ \E a \in audience : a.msg = m /\ m.from = g
<1>1. PICK a \in audience : a.msg.from = g /\ a.msg = m
  BY DEF Said
<1>2. m \in Published /\ Sound(m)
  BY <1>1 DEF DInv, Sources, Heard
<1>3. m.data \in Seq(Int) /\ m.data # <<>>
  BY <1>2 DEF Published, Sound
<1>4. \A q \in Seq(Int) : q # <<>> => Last(q) \in Int
  BY DEF Last
<1> QED
  BY <1>1, <1>3, <1>4

LEMMA RecvDelivery == ASSUME IInv, DInv, NEW c \in Conns, Recv(c) PROVE DInv'
<1>1. Types /\ c \in Goroutines /\ Sources
  BY DEF IInv, DInv, Goroutines
<1> DEFINE f == Head(inbox[c])
           whole == Append(payload[c], sent[c] - Len(inbox[c]) + 1)
           data == f.op \in {"text", "more"}
           q == CASE data /\ f.fin -> <<Publish(Message(c, whole))>>
                  [] f.op = "ping" -> <<Send(c, Pong)>>
                  [] f.op \in {"close", "big"} -> <<Close(c)>>
                  [] OTHER -> <<>>
           n == sent[c] - Len(inbox[c])
           said == Said(c, <<>>, audience)
<1>2. /\ task[c] = <<>> /\ inbox[c] # <<>> /\ inbox' = [inbox EXCEPT ![c] = Tail(@)]
      /\ payload' = [payload EXCEPT ![c] = IF ~data THEN @ ELSE IF f.fin THEN <<>> ELSE whole]
      /\ handler' = [handler EXCEPT ![c] = IF f.op \in {"close", "big", "odd"} THEN "ending" ELSE @]
      /\ task' = [task EXCEPT ![c] = q]
      /\ UNCHANGED <<subs, sent, wireVars, timerVars, audience>>
  BY DEF Recv, AtBody
<1>3. UNCHANGED <<mode, ticks, pending, tcp, wire>>
  BY <1>2 DEF wireVars, timerVars
<1>4. /\ n \in Int /\ payload[c] \in Seq(Int) /\ sent'[c] - Len(inbox'[c]) = n + 1
      /\ \A o \in Conns \ {c} : inbox'[o] = inbox[o] /\ payload'[o] = payload[o]
      /\ payload'[c] = IF ~data THEN payload[c] ELSE IF f.fin THEN <<>> ELSE whole
  <2>1. /\ sent[c] \in Nat /\ inbox[c] \in Seq(Frames) /\ payload[c] \in Seq(Int)
        /\ inbox \in [Conns -> Seq(Frames)] /\ payload \in [Conns -> Seq(Int)] /\ sent' = sent
    BY <1>1, <1>2 DEF Types
  <2>2. Len(Tail(inbox[c])) = Len(inbox[c]) - 1 /\ Len(inbox[c]) \in Nat
    BY <1>2, <2>1
  <2>3. inbox'[c] = Tail(inbox[c]) /\ \A o \in Conns \ {c} : inbox'[o] = inbox[o]
    BY <1>2, <2>1
  <2>4. sent'[c] - Len(inbox'[c]) = n + 1 /\ n \in Int
    <3> DEFINE i == Len(inbox[c])
               j == Len(inbox'[c])
    <3>1. j = i - 1 /\ i \in Nat /\ sent'[c] = sent[c] /\ sent[c] \in Nat
      BY <2>1, <2>2, <2>3
    <3>2. n = sent[c] - i
      OBVIOUS
    <3> HIDE DEF i, j, n
    <3>3. sent'[c] - j = n + 1 /\ n \in Int
      BY <3>1, <3>2
    <3> QED
      BY <3>3 DEF j
  <2> HIDE DEF whole, data, f
  <2>5. /\ \A o \in Conns \ {c} : payload'[o] = payload[o]
        /\ payload'[c] = IF ~data THEN payload[c] ELSE IF f.fin THEN <<>> ELSE whole
    BY <1>2, <2>1
  <2> QED
    BY <2>1, <2>3, <2>4, <2>5
<1>5. whole = Append(payload[c], n + 1)
  OBVIOUS
<1>6. Counted(said, n, payload[c])
  BY <1>1, <1>2 DEF Sources
<1> DEFINE M == Message(c, whole)
<1> HIDE DEF whole, f, n, said
<1>7. \A m \in said : Last(m.data) \in Int
  BY <1>1, SaidTyped DEF said
<1>8. /\ whole \in Seq(Int) /\ whole # <<>> /\ Head(whole) <= Last(whole) /\ Last(whole) = n + 1
      /\ \A m \in said : Last(m.data) < Head(whole)
      /\ Counted(said, n + 1, whole) /\ Counted(said, n + 1, payload[c]) /\ Counted(said, n + 1, <<>>)
  <2> DEFINE p == payload[c]
  <2>1. p \in Seq(Int) /\ whole = Append(p, n + 1) /\ Counted(said, n, p) /\ n \in Int
    BY <1>4, <1>5, <1>6
  <2> HIDE DEF p
  <2> QED
    BY <1>7, <2>1, NewMessage DEF p
<1>9. M.from = c /\ M.data = whole
  BY DEF Message
<1> HIDE DEF M
\* What begins: a message of its own, or nothing that is said.
<1>10. /\ InLine(c, q)
       /\ \A k \in DOMAIN q : ~Delivers(q[k]) /\ (q[k].op = "publish" => q[k].msg = M)
       /\ ~(data /\ f.fin) => \A k \in DOMAIN q : q[k].op # "publish"
  <2>1. CASE data /\ f.fin
    <3> DEFINE s == Publish(M)
    <3>1. s.op = "publish" /\ s.msg = M
      BY PublishFields
    <3>2. ~Delivers(s) /\ Sound(M)
      BY <1>8, <1>9, <3>1 DEF Delivers, Sound
    <3>3. q = <<s>>
      BY <2>1 DEF M
    <3> HIDE DEF s, q
    <3>4. DOMAIN q = {1} /\ q[1] = s
      BY <3>3
    <3> QED
      BY <1>9, <2>1, <3>1, <3>2, <3>4 DEF InLine
  <2>2. CASE ~(data /\ f.fin) /\ f.op = "ping"
    <3> DEFINE s == Send(c, Pong)
    <3>1. s \in Steps /\ s.op = "send" /\ s.frame = Pong
      <4>1. Pong \in Written
        BY DEF Written
      <4> QED
        BY <4>1, MadeFrames, FrameFields
    <3>2. q = <<s>> /\ ~Delivers(s)
      BY <2>2, <3>1 DEF Delivers, IsMessage
    <3> HIDE DEF s, q
    <3>3. InLine(c, q) /\ \A k \in DOMAIN q : q[k].op # "publish" /\ ~Delivers(q[k])
      BY <3>1, <3>2, OneInLine
    <3> QED
      BY <3>3
  <2>3. CASE ~(data /\ f.fin) /\ f.op \in {"close", "big"}
    <3> DEFINE s == Close(c)
    <3>1. s \in Steps /\ s.op = "close"
      BY MadeCloses, ConnFields
    <3>2. q = <<s>> /\ ~Delivers(s)
      BY <2>3, <3>1 DEF Delivers
    <3> HIDE DEF s, q
    <3>3. InLine(c, q) /\ \A k \in DOMAIN q : q[k].op # "publish" /\ ~Delivers(q[k])
      BY <3>1, <3>2, OneInLine
    <3> QED
      BY <3>3
  <2>4. CASE ~(data /\ f.fin) /\ f.op \notin {"ping", "close", "big"}
    <3>1. q = <<>> /\ DOMAIN <<>> = {}
      BY <2>4
    <3> HIDE DEF q
    <3> QED
      BY <3>1, NothingInLine
  <2> QED
    BY <2>1, <2>2, <2>3, <2>4
<1> HIDE DEF q, data
<1>11. \A k \in DOMAIN q : /\ ~Delivers(q[k])
                           /\ q[k].op = "publish" => \A a \in audience : a.msg.from = c => Follows(a.msg, q[k].msg)
  <2>1. \A a \in audience : a.msg.from = c => Follows(a.msg, M)
    <3> SUFFICES ASSUME NEW a \in audience, a.msg.from = c PROVE Follows(a.msg, M)
      OBVIOUS
    <3>1. a.msg \in said
      BY DEF Said, said
    <3> QED
      BY <1>8, <1>9, <3>1 DEF Follows
  <2> QED
    BY <1>10, <2>1
<1>12. Queues' /\ Wires' /\ Reaches'
  BY <1>1, <1>2, <1>3, <1>10, <1>11, BeginsWithout
<1>13. task'[c] = q /\ \A h \in Goroutines \ {c} : task'[h] = task[h]
  BY <1>1, <1>2 DEF Types
<1>14. Counted(Said(c, q, audience), n + 1, payload'[c])
  <2>1. CASE data /\ f.fin
    <3>1. payload'[c] = <<>>
      BY <1>4, <2>1
    <3>2. \A m \in Said(c, q, audience) : m \in said \/ m = M
      BY <1>10 DEF Said, said
    <3>3. Last(M.data) <= n + 1
      BY <1>4, <1>8, <1>9
    <3> QED
      BY <1>8, <3>1, <3>2, <3>3 DEF Counted
  <2>2. CASE ~(data /\ f.fin)
    <3>1. Said(c, q, audience) = said
      BY <1>10, <2>2, SaysNothing DEF said
    <3> QED
      BY <1>4, <1>8, <2>2, <3>1
  <2> QED
    BY <2>1, <2>2
<1>15. Sources'
  <2>1. \A o \in Conns : handler'[o] = "new" => handler[o] = "new"
    BY <1>1, <1>2 DEF Types
  <2>2. Heard(audience', handler') /\ \A o \in subs' : handler'[o] # "new"
    <3>1. subs \subseteq Conns
      BY <1>1 DEF Types
    <3> QED
      BY <1>1, <1>2, <2>1, <3>1 DEF Sources, Heard
  <2>3. ASSUME NEW o \in Conns PROVE Counted(Said(o, task'[o], audience'), sent'[o] - Len(inbox'[o]), payload'[o])
    <3>1. CASE o = c
      BY <1>2, <1>4, <1>13, <1>14, <3>1
    <3>2. CASE o # c
      <4>1. task'[o] = task[o] /\ inbox'[o] = inbox[o] /\ payload'[o] = payload[o] /\ sent' = sent /\ audience' = audience
        BY <1>2, <1>4, <1>13, <3>2 DEF Goroutines
      <4> QED
        BY <1>1, <4>1 DEF Sources
    <3> QED
      BY <3>1, <3>2
  <2>4. ASSUME NEW t \in Timers
        PROVE  (mode'[t] = "parked" => ~pending'[t]) /\ Told(t, Said(t, task'[t], audience'), Due(t)')
    <3>1. t \in Goroutines /\ t # c
      BY LiveAssumption DEF Goroutines
    <3>2. task'[t] = task[t] /\ Due(t)' = Due(t)
      BY <1>3, <1>13, <3>1 DEF Due
    <3> QED
      BY <1>1, <1>2, <1>3, <3>2 DEF Sources
  <2> QED
    BY <2>2, <2>3, <2>4 DEF Sources
<1> QED
  BY <1>12, <1>15 DEF DInv

\* What a timer's function says follows what it said at earlier ticks.
LEMMA JobSays ==
  ASSUME NEW t \in Timers, NEW x \in Casts, NEW n \in 1 .. x.ticks[t]
  PROVE  /\ InLine(t, Job[t][n])
         /\ \A k \in DOMAIN Job[t][n] :
               /\ ~Delivers(Job[t][n][k])
               /\ Job[t][n][k].op = "publish" => Job[t][n][k] = Publish(Job[t][n][k].msg)
         /\ \A i \in 1 .. n - 1 : \A j \in DOMAIN Job[t][i], k \in DOMAIN Job[t][n] :
               Job[t][i][j].op = "publish" /\ Job[t][n][k].op = "publish" => Follows(Job[t][i][j].msg, Job[t][n][k].msg)
<1> DEFINE last == x.ticks[t]
           q == Job[t][n]
<1>1. Numbered(t, last) /\ q \in Seq(JobSteps(t)) /\ last \in Nat
  BY LiveAssumption
<1>2. ASSUME NEW s \in JobSteps(t)
      PROVE  ~Delivers(s) /\ (s.op = "publish" => s = Publish(s.msg) /\ s.msg.from = t)
  <2>1. CASE s \in [op : {"publish"}, msg : [from : {t}, data : Seq(Int)]]
    <3>1. s.msg \in [from : {t}, data : Seq(Int)] /\ s = [op |-> "publish", msg |-> s.msg] /\ s.op = "publish"
      BY <2>1
    <3> QED
      BY <3>1 DEF Publish, Delivers
  <2>2. CASE s \in [op : {"close"}, to : Conns]
    BY <2>2 DEF Delivers
  <2> QED
    BY <2>1, <2>2 DEF JobSteps
<1> HIDE DEF last
<1>3. n \in 1 .. last /\ last \in Nat
  BY <1>1 DEF last
<1>4. \A i, j \in 1 .. last : \A k \in DOMAIN Job[t][i], l \in DOMAIN Job[t][j] :
         Job[t][i][k].op = "publish" /\ Job[t][j][l].op = "publish" =>
            /\ Job[t][i][k].msg.data # <<>>
            /\ Head(Job[t][i][k].msg.data) <= Last(Job[t][i][k].msg.data)
            /\ i < j \/ (i = j /\ k < l) => Follows(Job[t][i][k].msg, Job[t][j][l].msg)
  BY <1>1 DEF Numbered
<1>5. \A i \in 1 .. n - 1 : \A j \in DOMAIN Job[t][i], k \in DOMAIN q :
         Job[t][i][j].op = "publish" /\ q[k].op = "publish" => Follows(Job[t][i][j].msg, q[k].msg)
  <2>1. \A i \in 1 .. n - 1 : i \in 1 .. last /\ i < n
    BY <1>3
  <2> QED
    BY <1>3, <1>4, <2>1
<1>6. \A k \in DOMAIN q : q[k].op = "publish" => Sound(q[k].msg)
  BY <1>3, <1>4 DEF Sound
<1>7. \A j, k \in DOMAIN q : j < k /\ q[j].op = "publish" /\ q[k].op = "publish" => Follows(q[j].msg, q[k].msg)
  BY <1>3, <1>4
<1> HIDE DEF q
<1>8. \A k \in DOMAIN q : q[k] \in JobSteps(t)
  BY <1>1
<1>9. \A k \in DOMAIN q : ~Delivers(q[k]) /\ (q[k].op = "publish" => q[k] = Publish(q[k].msg) /\ q[k].msg.from = t)
  BY <1>2, <1>8
<1>10. InLine(t, q)
  BY <1>6, <1>7, <1>9 DEF InLine
<1> QED
  BY <1>5, <1>9, <1>10 DEF q

\* A timer's function begins with the tick that is due.
LEMMA BegunDelivery ==
  ASSUME IInv, DInv, NEW t \in Timers, mode[t] # "running", NEW n \in 1 .. cast.ticks[t], Runs(t, n),
         mode' = [mode EXCEPT ![t] = "running"],
         UNCHANGED <<audience, connVars, wireVars>>,
         n = Due(t) + 1, Due(t)' = n, ~pending'[t],
         \A u \in Timers \ {t} : pending'[u] = pending[u] /\ Due(u)' = Due(u)
  PROVE  DInv'
<1>1. Types /\ t \in Goroutines /\ task[t] = <<>> /\ cast \in Casts /\ Sources
  BY DEF IInv, Types, Timed, DInv, Goroutines
<1> DEFINE q == Job[t][n]
<1>2. task' = [task EXCEPT ![t] = q]
  BY DEF Runs
<1>3. /\ InLine(t, q)
      /\ \A k \in DOMAIN q : ~Delivers(q[k]) /\ (q[k].op = "publish" => q[k] = Publish(q[k].msg))
      /\ \A i \in 1 .. n - 1 : \A j \in DOMAIN Job[t][i], k \in DOMAIN q :
            Job[t][i][j].op = "publish" /\ q[k].op = "publish" => Follows(Job[t][i][j].msg, q[k].msg)
  BY <1>1, JobSays
<1> HIDE DEF q
<1>4. Due(t) = n - 1 /\ n \in Int
  <2>1. ticks[t] \in Nat
    BY <1>1 DEF Types
  <2>2. Due(t) \in Int
    BY <2>1 DEF Due
  <2> QED
    BY <2>2
<1> DEFINE d == n - 1
<1>5. Told(t, Said(t, <<>>, audience), d)
  BY <1>1, <1>4 DEF Sources
<1> HIDE DEF d
<1>6. \A k \in DOMAIN q : /\ ~Delivers(q[k])
                          /\ q[k].op = "publish" => \A a \in audience : a.msg.from = t => Follows(a.msg, q[k].msg)
  <2> SUFFICES ASSUME NEW k \in DOMAIN q, q[k].op = "publish", NEW a \in audience, a.msg.from = t
               PROVE  Follows(a.msg, q[k].msg)
    BY <1>3
  <2>1. a.msg \in Said(t, <<>>, audience)
    BY DEF Said
  <2>2. PICK i \in 1 .. d : \E j \in DOMAIN Job[t][i] : Job[t][i][j] = Publish(a.msg)
    BY <1>5, <2>1 DEF Told
  <2>3. PICK j \in DOMAIN Job[t][i] : Job[t][i][j] = Publish(a.msg)
    BY <2>2
  <2>4. Job[t][i][j].op = "publish" /\ Job[t][i][j].msg = a.msg
    BY <2>3, PublishFields
  <2>5. i \in 1 .. n - 1
    BY <2>2 DEF d
  <2>6. Follows(Job[t][i][j].msg, q[k].msg)
    BY <1>3, <2>4, <2>5
  <2> QED
    BY <2>4, <2>6
<1>7. UNCHANGED <<wire, tcp, handler, subs, inbox, sent, payload>>
  BY DEF connVars, wireVars
<1>8. Queues' /\ Wires' /\ Reaches'
  BY <1>1, <1>2, <1>3, <1>6, <1>7, BeginsWithout
<1>9. task'[t] = q /\ \A h \in Goroutines \ {t} : task'[h] = task[h]
  BY <1>1, <1>2 DEF Types
<1>10. Told(t, Said(t, q, audience), n)
  <2> SUFFICES ASSUME NEW m \in Said(t, q, audience)
               PROVE  \E i \in 1 .. n : \E k \in DOMAIN Job[t][i] : Job[t][i][k] = Publish(m)
    BY DEF Told
  <2>1. CASE m \in Said(t, <<>>, audience)
    <3>1. PICK i \in 1 .. d : \E k \in DOMAIN Job[t][i] : Job[t][i][k] = Publish(m)
      BY <1>5, <2>1 DEF Told
    <3>2. i \in 1 .. n
      BY <1>4, <3>1 DEF d
    <3> QED
      BY <3>1, <3>2
  <2>2. CASE m \notin Said(t, <<>>, audience)
    <3>1. PICK k \in DOMAIN q : q[k].op = "publish" /\ m = q[k].msg
      BY <2>2 DEF Said
    <3>2. q[k] = Publish(m)
      BY <1>3, <3>1
    <3>3. n \in 1 .. n
      BY <1>4
    <3> QED
      BY <3>2, <3>3 DEF q
  <2> QED
    BY <2>1, <2>2
<1>11. Sources'
  <2>1. Heard(audience', handler') /\ \A o \in subs' : handler'[o] # "new"
    BY <1>1, <1>7 DEF Sources
  <2>2. ASSUME NEW o \in Conns PROVE Counted(Said(o, task'[o], audience'), sent'[o] - Len(inbox'[o]), payload'[o])
    <3>1. o \in Goroutines \ {t}
      BY LiveAssumption DEF Goroutines
    <3> QED
      BY <1>1, <1>7, <1>9, <3>1 DEF Sources
  <2>3. ASSUME NEW u \in Timers
        PROVE  (mode'[u] = "parked" => ~pending'[u]) /\ Told(u, Said(u, task'[u], audience'), Due(u)')
    <3>1. CASE u = t
      BY <1>9, <1>10, <3>1
    <3>2. CASE u # t
      <4>1. mode'[u] = mode[u] /\ task'[u] = task[u]
        BY <1>1, <1>9, <3>2 DEF Types, Goroutines
      <4>2. pending'[u] = pending[u] /\ Due(u)' = Due(u)
        BY <3>2
      <4> QED
        BY <1>1, <4>1, <4>2 DEF Sources
    <3> QED
      BY <3>1, <3>2
  <2> QED
    BY <2>1, <2>2, <2>3 DEF Sources
<1> QED
  BY <1>8, <1>11 DEF DInv

LEMMA TickDelivery == ASSUME IInv, DInv, NEW t \in Timers, Tick(t) PROVE DInv'
<1>1. Types /\ Timed /\ Sources
  BY DEF IInv, DInv
<1>2. /\ cast.ticks \in [Timers -> Nat] /\ cast.ticks[t] \in Nat
      /\ ticks[t] < cast.ticks[t] /\ ticks' = [ticks EXCEPT ![t] = @ + 1] /\ UNCHANGED <<audience, connVars, wireVars>>
      /\ ticks \in [Timers -> Nat] /\ pending \in [Timers -> BOOLEAN]
      /\ mode \in [Timers -> {"select", "parked", "running", "ended"}]
  BY <1>1, LiveAssumption DEF Tick, Types
<1>3. /\ ticks'[t] \in 1 .. cast.ticks[t] /\ ticks'[t] = ticks[t] + 1 /\ ticks[t] \in Nat
      /\ \A u \in Timers \ {t} : ticks'[u] = ticks[u]
  BY <1>2
<1>4. CASE mode[t] = "parked"
  <2>1. mode' = [mode EXCEPT ![t] = "running"] /\ Runs(t, ticks'[t]) /\ pending' = pending /\ ~pending[t]
    BY <1>1, <1>4 DEF Tick, Sources
  <2> DEFINE n == ticks'[t]
  <2>2. n \in 1 .. cast.ticks[t] /\ Runs(t, n)
    BY <1>3, <2>1
  <2>3. n = Due(t) + 1 /\ Due(t)' = n
    BY <1>3, <2>1 DEF Due
  <2>4. \A u \in Timers \ {t} : pending'[u] = pending[u] /\ Due(u)' = Due(u)
    BY <1>3, <2>1 DEF Due
  <2>5. mode[t] # "running" /\ ~pending'[t]
    BY <1>4, <2>1
  <2> HIDE DEF n
  <2> QED
    BY <1>2, <2>1, <2>2, <2>3, <2>4, <2>5, BegunDelivery
<1>5. CASE mode[t] # "parked"
  <2>1. pending' = [pending EXCEPT ![t] = TRUE] /\ UNCHANGED <<mode, task>> /\ ~pending[t]
    BY <1>5 DEF Tick
  <2>2. pending'[t] /\ \A u \in Timers \ {t} : pending'[u] = pending[u]
    BY <1>2, <2>1
  <2>3. \A u \in Timers : Due(u)' = Due(u)
    BY <1>3, <2>1, <2>2 DEF Due
  <2>4. \A u \in Timers : mode'[u] = "parked" => ~pending'[u]
    BY <1>1, <1>5, <2>1, <2>2 DEF Sources
  <2>5. UNCHANGED <<wire, tcp>>
    BY <1>2 DEF wireVars
  <2> QED
    BY <1>2, <2>1, <2>3, <2>4, <2>5, WaitDelivery
<1> QED
  BY <1>4, <1>5

LEMMA SelectDelivery == ASSUME IInv, DInv, NEW t \in Timers, Select(t) \/ Returned(t) PROVE DInv'
<1>1. Types /\ Timed /\ Sources
  BY DEF IInv, DInv
<1>2. /\ ticks \in [Timers -> Nat] /\ pending \in [Timers -> BOOLEAN]
      /\ mode \in [Timers -> {"select", "parked", "running", "ended"}]
      /\ cast.ticks \in [Timers -> Nat]
      /\ \A u \in Timers : ticks[u] <= cast.ticks[u] /\ (pending[u] => ticks[u] > 0)
  BY <1>1, LiveAssumption DEF Types, Timed
<1>3. CASE SelectTick(t)
  <2>1. /\ mode[t] = "select" /\ pending[t] /\ mode' = [mode EXCEPT ![t] = "running"] /\ Runs(t, ticks[t])
        /\ pending' = [pending EXCEPT ![t] = FALSE] /\ UNCHANGED <<audience, connVars, wireVars, ticks>>
    BY <1>3 DEF SelectTick
  <2>2. PICK n \in 1 .. cast.ticks[t] : n = ticks[t]
    BY <1>2, <2>1
  <2>3. ~pending'[t] /\ \A u \in Timers \ {t} : pending'[u] = pending[u]
    BY <1>2, <2>1
  <2>4. n = Due(t) + 1 /\ Due(t)' = n /\ \A u \in Timers \ {t} : Due(u)' = Due(u)
    BY <1>2, <2>1, <2>2, <2>3 DEF Due
  <2>5. Runs(t, n) /\ mode[t] # "running"
    BY <2>1, <2>2
  <2> QED
    BY <2>1, <2>3, <2>4, <2>5, BegunDelivery
<1>4. CASE SelectStop(t) \/ SelectWaits(t) \/ Returned(t)
  <2>1. /\ UNCHANGED <<task, audience, connVars, wireVars, ticks, pending>>
        /\ \/ mode' = [mode EXCEPT ![t] = "ended"]
           \/ mode' = [mode EXCEPT ![t] = "parked"] /\ ~pending[t]
           \/ mode' = [mode EXCEPT ![t] = "select"]
    <3>1. CASE SelectStop(t)
      BY <3>1 DEF SelectStop
    <3>2. CASE SelectWaits(t)
      BY <3>2 DEF SelectWaits
    <3>3. CASE Returned(t)
      BY <3>3 DEF Returned
    <3> QED
      BY <1>4, <3>1, <3>2, <3>3
  <2>2. \A u \in Timers : mode'[u] = "parked" => ~pending'[u]
    BY <1>1, <1>2, <2>1 DEF Sources
  <2>3. \A u \in Timers : Due(u)' = Due(u)
    BY <2>1 DEF Due
  <2>4. UNCHANGED <<wire, tcp>>
    BY <2>1 DEF wireVars
  <2> QED
    BY <2>1, <2>2, <2>3, <2>4, WaitDelivery
<1> QED
  BY <1>3, <1>4 DEF Select

-----------------------------------------------------------------------------
(* Delivery *)

LEMMA InitDInv == Init => DInv
<1> SUFFICES ASSUME Init PROVE DInv
  OBVIOUS
<1>1. /\ cast \in Casts /\ task = [g \in Goroutines |-> <<>>] /\ wire = [c \in Conns |-> <<>>]
      /\ subs = {} /\ inbox = [c \in Conns |-> <<>>]
      /\ sent = [c \in Conns |-> 0] /\ payload = [c \in Conns |-> <<>>]
      /\ mode = [t \in Timers |-> IF cast.ticks[t] > 0 THEN "select" ELSE "ended"]
      /\ ticks = [t \in Timers |-> 0] /\ pending = [t \in Timers |-> FALSE] /\ audience = {}
  BY DEF Init
<1>2. (\A g \in Goroutines : task[g] = <<>>) /\ (\A c \in Conns : wire[c] = <<>>) /\ DOMAIN <<>> = {}
  BY <1>1
<1>3. \A g \in Goroutines : Said(g, task[g], audience) = {}
  BY <1>1, <1>2 DEF Said
<1>4. Queues
  BY <1>2, NothingInLine DEF Queues, Known
<1>5. Wires
  BY <1>2 DEF Wires, Came, Later, Places
<1>6. Reaches
  BY <1>1 DEF Reaches
<1>7. Sources
  <2>1. Heard(audience, handler) /\ \A c \in subs : handler[c] # "new"
    BY <1>1 DEF Heard
  <2>2. \A c \in Conns : Counted(Said(c, task[c], audience), sent[c] - Len(inbox[c]), payload[c])
    <3>1. \A c \in Conns : payload[c] = <<>> /\ Said(c, task[c], audience) = {}
      BY <1>1, <1>3 DEF Goroutines
    <3> QED
      BY <3>1 DEF Counted
  <2>3. \A t \in Timers : ~pending[t] /\ Told(t, Said(t, task[t], audience), Due(t))
    BY <1>1, <1>3 DEF Told, Goroutines
  <2> QED
    BY <2>1, <2>2, <2>3 DEF Sources
<1> QED
  BY <1>4, <1>5, <1>6, <1>7 DEF DInv

LEMMA StepDInv == IInv /\ DInv /\ [Next]_vars => DInv'
<1> SUFFICES ASSUME IInv, DInv, [Next]_vars PROVE DInv'
  OBVIOUS
<1>1. ASSUME NEW g \in Goroutines, Step(g) PROVE DInv'
  BY <1>1, PublishDelivery, SendDelivery, HeaderDelivery, PayloadDelivery, CloseDelivery, HangUpDelivery DEF Step
<1>2. ASSUME NEW c \in Conns, Connect(c) \/ ClientSends(c) \/ ClientGoes(c) \/ Subscribe(c) \/ RecvNull(c) PROVE DInv'
  BY <1>2, ConnDelivery
<1>3. ASSUME NEW c \in Conns, Recv(c) PROVE DInv'
  BY <1>3, RecvDelivery
<1>4. ASSUME NEW c \in Conns, Unsubscribe(c) PROVE DInv'
  BY <1>4, UnsubscribeDelivery
<1>5. ASSUME NEW t \in Timers, Tick(t) PROVE DInv'
  BY <1>5, TickDelivery
<1>6. ASSUME NEW t \in Timers, Select(t) \/ Returned(t) PROVE DInv'
  BY <1>6, SelectDelivery
<1>7. ASSUME \/ \E s \in StopCalls : StopLooks(s) \/ StopCloses(s)
             \/ (\E r \in Requests : Arrive(r) \/ Answer(r)) \/ Signal \/ TenSeconds \/ Exit \/ UNCHANGED vars
      PROVE  DInv'
  BY <1>7, OtherDelivery
<1> QED
  BY <1>1, <1>2, <1>3, <1>4, <1>5, <1>6, <1>7 DEF Next

\* The invariant says that messages are delivered: two places with the same message
\* would have to follow each other.
LEMMA DInvDelivered == IInv /\ DInv => Delivered
<1> SUFFICES ASSUME IInv, DInv PROVE Delivered
  OBVIOUS
<1>1. \A c \in Conns : Arrived(c) = Places(wire[c])
  BY DEF Arrived, Places
<1>2. \A c \in Conns : Came(wire[c], c, audience)
  BY DEF DInv, Wires
<1>3. Types /\ Heard(audience, handler)
  BY DEF IInv, DInv, Sources
<1>4. ASSUME NEW a \in audience, NEW c \in a.subs
      PROVE  \/ \E k \in Arrived(c) : wire[c][k].frame = a.msg
             \/ tcp[c] # "open"
             \/ Owes(a.msg.from, c, a.msg)
  <2>1. c \in Conns
    BY <1>3 DEF Heard
  <2>2. At(wire[c], a.msg) \/ tcp[c] # "open" \/ Brings(task[a.msg.from], c, a.msg)
    BY DEF DInv, Reaches
  <2> QED
    BY <1>1, <2>1, <2>2 DEF At, Brings, Owes
<1>5. \A c \in Conns : \A k \in Arrived(c) : \E a \in audience : a.msg = wire[c][k].frame /\ c \in a.subs
  BY <1>1, <1>2 DEF Came
<1>6. ASSUME NEW c \in Conns, NEW j \in Arrived(c), NEW k \in Arrived(c), j < k, wire[c][j].frame.from = wire[c][k].frame.from
      PROVE  Follows(wire[c][j].frame, wire[c][k].frame)
  BY <1>1, <1>2, <1>6 DEF Came
<1>7. ASSUME NEW c \in Conns, NEW j \in Arrived(c), NEW k \in Arrived(c), wire[c][j].frame = wire[c][k].frame PROVE j = k
  <2>1. j \in Int /\ k \in Int
    <3>1. wire[c] \in Seq(Pieces)
      BY <1>3 DEF Types
    <3>2. DOMAIN wire[c] \subseteq Int
      BY <3>1
    <3> QED
      BY <3>2 DEF Arrived
  <2> DEFINE m == wire[c][j].frame
  <2>2. m \in Published /\ Sound(m)
    <3>1. \E a \in audience : a.msg = m
      BY <1>5
    <3> QED
      BY <1>3, <3>1 DEF Heard
  <2>3. ~Follows(m, m)
    <3> HIDE DEF m
    <3>1. m.data \in Seq(Int) /\ m.data # <<>> /\ Head(m.data) <= Last(m.data)
      BY <2>2 DEF Published, Sound
    <3>2. Head(m.data) \in Int /\ Last(m.data) \in Int
      BY <3>1 DEF Last
    <3> QED
      BY <3>1, <3>2 DEF Follows
  <2>4. ~(j < k) /\ ~(k < j)
    BY <1>6, <1>7, <2>3
  <2> QED
    BY <2>1, <2>4
<1> QED
  BY <1>4, <1>5, <1>6, <1>7 DEF Delivered

\* Every subscriber of the moment gets a message that is published, once, unless its own
\* connection ends; nobody else gets it, and what one publisher says arrives in its order,
\* whatever the others do, leave or close meanwhile (builtins.go, pubsub; websocket.go:
\* ReadMessage, writeFrame).  For any number of connections and timers.
THEOREM AlwaysDelivered == Spec => []Delivered
<1>1. Init => DInv
  BY InitDInv
<1>2. IInv /\ DInv /\ [Next]_vars => DInv'
  BY StepDInv
<1>3. IInv /\ DInv => Delivered
  BY DInvDelivered
<1> QED
  BY <1>1, <1>2, <1>3, Invariance, PTL DEF Spec
=============================================================================
