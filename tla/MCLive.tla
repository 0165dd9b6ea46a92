------------------------------- MODULE MCLive -------------------------------
(***************************************************************************)
(* Two chat connections, a ticker that publishes to the same topic, and a  *)
(* timer that closes the first connection.  A client reads all it gets, or *)
(* stops reading at some point.                                            *)
(***************************************************************************)
EXTENDS Live, TLC

CONSTANTS c1, c2, ticker, timeout, r1, admin

TheConns  == {c1, c2}
TheTimers == {ticker, timeout}
TheKind   == ticker :> "every" @@ timeout :> "after"
TheJob    == ticker :> [n \in 1 .. 3 |-> <<Publish(Message(ticker, <<n>>))>>]
             @@ timeout :> <<<<Close(c1)>>>>
TheStoppers == ticker :> {admin} @@ timeout :> {c1, c2}

Cast(conns, frames, n1, n2, beats, closes, stops, signal) ==
    [ conns |-> conns, frames |-> frames, most |-> c1 :> n1 @@ c2 :> n2,
      ticks |-> ticker :> beats @@ timeout :> closes,
      stops |-> {s \in StopCalls : s[2] \in stops},
      requests |-> IF signal THEN {r1} ELSE {}, signal |-> signal,
      reads |-> c1 :> 100 @@ c2 :> 100 ]

\* c1 reads n pieces and no more.
Stalls(n, x) == [x EXCEPT !.reads[c1] = n]

Data   == { f \in Frames : f.op \in {"text", "more"} }
Whole  == { f \in Frames : f.op \in {"text", "close"} /\ f.fin }

Readers ==
    { Cast({c1, c2}, Whole, 1, 1, 0, 0, {}, FALSE),       \* a chat
      Cast({c1}, Frames, 3, 0, 0, 0, {}, FALSE),          \* one client, fragments
      Cast({c1, c2}, Data, 2, 0, 0, 0, {}, FALSE),        \* fragments for two
      Cast({c1}, Whole, 1, 0, 0, 1, {}, FALSE),           \* a close from elsewhere
      Cast({c1}, {}, 0, 0, 2, 0, {ticker}, FALSE),        \* a ticker and its stop
      Cast({}, {}, 0, 0, 0, 1, {timeout}, FALSE),         \* two that stop one timer
      Cast({c1}, {}, 0, 0, 2, 1, {}, FALSE),              \* both timers
      Cast({c1}, Whole, 1, 0, 0, 0, {}, TRUE),            \* the end of the server
      Cast({c1}, {}, 0, 0, 1, 0, {ticker}, TRUE) }

Stalled ==
    { Stalls(n, Cast({c1, c2}, Whole, 0, 1, 0, 0, {}, FALSE)) : n \in 0 .. 2 }  \* the other one publishes
    \cup
    { Stalls(n, Cast({c1}, Whole, 1, 0, 0, 1, {}, FALSE)) : n \in {0, 3} }      \* a close from elsewhere
    \cup
    { Stalls(1, Cast({c1, c2}, {}, 0, 0, 1, 0, {ticker}, FALSE)),               \* a ticker and its stop
      Stalls(2, Cast({c1}, {}, 0, 0, 2, 1, {}, FALSE)),                         \* both timers
      Stalls(1, Cast({c1}, {}, 0, 0, 1, 0, {ticker}, TRUE)) }                   \* the end of the server

TheCasts == Readers \cup Stalled
=============================================================================
