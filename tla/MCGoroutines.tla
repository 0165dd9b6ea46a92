---------------------------- MODULE MCGoroutines ----------------------------
(***************************************************************************)
(* Small programs for Goroutines: the documented patterns (a producer that *)
(* closes its channel, a fork joined by a wait group, a channel used as a  *)
(* lock) and programs that stray from them.                                *)
(***************************************************************************)
EXTENDS Goroutines, TLC

CONSTANTS main, p1, p2, data, lock

Run(m, a, b, cap) ==
    [ code     |-> main :> m @@ p1 :> a @@ p2 :> b,
      capacity |-> data :> cap @@ lock :> 1 ]

Producer == <<Send(data), Send(data), Send(data), CloseChan(data)>>
Locked   == <<Send(lock), Increment, Recv(lock)>>

Patterns ==
    { Run(<<Spawn(p1), RecvLoop(data)>>, Producer, <<>>, cap) : cap \in 0 .. 2 }
    \cup
    { Run(<<Add, Spawn(p1), Add, Spawn(p2), Wait>> \o m, Locked \o <<Done>>,
          Locked \o <<Done>>, 0) : m \in {<<>>, Locked} }
    \cup
    { Run(<<Spawn(p1), Spawn(p2), RecvLoop(data), Wait>>, Producer, Locked, 1),
      \* one fork after the other, on one wait group
      Run(<<Add, Spawn(p1), Wait, Add, Spawn(p2), Wait>>, Locked \o <<Done>>, <<Done>>, 0) }

Astray ==
    { \* the consumer closes; twice
      Run(<<Spawn(p1), Recv(data), CloseChan(data), CloseChan(data), RecvLoop(data)>>,
          <<Send(data), Send(data), Send(data)>>, <<>>, 1),
      \* two producers, and the first to finish closes
      Run(<<Spawn(p1), Spawn(p2), RecvLoop(data)>>, Producer, Producer, 1),
      Run(<<Spawn(p1), Spawn(p2), RecvLoop(data)>>, Producer, Producer, 0),
      \* a null in the stream
      Run(<<Spawn(p1), RecvLoop(data), Recv(data)>>, <<SendNull(data)>> \o Producer, <<>>, 1),
      \* two consumers
      Run(<<Spawn(p1), Spawn(p2), RecvLoop(data), Wait>>, Producer, <<RecvLoop(data)>>, 1),
      \* the goroutine announces itself, or is done twice
      Run(<<Spawn(p1), Wait>>, <<Add, Increment, Done>>, <<>>, 0),
      Run(<<Add, Spawn(p1), Spawn(p2), Wait>>, <<Done, Done>>, <<Add>>, 0),
      Run(<<Spawn(p1), Spawn(p2), Add, Wait>>, <<Done>>, <<Done>>, 0),
      \* the wait group is used again before the wait has returned
      Run(<<Add, Spawn(p1), Wait>>, <<Done, Add, Done>>, <<>>, 0),
      \* increments without a lock
      Run(<<Add, Spawn(p1), Increment, Wait>>, <<Increment, Done>>, <<>>, 0) }

AllPrograms == Patterns \cup Astray
=============================================================================
