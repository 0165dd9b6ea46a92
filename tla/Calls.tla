------------------------------- MODULE Calls -------------------------------
(***************************************************************************)
(* Outgoing calls (builtins.go): fetch, fetch_all, which keeps several     *)
(* requests in flight and collects their answers, and the two loops that   *)
(* try again, fetch_retry and retry.  The other side may answer, fail,     *)
(* carry out a request whose answer is lost, or stay silent until the      *)
(* client's time limit.  One call per behaviour.                           *)
(***************************************************************************)
EXTENDS Integers, Sequences, FiniteSets, FiniteSetsExt

CONSTANTS CallCasts,     \* [name, entries, limit, attempts, delay]: the call and its options
          DefaultLimit   \* requests in flight at most, when no option says so

\* What an entry of fetch_all is; the retry loops have one request, an address.
CallShapes == [name : {"fetch_all", "fetch_retry", "retry"}, entries : Seq({"url", "object", "other"}),
               limit : {"default", "none", "two"}, attempts : Int, delay : Int]
ASSUME CallsAssumption ==
    /\ DefaultLimit \in Nat \ {0} /\ CallCasts \subseteq CallShapes
    /\ \A c \in CallCasts : c.name # "fetch_all" => c.entries = <<"url">>

VARIABLES call,      \* the member of CallCasts
          spawned,   \* entries that fetch_all has started
          at,        \* [entries -> step of its goroutine]
          out,       \* [entries -> what fetch_all returns for it]
          log,       \* history: [entry, reply], in the order of the answers
          effects,   \* history: requests that reached the other side
          outcome    \* of the whole call: [kind, reply]

callVars == <<call, spawned, at, out, log, effects, outcome>>

Entries == DOMAIN call.entries
Running == [kind |-> "running", reply |-> "none"]

\* How a request ends: a status, or an error (no connection, a lost answer, 60 s of
\* silence).
Statuses == {"200", "404", "503"}
Replies  == Statuses \cup {"error"}
Settled(reply) == reply \in {"200", "404"}

CallsInit ==
    /\ call \in CallCasts
    /\ spawned = 0
    /\ at = [i \in Entries |-> "idle"]
    /\ out = [i \in Entries |-> "none"]
    /\ log = <<>> /\ effects = 0
    /\ outcome = Running

Going(names) == call.name \in names /\ outcome = Running
Move(i, from, to) == at[i] = from /\ at' = [at EXCEPT ![i] = to]

\* builtinFetch: the request is out; its effect and its answer are the other side's.
Ask(i) ==
    /\ Going({"fetch_all", "fetch_retry", "retry"})
    /\ call.entries[i] \in {"url", "object"}
    /\ Move(i, "started", "asked")
    /\ effects' \in {effects, effects + 1}
    /\ UNCHANGED <<call, spawned, out, log, outcome>>

\* Places of the log.
Answered   == {k \in DOMAIN log : log[k].reply \in Statuses}
OfEntry(i) == {k \in DOMAIN log : log[k].entry = i}

\* An answer is that to a request which got there.
Hear(i, reply) ==
    /\ Move(i, "asked", "heard")
    /\ reply \in Statuses => effects > Cardinality(Answered)
    /\ log' = Append(log, [entry |-> i, reply |-> reply])
    /\ UNCHANGED <<call, spawned, out, effects, outcome>>

ReplyTo(i) == log[Max(OfEntry(i))].reply

-----------------------------------------------------------------------------
(* fetch_all: a semaphore of Limit slots, a goroutine per entry. *)

LeastOfTwo(x, y) == IF x < y THEN x ELSE y
Limit == CASE call.limit = "default" -> LeastOfTwo(Len(call.entries), DefaultLimit)
           [] call.limit = "none"    -> 1
           [] call.limit = "two"     -> 2

Holding == {i \in Entries : at[i] \in {"started", "asked", "heard", "written"}}

\* Mutant: no slot is taken.
StartUnlimited ==
    /\ Going({"fetch_all"})
    /\ spawned < Len(call.entries)
    /\ spawned' = spawned + 1
    /\ Move(spawned + 1, "idle", "started")
    /\ UNCHANGED <<call, out, log, effects, outcome>>

\* The caller's loop takes a slot before it starts the goroutine.
StartNext ==
    /\ Going({"fetch_all"})
    /\ spawned < Len(call.entries)
    /\ Cardinality(Holding) < Limit
    /\ spawned' = spawned + 1
    /\ Move(spawned + 1, "idle", "started")
    /\ UNCHANGED <<call, out, log, effects, outcome>>

\* An object without url, a value that is neither: an error entry and no request.
Reject(i) ==
    /\ Going({"fetch_all"})
    /\ call.entries[i] = "other"
    /\ Move(i, "started", "written")
    /\ out' = [out EXCEPT ![i] = "error"]
    /\ UNCHANGED <<call, spawned, log, effects, outcome>>

Put(i) ==
    /\ Going({"fetch_all"})
    /\ Move(i, "heard", "written")
    /\ out' = [out EXCEPT ![i] = ReplyTo(i)]
    /\ UNCHANGED <<call, spawned, log, effects, outcome>>

\* The deferred release of the slot and wg.Done.
Free(i) ==
    /\ Going({"fetch_all"})
    /\ Move(i, "written", "done")
    /\ UNCHANGED <<call, spawned, out, log, effects, outcome>>

Collect ==
    /\ Going({"fetch_all"})
    /\ \A i \in Entries : at[i] = "done"
    /\ outcome' = [kind |-> "value", reply |-> "all"]
    /\ UNCHANGED <<call, spawned, at, out, log, effects>>

-----------------------------------------------------------------------------
(* fetch_retry and retry: one entry, asked again and again. *)

\* fetch_retry makes at least one attempt; retry makes none when asked for none.
Attempts == IF call.name = "fetch_retry" /\ call.attempts < 1 THEN 1 ELSE call.attempts

FirstTry ==
    /\ Going({"fetch_retry", "retry"})
    /\ Attempts > 0
    /\ Move(1, "idle", "started")
    /\ UNCHANGED <<call, spawned, out, log, effects, outcome>>

NoTry ==
    /\ Going({"retry"})
    /\ Attempts <= 0 /\ at[1] = "idle"
    /\ outcome' = [kind |-> "value", reply |-> "null"]
    /\ UNCHANGED <<call, spawned, at, out, log, effects>>

\* retry: any value of fn ends it; fetch_retry: a status below 500.
Enough(reply) == IF call.name = "retry" THEN reply # "error" ELSE Settled(reply)

Conclude ==
    /\ Going({"fetch_retry", "retry"})
    /\ Move(1, "heard", "done")
    /\ Enough(ReplyTo(1)) \/ Len(log) = Attempts
    /\ outcome' = [kind |-> IF ReplyTo(1) = "error" THEN "error" ELSE "value", reply |-> ReplyTo(1)]
    /\ UNCHANGED <<call, spawned, out, log, effects>>

\* The pause of fetch_retry draws a jitter from the half of it: rand.Int63n panics when
\* that is not positive.
TryAgain ==
    /\ Going({"fetch_retry", "retry"})
    /\ at[1] = "heard" /\ ~Enough(ReplyTo(1)) /\ Len(log) < Attempts
    /\ IF call.name = "fetch_retry" /\ call.delay <= 0
       THEN Move(1, "heard", "done") /\ outcome' = [kind |-> "panic", reply |-> "none"]
       ELSE Move(1, "heard", "started") /\ UNCHANGED outcome
    /\ UNCHANGED <<call, spawned, out, log, effects>>

CallsNext ==
    \/ \E i \in Entries : \/ Ask(i) \/ Reject(i) \/ Put(i) \/ Free(i)
                          \/ \E reply \in Replies : Hear(i, reply)
    \/ StartNext \/ Collect \/ FirstTry \/ NoTry \/ Conclude \/ TryAgain

CallsSpec == CallsInit /\ [][CallsNext]_callVars

-----------------------------------------------------------------------------
(* Properties *)

\* fetch_all returns in the place of each entry the answer to that entry, and an
\* error only for one that got none (builtins.go: "return the results in input order").
InOrder ==
    outcome.kind = "value" /\ call.name = "fetch_all" =>
       \A i \in Entries :
          out[i] = IF OfEntry(i) \cap Answered # {}
                   THEN ReplyTo(i) ELSE "error"

\* It never holds more requests open than it was told (builtins.go: "opts.concurrency
\* caps in-flight requests").
InFlight == Cardinality({i \in Entries : at[i] = "asked"}) <= Limit

\* A retry loop returns the first good answer and asks no more after it, fails only
\* after the last attempt, and a good answer was an effect of one of its requests.
Retried ==
    outcome.kind \in {"value", "error"} /\ call.name # "fetch_all" =>
       /\ \A k \in DOMAIN log : Enough(log[k].reply) => k = Len(log) /\ outcome.reply = log[k].reply
       /\ outcome.kind = "error" => Len(log) = Attempts
       /\ outcome.reply \in Statuses => effects >= 1
       /\ effects <= Len(log)

\* A call that has not returned can go on: every slot comes back.
NoStall == outcome = Running => ENABLED CallsNext

\* What a caller gets agrees with what was sent and answered, and it gets something.
CallsAnswer == InOrder /\ InFlight /\ Retried /\ NoStall
=============================================================================
