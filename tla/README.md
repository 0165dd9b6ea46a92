# A verification development of MX Script

MX Script (`src/`) is a scripting language for web programs: a lexer, a parser and
a tree-walking evaluator in Go, with an HTTP server, a durable job queue, timers,
goroutines and a large library built into the interpreter, an opt-in bytecode
compiler and virtual machine, and a command line (`mx run`, `watch`, `test`, `fmt`,
`check`, `pkg`, ...). These TLA+ modules model the parts whose correctness depends
on an order of events, on several goroutines or processes, on what outlives a crash,
or on two definitions that should agree; TLC checks them on small instances and
TLAPS proves the central safety properties of the job queue, the routes, the
goroutines, the stores, the migrations, the packages and the frames for every instance.

Contents: 1 the system; 2 modules and code; 3 the runs; 4 bounds; 5 fairness;
6 proofs; 7 what the code does against its documents; 8 what is left out; 9 plan.

## 1. The system

| Component | State | Operations | What makes it correct | Modules |
|---|---|---|---|---|
| Job queue (`jobs.go`) | the table `mx_jobs` in a SQLite file shared by processes; per handle a mutex and one connection; per `process()` a stop channel, a wait group, its workers | `jobs.create`, `enqueue`, `process`, `stop`, `close`; claim and outcome statements | a job has one runner at a time, at most `max_attempts` tries, ends done or failed; `stop()` returns when the workers are gone | `Jobs`, `JobQueue` |
| Routes, groups, middlewares (`interpreter.go`, `route_trie.go`) | `routes`, `routeTrie`, `useGlobal` (capacity included), `middlewares`, server settings; a goroutine per request | `registerRoute`, `execGroup`, `execServer`, `use`; `Handler`, `dispatch`, `runRoute`, `runSSE`, `runWS` | the trie answers as the scan it replaced; bodies run behind their middlewares; groups do not leak; every request is answered | `Web`, `RouteTrie` |
| Goroutines, channels (`interpreter.go`, `builtins.go`) | Go channels, wait groups, variables of a shared `Env` | `spawn`, `chan`, `send`, `recv`, `close_chan`, `wait_group`, `Env.Get/Assign` | `wait()` joins, a consumer drains, no accepted value is lost | `Goroutines` |
| WebSocket, publish/subscribe, timers, shutdown (`websocket.go`, `builtins.go`, `startServer`) | per connection a read buffer, a write mutex, the closed flag; topics; a goroutine and a stop channel per timer; the signal channel | read, write, ping, pong, close; subscribe, publish, unsubscribe; `every`, `cron`, `after` and their stops; `Shutdown` | frames stay whole; subscribers of the moment get each message once; what was stopped, closed or signalled ends | `Live` |
| Tree-walking evaluator | scopes, arrays and maps by reference, output; signals | `exec`, `eval`, calls, closures | it is the meaning of programs | `Language`, `Evaluator` |
| Bytecode compiler and VM (`vm.go`) | code, tables, value stack, pc | `CompileExpr`, `CompileBlock`, `Run`, `tryBytecode*` | same effects; jumps stay inside, the stack does not underflow | `Bytecode`, `Evaluator` |
| Lexer, parser, formatter, checker; `mx fmt`, `check`, `run` | the source file | text to tokens to tree; tokens to text; a walk with scopes | a program is read as written, before and after formatting; formatting keeps every token and settles; what the checker accepts does not miss a name | `Lexer`, `Parser`, `Grammar`, `Formatter`, `Checker`, `Toolchain` |
| Key-value files, vault, snapshots | one JSON file per store, a temporary file, a mutex per process | load, change, save | an operation takes effect at one moment or not at all; a crash keeps the file legible | `FileStore`, `AtomicStore` |
| SQL (`sql.go`, `sql_insert.go`) | database handles, transactions, `mx_migrations` | `migrate`, `transaction`, eight helpers | what is recorded was executed, once and in order; helpers do to the table what their objects say | `Migrations`, `SqlHelpers` |
| Package manager (`pkg.go`) | checkouts, `mx.json` | add, remove, install, update | the lock reproduces an install | `Packages` |
| Rate limits and metrics | buckets, series, each under a mutex | `allow`, `rate_limit`, reset; inc, set, observe, render | a bucket lets through what its history allows; no record is lost or counted twice | `Limits` |
| Outgoing calls (`builtins.go`) | a semaphore and a result list per call | `fetch`, `fetch_all`, `fetch_retry`, `retry` | answers at their places, bounded tries, an answer in the end | `Calls` |
| Sessions, tokens, webhooks | nothing on the server | sign and check | a credential holds while its secret and its time last | `Tokens` |
| Schedules (`cron.go`) | the parsed rule | `ParseCron`, `Next`, the loop of `cron` | each firing is the first matching minute after the last run | `Cron` |
| `mx run --watch`, `mx watch`, `mx test --watch` | the last hash, one child | poll, kill, start | one child; the last save is the one that runs | `Watch` |
| `mx test` | an interpreter per test, counts, coverage | collect, run, report | a verdict depends on its test alone; the totals and the exit code match the verdicts | `TestRunner` |
| Array builtins, templates, validation | values shared by reference; a tree of tags; a schema | `map` ... `group_by`; `render_string`; `validate`, `body_validate` | results as the elements and calls say; tags nest; a fault is reported once, at its place | `Collections`, `Templates`, `Validation` |
| Not modelled | | language server, scaffolds and upgrade, HTTP helpers, `eval` with a timeout, HTTP client sessions, external services, encryption, the other pure builtins, WebAssembly, the site | | - |

How they interact. One `Interpreter` value is shared by everything that runs in a
process: the main goroutine that loads the program and then serves, one goroutine
per HTTP request or connection, one per `spawn`, one per worker of a job queue and
one per timer. They share the scopes (`Env` has a lock per access), `useGlobal`,
`routeTrie`, `callStack` and the bytecode caches, of which only the scopes are
locked. The library is reached through calls of builtins; a builtin calls back into
the program through `CallFunction` (job handlers, timers, subscribers, WebSocket
handlers, the functions of `map` and `sort_by`). Processes meet in files: job queues
and migrations in a database, stores in a JSON file, packages in a checkout, the
watcher and its child in the source files.

What is hard: transactions of several processes on one file, crashes between two
statements, discarded errors, timestamps compared as text, concurrent callers of a
stop function; slices whose spare capacity is shared; snapshots of a list that is
left meanwhile; a close from either end of a connection during a write; streams
behind wrapped writers; closed channels; signals (`break`, `return`) passing through
code that treats signals as errors; two engines mixed at statement granularity;
flags set by one token and reset by a later one. `PROJECT.json` lists these hazards
one by one with their lines and the properties that guard them.

## 2. Modules and code

**`Jobs`** is the queue. A *handle* is one process's connection and mutex. A worker
is one iteration of `startWorker`'s loop cut at the points where other goroutines
and processes can act: the poll of the stop channel, the SELECT of `jobsClaim`
(`ClaimSelect`), its UPDATE (`ClaimUpdate`, or `ClaimRefused` when SQLite refuses
the write of an outdated snapshot or its lock stays taken), the commit, the handler,
and the statement that records the outcome (`MarkDone`, `MarkFailed`, or
`MarkClosed` and `MarkFault`, whose error the code discards). A commit that fails is
`ClaimLost`: the worker waits as after any refused claim. A handler that calls `stop()`
tests the channel and closes it in two steps (`HandlerStop`, `HandlerCloses`), as other
callers do; when another has closed it in between, its goroutine, which recovers from
nothing, takes the process down (`Crash`). `Crash` rolls the
open transaction back and forgets the process's goroutines. `run_at` is kept
relative to the clock (`due`), so that the clock needs no bound, and `Ready` is
the text comparison of RFC 3339 stamps: an instant on the second sorts after the
instants that follow it, because its fraction is not written. SQLite itself is
external: snapshot reads, one write lock, first committer wins.
**`JobQueue`** is the promise to the user of the queue, without transactions,
connections or clocks; `Jobs` implements it under the mapping `Promise` (a job's
holder is the worker that has it in hand).
**`JobsProofs`** has the proofs. A module `XProofs` extends the module `X` of its
component and has its theorems: `WebProofs`, `GoroutinesProofs`, `LiveProofs`,
`FileStoreProofs`, `MigrationsProofs`, `PackagesProofs`. `ServicesProofs` extends
`Limits`, `Calls`, `Tokens`, `Cron`, `Watch` and `TestRunner` (section 6).

**`RouteTrie`** has the pure part of `route_trie.go` (insert, match with its writes
to the params map, the choice by method) and the linear scanner `matchPath`. A node is
named by the edges that lead to it, so that `matchSegs` is a recursive function over the
nodes: `Answer` is what it does at one, given the answers below. Its writes to the map
are themselves a map, from each name to what the last write left: a value, or a removal.
**`Web`**
loads a program statement by statement (`EnterGroup`/`LeaveGroup` are `execGroup`,
with the saved copy of `useGlobal`; `Register` is `registerRoute` with the
middlewares the code attaches), then serves requests, each one a small state
machine through the handler chain, `dispatch`, and `runRoute`'s loop over
`append(i.useGlobal, route.Middlewares...)`, one middleware per step. `useCap` and
`spare` are the capacity and the spare elements of the slice: `StartRoute` writes
into `spare` exactly when Go's append would.

**`Goroutines`** runs programs that give each goroutine a list of operations. A send
or a receive has two steps (arrive, complete), `x = x + 1` has two (read, assign).
The end of the main goroutine ends the process. The wait group is Go's: `add` and
`done` count first and panic afterwards when the counter has become negative
(`CountPanics`), where it stays; the panic ends a spawned goroutine, whose `recover`
repairs nothing, or the process. `wait` goes on at a counter of zero, else it blocks
(`WaitBlocks`) until a count comes to zero; a goroutine that finds the counter moved
again when it is woken panics (`WaitPanics`, the misuse that `sync.WaitGroup` reports).

**`Live`** composes what lives on between requests. What a goroutine still has to do
is a list of steps (`task`): a call of `publish` puts one write per subscriber of the
moment in front of it, a write is *lock, header, payload, unlock* (`writeFrame` makes
two calls of `Write`), a close marks the connection, sends the close frame and
shuts the socket. Nothing bounds the time of a write: a client has a number of writes
it still takes (`reads`), and when they are used up and it is still there (`Full`), a
write to it does not happen and its writer keeps `writeMu`. The reader answers pings and joins fragments (`ReadMessage`). A
timer is the goroutine's `select` between the tick and the stop channel, either of
which it may take when both are ready; a stop function tests and closes in two steps,
so that the second of two callers may panic, as the code does. `Signal`,
`TenSeconds` and `Exit` are `startServer`'s shutdown: requests are waited for,
hijacked connections and timers are not.

**`Language`** has the syntax trees, values, ordered maps, truthiness, equality and
scopes; **`Bytecode`** has the compiler (what it refuses, the code it makes, jumps
patched after the fact) and a static analysis of code, `WellStacked`;
**`Evaluator`** has both engines. `Eval` and `WalkStmt` are `eval` and `exec`;
`Run` sends a piece of the program to the machine where `execStmt` and
`callFunction` try it there (`Tried`), and walks it otherwise; it is the one
operator through which the recursion over syntax trees goes. `RunVM` is the
machine's `Run`. A result carries its signal (`ok`, `error`,
`break`, `continue`, `return`, `panic`). The behaviour loads a program on both
engines side by side, one top-level statement per step.

**`Lexer`**, **`Parser`**, **`Formatter`** and **`Checker`** are functions, each operator
the translation of the function of the same name (`ParseIf` is `parseIf`). A text is a
sequence of characters, where a run of letters that no rule looks into stands as one.
`Levels` is the table of the binary operators' parse functions. The formatter is a
fold of `Emit` over the tokens with the flags of the Go struct, then `Tidy`.
**`Grammar`** is written the other way round and is no code of the project: how a tree
is spelled with the parentheses that precedence asks for. **`Toolchain`** puts them
together: a file, `mx fmt -w`, `mx check` and `mx run` in any order.

**`FileStore`** is one load-change-save with its lock, temporary file and rename,
under crashes and full disks, for the three kinds of store; it implements
**`AtomicStore`** where its lock and its rename allow. **`Migrations`** has servers of
different releases that start, stop and die between two statements. **`SqlHelpers`**
builds the statement and its argument list as the code does, then runs it on a table
of one unique column; its reference, an instance of `AtomicStore` too, does to the
table what the caller's objects say by name. **`Packages`** is `mx pkg`, one git call
per step (an install clones, `InstallClones`, and resets, `InstallResets`, and may fail
or be killed between the two); repositories and colleagues move on meanwhile. What a command has left to do
is a set of repositories, taken in the order of their paths (`Paths`).

**`Limits`** (buckets and metrics; time in ticks, tokens in parts), **`Calls`** (one
outgoing call with its goroutines), **`Tokens`** (credentials as terms over a secret
and a payload), **`Cron`** (real dates, short days), **`Watch`** (the polling loop and
its children), **`TestRunner`** (files, filters, verdicts, coverage), **`Collections`**,
**`Templates`** (parser, renderer, and a second reading of a template against which
both are held) and **`Validation`** are components that share no state with one
another.

`MCJobs`, `MCWeb`, `MCEvaluator`, `MCToolchain` and `MCLive` give instances and
programs to one component each. `MCStorage` and `MCServices` (with `MCGoroutines` and
`MCValues`) gather components that share nothing: a variable `part` says which of
them a behaviour is about, and the others stand still. Definitions named as a mutant
("Mutant: ...") are used by no specification; each replaces the definition after it
with the body a plausible slip would give, to see that the property named with it in
`PROJECT.json` notices.

## 3. The runs

| Run | Shows |
|---|---|
| `jobs_processes` | Two processes on one file, two jobs and a crash: one runner per job, workers and table agree, failure on the last attempt only, a `running` row without a runner is the mark of a fault, jobs start early by less than a second, and `Jobs` refines `JobQueue`. |
| `jobs_drain` | One process, two workers, a claim or an outcome that is lost, two callers of `stop()` and handlers that call it, any of whom may panic on the second close: `stop()` returns only when drained, and it does return unless a handler waits for itself; an undisturbed job is done or failed in the end. |
| `jobs_restart` | **Violated**: a job whose process dies while running it is never run again. |
| `web_routing` | Triples and pairs of a pool of overlapping routes, programs with groups and middlewares, and servers with `log` and `compression`: the preferred route is served with the right params, bodies are guarded in order, groups do not leak, and two concurrent requests are answered in every interleaving. |
| `web_slots` | **Violated**: with three global middlewares, two requests share a slot of the slice. |
| `live` | Chats of two connections with fragments, pings and closes from both ends, a ticker, a timer that closes a connection, two stops of one timer, and a shutdown: frames stay whole, every subscriber gets every message once and in its publisher's order, and everything that should end does, but for what waits on a client that is there and does not read. |
| `engines` | 256 loop bodies, recursion, closures and caught errors: same effects on both engines, and compiled code is sound whichever way its jumps go. |
| `vm_return` | **Violated**: a `return` inside an `if` of a function that is not compiled is lost under `--bytecode`. |
| `toolchain` | 1905 files: every construct inside every other, every statement with blocks in it, trivia between any two lexemes, small programs of names. The parser reads what was written, before and after `mx fmt`; `mx fmt` keeps every token and comment and settles at once; what `mx check` accepts at each statement does not miss a name. |
| `storage` | Stores, migrations, SQL helpers on two databases, and packages each on its own: files stay legible or the reason is known, stores are atomic where they have a lock and one process, migrations run in order and once, helpers refine the table, an install that ends well has every dependency at its locked commit. |
| `pkg_install` | **Violated**: `mx pkg install` clones into a checkout that is there at another commit, and fails. |
| `services` | Eleven parts, one per behaviour: goroutine patterns hold for documented programs and for what goes astray, and documented ones end; buckets and series match their history; calls answer in order, with bounded tries; credentials hold as long as they say; schedules fire on time; watchers follow the last save with one child, unless it cannot be started; verdicts and totals are sound; arrays, templates and validation agree with their references. |

## 4. Bounds

- *Jobs*: two workers suffice for every race on a row, since a claim involves one
  competitor; two processes put them behind different mutexes, one process behind
  the same. Two jobs let a worker be refused on one while the other is open. Two
  attempts give a retry and a last failure. `TicksPerSecond = 2` has an instant on
  the second and one off it, which is all the text comparison distinguishes here:
  fractions of more digits, whose trailing zeros are dropped too, would again differ
  only within the second. The clock keeps `due` above `-TicksPerSecond`, below which
  `Ready` no longer changes. `MaxCrashes` and `MaxFaults` bound the faults. The runs
  that check liveness have one job, so that a counterexample cannot hide behind
  the other.
- *Web*: three routes are the least with which backtracking goes through two
  abandoned branches; two requests suffice for any race on a slot. `Urls` has paths
  that fail on the second and on the third segment.
- *Live*: nine casts in which clients read, each with the participants of one kind of encounter (two chatting
  clients; fragments with pings between; a close from elsewhere; a ticker and its stop;
  two stops; both timers; a signal with a client and with a ticker). A client sends
  three frames at most, which is a message of two fragments with a control frame
  between them; a ticker ticks twice, so that a tick can be waiting while the function
  runs. Eight more have a client that stops reading after none to three writes: before a
  frame, between its header and its payload, and after one, with a handler, a ticker, a
  timer that closes the connection, or the end of the server held up by it.
- *Goroutines*: three goroutines on two channels of capacity 0, 1 and 2, three sends
  at most, so that a buffer fills, drains and is closed while full. Besides the
  documented patterns there are programs that go astray: a `done` too many, an `add`
  inside the goroutine, a second fork on one wait group, increments without a lock.
- *Evaluator*: loops of at most three iterations, nested once. A run of the VM is
  cut after `2^LogMaxInstructions` instructions, and such a run counts as a panic,
  which no property allows in one engine only; no program of the runs gets there.
- *Toolchain*: expressions of depth two over every constructor have every pair of
  neighbouring precedences on both sides; statements nest once in every block. Numbers
  are below `MaxLiteral`.
- *Storage*: two threads of one process or of two, two calls each, one crash or full
  disk; keys and values are symmetric, for no property tells them apart. Four releases
  (a list, a longer one, an edited one, one that fails in its last text) and three
  starts. Tables of two rows and two columns. Three repositories, two of which share a
  directory, two commits each, three commands.
- *Services*: two windows of a bucket (`MaxTime`), four calls, three records; three
  entries under a limit of two; a clock of five ticks with lives of at most three; cron
  days of two hours of two minutes, on real dates from 2023, with the search of 4 x 365
  days that the code has, started on the eve of a leap day; two saves of three kinds of
  program; two test files of three tests; arrays of up to three elements; templates of three
  tags and longer ones around an `if` in an `each`; a schema of depth three.

## 5. Fairness

- `Jobs!FairSpec`: every worker goroutine and every caller of `stop()` that has begun
  keeps running (the Go scheduler), the clock advances, handlers return (the code
  gives them no timeout: a handler that hangs keeps its job), and a process that died
  is started again. Enqueueing, closing, crashing and faults are not fair: nothing
  forces them. Strong fairness is not assumed for the refused claims; retries
  converge because the poll interval lets a competitor finish.
- `Web!FairSpec`: loading goes on, and every request goroutine runs, its middlewares
  and plain bodies being taken to end. The body of a stream is excluded: nothing
  ends it. Requests are not forced to arrive.
- `Live!Fairness`: goroutines are scheduled, time passes (ticks and the ten seconds of
  the shutdown), and a stop function that was called goes on. Nobody has to connect,
  to send, to answer, to read or to signal. A peer that is there and does not read
  holds up whoever writes to it, for ever: `Ends` asks of a timer or a handler that it
  comes to its end only where it is not held up so (`Stuck`), and of the server that it
  exits even then. The `select` between tick and stop is weakly fair as
  one action: it may choose the tick whenever there is one, and `Ends` relies on the
  bound of a cast's ticks, which stands for Go's uniform choice: a goroutine that keeps
  coming back to the `select` takes the closed channel in the end.
- `MCServices!ServicesSpec`: every step of a goroutine and every rendezvous; the
  watcher's steps, and those of a child that can end. A child that serves or hangs is
  ended by nobody but the watcher.
- The engines, the toolchain and the storage are checked for safety only.

## 6. Proofs

Each theorem below holds for every value of the constants that meets the named
assumption of its module. TLC evaluates every one of these assumptions on the instances
of the runs. They say what kind of thing the constants are, and where they say more, why
is told below.

### Job queue

`JobsProofs` proves, for any number of processes, workers, queues, jobs, attempts,
crashes and faults, from `JobsAssumption` alone:

- `TypeCorrect`, `JobsExclusion` (`SingleRunner`), `HolderAgrees` (`HolderOwnsRow`),
  `AttemptsExhausted` (`FailsOnLastAttempt`): `Spec => []...`;
- `JobsRefinement`: `Spec => Promise!Spec`, that is, `KeepsPromise`.

`SingleRunner` alone is not inductive: it says nothing of a worker between its SELECT
and its COMMIT, which may be about to take a row that someone else holds. `IInv` adds
`InClaim`: a transaction whose snapshot is current (`~stale[w]`), or which has the
write lock, still sees its row `pending` with the attempts it read, and owns its
handle's connection; `WriterCommits`: only a transaction past its UPDATE holds the
write lock, so that no other commit can come between; `HoldsARow`: a held job is a row
of the table, tried at least once; `FreshIds`: ids not yet given are absent and
untried. The step lemmas go action by action: a commit of another worker or an
autocommit statement marks every open snapshot stale (`Commits`), which discharges
`InClaim` for the others; a claim's own commit moves the row from `pending`, which no
holder's row is, so no second holder arises; the write lock is free whenever a
single statement runs (`Writable`), so that no worker is past its UPDATE then.
`FailsOnLastAttempt` needs `HolderOwnsRow`: the decision in `jobsMarkFailed` is taken
on the worker's copy of the attempts. For the refinement, `HolderFacts` shows that
`HolderOf`, a CHOOSE, is the one holder; a commit is a `Claim`, a recorded outcome a
`Report`, a discarded one, a crash an `Abandon`, all else stutters.

On `IInv` build:

- `StopReturnsDrained` (`StopDrains`): inductive as it stands, because a worker that
  has exited moves again only after its process has died, and its callers with it;
- `OrphansAreFaults` (`OrphansNeedAFault`): the commit of a claim puts the row in the
  hands of its worker, and a worker lets go of a row it has not settled only in
  `MarkClosed` or `MarkFault`;
- `StartsWithinTheSecond` (`EarlyByLessThanASecond`): needs `ClaimIsDue`, which carries
  the comparison made by the SELECT to the COMMIT: a transaction whose snapshot is
  current has a row that is due within the second, since a statement that moves
  `run_at` outdates every open snapshot. `ReadyIsDue` is the arithmetic of the textual
  comparison, for the resolutions of `JobsAssumption`.

### Routes

`WebProofs` proves the four invariants of the routes for any programs, any number of
requests, any paths and methods: `ServedAsScanned` (`ServesThePreferred`),
`ParamsAsDeclared` (`ParamsWhenNamesAgree`), `BodiesGuarded` (`GuardedBody`) and
`GroupsStayClosed` (`GroupsDoNotLeak`). `WebAssumption` asks that programs be sequences
of statements whose groups are not closed before they are opened, which is what the
parser's braces give, and that the paths of requests be among those that are compared.

The lookup is not about steps but about data, and the induction theorems of the library
cannot be used. In their place, `Climb`: what holds at 0 and passes from each number to
the next holds up to n, by the least number of a set where it fails. With it:

- `BuildTrieHolds`: a trie has the prefixes of its routes' shapes for nodes, and keeps
  for a shape and a method the last such route (induction on the routes, `HoldsMore`);
- `BelowExists`, `MatchSegsIs`: the recursive function of `MatchSegs` exists, by adding
  one depth after the other from the end of the path, and each node's value is `Answer`
  of the values below it;
- `FoundRight`: at a node of any depth, the answer is the preferred one among the routes
  that begin with the node and match the path (`Right`). At the end of the path the
  choice by method settles it (`PickRight`); before it, a route goes on by the literal or
  by the placeholder (`SuitsSplit`), and the literal is preferred wherever the two first
  differ (`LiteralFirst`), so that a failure of the literal branch leaves exactly the
  placeholder's routes (`StepRight`);
- `FoundWrites`: what is written to the map below a node are the names of the served
  route at the placeholders below it, each with its segment, and every other name written
  there was removed (`WritesRight`). This is where the agreement of names is needed: an
  abandoned branch removes a name, and only if no placeholder of the served route has that
  name does the removal do no harm (`NotBelow`).

The rest is an inductive invariant of the steps, `IInv`. While loading: the number of
open groups is the depth of the program so far (`Progress`); every open group has saved
the list as it still is, and the list has the names of the top-level `use`s passed, in
order (`Global`); so that leaving a group changes nothing. Afterwards: nothing is loaded
any more once a request has come, the trie is that of `routes`, and a request has passed
exactly the guards before the one it is at (`Guarded`), none of which can be overwritten
when the slice has no spare capacity, for then `Fits` is false for every list of
middlewares.

### Goroutines

`PatternsAlwaysHold` (`PatternsHold`), from `GoroutinesAssumption`: goroutines are
finitely many and a program spawns each at most once, because a goroutine of the model is
one `spawn` that runs. Each part has its inductive form. For the drained loop, `Conserved`
(what a channel accepted is what its only receiver has, followed by what is buffered) and
`LoopsDrained`, for all loops that have been passed and not only those just ended. For
`wait()`, `Counted`: the counter is the number of `add`s passed less the number of
goroutines that are done; and `Born`, that a goroutine which runs was spawned. That nobody
panics (`NoPanics`) is in `Unbroken`: in a fork whose top level adds
before it spawns, every `done` was announced by an `add` (`AnnouncedBefore`), which keeps
the counter from going below zero (`NoCountPanics`); and only the top level waits, so that
nobody adds between its waking and its second look (`Quiet`). For the
channel used as a lock, `LockHeld`: one goroutine at a time is between its send and its
receive, the channel is full while it is, and the value it computes from is that of the
variable.

### Frames

`FramesAlwaysWhole` (`FramesWhole`), from `LiveAssumption` (disjoint names; timers run
the steps a timer's function can have). `Framed` ties three things for a connection that
is open: a wire that ends in a header, the holder of `writeMu`, and the payload of that
header as the holder's next step. `InWriting` says that nothing comes between in a
goroutine's list of steps, so that the answers a reader puts in front of its list come
before a frame and not into it. `ClosesOnce` counts close frames over all lists and the
wire together: there is none while `closed` is false, and the test-and-set of `WriteClose`
is one step under its lock.

`AlwaysDelivered` (`Delivered`) rests on a second invariant, `DInv`, of four parts:

- `Queues`: in each goroutine's list of steps a message is brought to its subscribers
  before the next is published (`InLine`); what is published is new, and what is brought
  was published, for that subscriber (`Known`);
- `Wires`: a publisher's messages have arrived in order (`Came`), and what it still has to
  bring to a connection follows all that has arrived there from it (`Later`). A message
  arrives only once because it would have to follow itself;
- `Reaches`: a message is at each of its subscribers, or on the way there, or the
  connection has ended. A goroutine that dies under way would break it: none does, because
  a failed write is dropped by `publish`;
- `Sources`: why what is published is new. A reader has counted the frames it has read and
  keeps the fragments of one message (`Counted`), a timer has published what its function
  does at the ticks that have passed (`Told`).

`LiveAssumption` says with `Numbered` that the messages of a timer's function are
numbered as they come. The numbers stand for the identity of messages: the code looks at
none, and without them two equal payloads could not be told apart.

### Stores, migrations, packages

`FileStoreProofs`, from `StoreAssumption` (each thread has a process; the marks for no
value and no answer are not values):

- `AlwaysLegible` (`Legible`), by `SavesAlone`: at most one thread is between its first
  write and its rename, what it is to rename is whole, and the file in place is whole
  unless a vault is being rewritten;
- `Refinement` (`StoreIsAtomic`): needs `LoadedIsStored` besides, that what a thread has
  loaded is still what is stored, which is the lock's work. The rename is the abstract
  `Apply`; for a vault, the write in place is; a full disk and a crash before it map to
  `Fail` or to stuttering.

`MigrationsProofs`: `AlwaysMigrated` (`Migrated`). `Migrated` speaks of the database; the
invariant follows the servers under way. `WellRun` holds of the database and of every
transaction's view of it; `Reached` says how far a server is with the list it read;
`Orderly` gives, as long as no server stopped between two statements and no two met, that
what is executed and not recorded is what the one server is about to record.

`PackagesProofs`: `LockAlwaysHolds` (`LockHolds`), from an order of the repositories.
`Installed` is what makes it inductive: a repository that a running install has gone over
is checked out at its locked commit. It is kept even where two share a directory, because
an install clones only where nothing is and fails rather than move a checkout. An install that is cut off after the clone leaves a checkout
that may be at another commit; no lock says otherwise, because the install has not ended
well. `Owned`
carries the second half: manifests, the copies in memory and the checkouts have commits
of the dependency's own repository, unless another shares its directory.

### Services

`ServicesProofs` proves the safety of six modules that share nothing:

- `BooksAgree` (`BooksMatchHistory`), from `LimitsAssumption` (rates are whole numbers of
  parts of a token; the bounds of a histogram are sorted). For buckets, `Level`: the tokens
  left are the least of what the history leaves over all stretches of time that end now; no
  stretch is overdrawn (`Left`), and one that begins with a granted call is used up exactly.
  A refill that is capped begins a new such stretch. For metrics, `RegistryHolds`: a name
  has one metric, a fingerprint one series, and a series shows its own records; the sums are
  a recursive function, and `SumExists` shows that it exists;
- `OneChildLives`: every child but the last has ended, and so has the last whenever the
  next is launched; the port is held by a last child that serves (`WatchInv`). This is
  the half of the watcher's behaviour that is not liveness;
- `TestsSound` (`TestsAreSound`), from `TestAssumption`. `TestInv` has the queue of a file,
  which holds each selected test once and no reported one (`QueueHolds`); the verdicts,
  which may differ from the test's own only after a registry of the process was used
  (`VerdictsHold`); the tallies; and the covered lines, which are those of this file's
  reports, and line 0 of the program once an interpreter is loaded;
- `CallsAnswered`, from `CallsAssumption`: `InOrder`, `InFlight` and `Retried` are
  invariant. `CallInv` follows each entry (`EntryHolds`: an entry has nothing in the log
  until it is heard, then one answer, which is what is written in its place) and each retry
  loop (`LoopHolds`: nothing good was heard before, and there are attempts left while it
  asks). `NoStall`, the fourth part of `CallsAnswer`, speaks of `ENABLED`: it is a
  hypothesis of the second half of the theorem, and TLC checks it;
- `CronFires` (`CronOnTime`), from `CronAssumption`: `CronInv` says of a goroutine that
  sleeps that the minute it waits for matches and that none before it does. The calendar is
  computed from lengths of months, and the lemmas show that the sets of `ParseCron` name the
  minutes that the text of the rule names, for any items;
- `CredentialsAreGood` (`CredentialsHold`), from `TokensAssumption` (no payload or secret is
  mistaken for a separator). What is issued is a term made of its payload, secret and time
  (`GoodCredential`), and checking one undoes that term, kind by kind (`VouchedOne`);
  a cookie in the jar is the last session issued for its domain (`JarKept`).

### What stays with TLC

- Liveness and fairness, of every component.
- `Language`, `Bytecode`, `Evaluator`, `Lexer`, `Parser`, `Checker`, `Grammar`,
  `Toolchain`, `Templates` and `Validation`, with their invariants (`SameOutcome`,
  `CodeIsSound`, `ReadsAsWritten`, `AcceptedRuns`, `RendersAsRead`, `FaultsReported`):
  they are defined by recursion over trees and texts.
- `Collections!CollectionsAgree`, which compares recursions over arrays.
- `Calls!NoStall`, which speaks of `ENABLED`.
- The refinement of `AtomicStore` by `SqlHelpers` (`HelpersKeepTables`): the helpers sort,
  filter and flatten lists of rows and columns with `SortSeq`, `SelectSeq` and
  `FlattenSeq`, recursive operators of the libraries that the provers cannot unfold.

## 7. What the code does against its documents

Four disagreements have a run that shows them (details and quotations are in
`PROJECT.json`): a running job is lost when its process dies (`jobs.go:121`);
requests overwrite each other's middlewares in the spare capacity of `useGlobal`
(`interpreter.go:2661`); a statement tried on the VM drops its `return` (`vm.go:820`);
`mx pkg install` cannot move a checkout (`pkg.go:292`).

Others were met while the code was modelled. The models behave as the code does, and
the properties state the conditions under which it is right.

*Web and language.* Nested groups do not inherit middlewares (`interpreter.go:1467`
against `CHANGELOG.md:4250`). A placeholder has the name of the first route at its
position (`route_trie.go:48` against `docs/syntax.md:182`). `log: true` and compression
hide the Flusher and the Hijacker that `sse` and `ws` routes need
(`interpreter.go:2540`): event streams get 500, sockets 400. `try` catches `break` and
`continue` (`interpreter.go:1642` against `docs/syntax.md:133`). An object spread
that is compiled becomes an entry with an empty name (`vm.go:241` against
`parser.go:1210`). A send on a closed channel is said to be converted to an error
(`builtins.go:4882`): it returns null and no error, and the value is gone. A `done()` too
many leaves the counter of the wait group negative after the goroutine has recovered, and
a later `wait()` never returns (`builtins.go:4922`). A frame is written without a deadline
and under `writeMu` (`websocket.go:256`): a subscriber that stays connected and stops
reading holds up its publishers, handlers and timers, and `WriteClose` waits for the same
lock, so that nothing in the program can drop it.

*Jobs.* The second of two concurrent calls of a stop function panics
(`jobs.go:298`); called by a handler, that ends the process.

*Text to tree and back.* A line comment just after the brace of a block takes in the
next line when formatted (`formatter.go:17` says comments are preserved in place); a
string that contains an escaped `${` is re-quoted as an interpolation; `get / 2` is
formatted as a path. `get /api/* {` opens a block comment, although
`interpreter/proxy.go:6` and `CHANGELOG.md:1346` show it. `return try {...} catch {...}`
is a bare `return` followed by a statement; `spawn`, `group` and `static` do not end a
bare `return` (`parser.go:671`). `if (a) == b {` is a syntax error, and so is a keyword
as a path segment. `checker.go:122` says that functions are hoisted at run time: nothing
hoists them; `AcceptedRuns` therefore asks that each prefix of a program be accepted.

*Storage.* All processes share `path.tmp`, while `builtins.go:3190` says that files are
written atomically; the vault is rewritten in place and an emptied one is unreadable.
The handle of `sql.transaction` has no database and no driver: a nested transaction
panics, an upsert inside a MySQL transaction is written for the others
(`sql_insert.go:129`), and a panic in the function never rolls back. An upsert of keys
only has no conflict clause on MySQL; `insert({})` panics in `strings.Repeat`;
`where {x: null}` matches nothing; an offset without a limit is a syntax error.
`mx pkg update` saves the manifest at its end only; an install that is stopped between
clone and reset leaves a checkout that no later install moves; repositories of two hosts
may share a directory.

*Services.* A bucket lets up to twice its capacity through in a rolling window, and the
same maximum with another window keeps the old rate (`rate_limit.go:81`); label sets
that are written alike share a series. `retry(fn, 0)` returns null without a call;
`fetch_retry` with a delay of 0 panics in `rand.Int63n`. A rule for the leap day fires
once: the search ends one day short (`cron.go:152`); `n/step` is `n`; 7 is no Sunday.
`max_age` of a session is not checked by the server; `session.clear` sends no domain;
the `stripe` kind takes the last `v1` only and no tolerance; the timestamp of a Svix
signature is signed and not checked. A stopped timer may run once more. The first
poll of a watcher always restarts; a hung test holds `mx test --watch` (`main.go:1382`
says it does not); a child that could not be started is not tried again before the next
save (`main.go:480`); only `.mx` files are hashed; a kill reaches the direct child only.
Registries of the process outlive a test (`main.go:1260`); of two test functions of one
name the last runs twice; `--json` without test files prints no summary.

*Values.* `range(5, 1)` panics; `pop` returns the last element and leaves it;
`group_by` and `count_by` conflate keys that are displayed alike. In templates `this`
and `@...` fall through to outer frames although a comment names the innermost.
`validate` documents `min` and `max` and reads `minimum` and `maximum`; a pattern that
does not compile passes; keywords for another type are ignored, so that a schema
without `type` accepts a body that is no object whatever it requires.

The passing properties about the same code state their conditions in their own
definitions: `GuardedBody` asks that the slice has no spare capacity,
`ParamsWhenNamesAgree` that names agree, `GroupsDoNotLeak` speaks of one group, `Ends` of what no unread peer holds up,
`NoPanics` and `WaitJoins` of forks whose top level adds before it spawns,
`FmtTrips` names the files the formatter loses, `Promised` and `Legible` the stores that
have their lock to themselves, `Migrated` the servers that neither stopped between two
statements nor met, `LastSaveRuns` the versions that hang under `mx test --watch`.

## 8. What is left out

- *Data races* in the sense of the Go memory model: `routeTrie`, `callStack` and the
  bytecode caches under concurrent requests (a hazard with a note: what a racing map
  access does is undefined and is no property of the program).
- *Web*: what the bodies compute, the choice of the static file, ServeMux's cleaning
  of paths, `use` executed at run time in a body, the wording of responses. Any
  middleware may accept, answer or fail.
- *Language*: the evaluation of spreads, destructuring and imports, bench blocks,
  characters and length of strings, fractions, call stacks and the text of errors. Programs compared on
  both engines bind each name once in a function and keep the kinds that an operator
  needs: the VM's operators return 0 where the walker raises an error on a mismatch, and
  its blocks have no scopes of their own.
- *Toolchain*: lines and columns, the wording of diagnostics, the table of the builtins'
  arities, type annotations beyond their syntax.
- *Live*: binary frames, lengths and masks, `ws.connect`, `debounce`, TLS and listeners.
- *Jobs*: `stats` (a read), payloads and their encoding, ids other than the next one;
  a second `process()` on one handle. A `max_attempts` below 1, which the code takes as it
  is (`jobs.go:49`), fails a job after its first try as 1 does, and is not an instance.
- *Storage*: encryption of the vault, and its answers to an absent key (a get is an error,
  a delete gives null; `vault.go:138`); `sql.exec` and `sql.query` (which hand on a text);
  a migration's text is one statement that happens or does not, though a text of several
  may run in part, MySQL commits around a definition, and an error of the cursor over
  `mx_migrations` is not looked at (`sql.go:269`); full-text search, the parsing of
  manifests.
- *Services*: the primitives of cryptography (a term can be checked only with the secret
  it was made with), a JWT without `exp`, which never expires, and a drift of TOTP below
  zero; the text of metrics; limits of nothing (`rate_limit.go:58`) and a reset of all
  buckets at once; the network below a request, and a `fetch_all` of more entries than its
  default limit; `exit` and panics in the body of a test, the case of letters in a filter;
  `mx bench`; the cutting of a template into tokens, its truth of booleans and numbers,
  `@index`; regular expressions. The hexadecimal digits of the lexer are the lower-case
  ones.
- SQLite, MySQL, git, net/http, the file system and the Go runtime are external and
  modelled from their use.
- The components marked `not_modelled` in `PROJECT.json`, with the reason there: pure
  functions, texts, tables, and one-shot calls to the outside.

## 9. Plan

Every safety property that is not defined by recursion is a theorem. What could come next, in
order of importance:

1. `SqlHelpers` implements `AtomicStore`, with the lists of columns written as sets and the
   order of rows as a relation, so that no recursive operator remains.
2. The component that is least modelled for its size is the tree-walking evaluator:
   destructuring, imports and the scopes of the VM's blocks would extend `SameOutcome` to
   more programs.
3. `Live`: `ws.connect` and `debounce`, which follow the patterns of the reader and of the
   timers.
