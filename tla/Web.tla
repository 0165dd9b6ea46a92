--------------------------------- MODULE Web ---------------------------------
(***************************************************************************)
(* Routes, groups and middlewares of an MX program, from the statements    *)
(* that declare them to the answers of the requests they serve: execGroup, *)
(* registerRoute, execServer, the handler chain of Handler, dispatch,      *)
(* runRoute, runSSE and runWS of src/interpreter/interpreter.go.           *)
(*                                                                         *)
(* A program is a sequence of the statements that matter to routing.  A    *)
(* group's body is written between an OpenGroup and an EndGroup.  The      *)
(* program is loaded statement by statement; then the server answers       *)
(* requests, each on a goroutine of its own.                               *)
(*                                                                         *)
(* useGlobal is a Go slice: its elements, its capacity useCap, and the     *)
(* spare part of its backing array, `spare', which every append that fits  *)
(* writes to in place.                                                     *)
(***************************************************************************)
EXTENDS RouteTrie, FiniteSets

CONSTANTS Programs,    \* the programs considered
          Middlewares, \* the names a program may use
          Requests,    \* request goroutines
          Methods,     \* the HTTP methods of requests
          Paths,       \* the paths of requests
          Urls         \* the paths for which lookups are compared

VARIABLES program,   \* the program being run
          next,      \* index of the next statement to load
          groups,    \* the open groups, the innermost last
          server,    \* the switches of the server block
          useGlobal, \* elements of the global middleware slice
          useCap,    \* its capacity
          spare,     \* its backing array beyond Len(useGlobal)
          declared,  \* the names in i.middlewares
          routes,    \* i.routes
          trie,      \* i.routeTrie, NoTrie until a request needs it
          request    \* request[r]: progress of the request on goroutine r

loadVars == <<program, next, groups, server, useGlobal, useCap, declared, routes>>
vars == <<program, next, groups, server, useGlobal, useCap, spare, declared, routes, trie, request>>

NoTrie == [nodes |-> {}]

-----------------------------------------------------------------------------
(* Programs. *)

Middleware(name)           == [op |-> "middleware", name |-> name]
Use(name)                  == [op |-> "use", name |-> name]
Route(method, parts, uses) == [op |-> "route", method |-> method, parts |-> parts, uses |-> uses]
OpenGroup(parts)           == [op |-> "group", parts |-> parts]
EndGroup                   == [op |-> "end"]
Server(settings)           == [op |-> "server", settings |-> settings]

Switches == {"log", "compression", "cors", "rate_limit"}

Statements ==
    [op : {"middleware", "use"}, name : Middlewares]
    \cup [op : {"route"}, method : STRING, parts : Seq(Segments), uses : Seq(Middlewares)]
    \cup [op : {"group"}, parts : Seq(Segments)]
    \cup [op : {"end"}]
    \cup [op : {"server"}, settings : UNION { [on -> BOOLEAN] : on \in SUBSET Switches }]

\* The groups that are open after the first k statements.
Count(stmts, op, k) == Cardinality({ j \in 1 .. k : stmts[j].op = op })
Depth(stmts, k) == Count(stmts, "group", k) - Count(stmts, "end", k)

\* The parser pairs the braces of groups.
ASSUME WebAssumption ==
    /\ Methods # {} /\ Paths # {} /\ Paths \subseteq Urls /\ Urls \subseteq Seq(STRING)
    /\ \A p \in Programs :
          /\ p \in Seq(Statements)
          /\ \A k \in 1 .. Len(p) : Count(p, "end", k) <= Count(p, "group", k)

Idle == [pc |-> "idle"]

Init ==
    /\ program \in Programs
    /\ next = 1
    /\ groups = <<>>
    /\ server = [switch \in Switches |-> FALSE]
    /\ useGlobal = <<>>
    /\ useCap = 0
    /\ spare = <<>>
    /\ declared = {}
    /\ routes = <<>>
    /\ trie = NoTrie
    /\ request = [r \in Requests |-> Idle]

-----------------------------------------------------------------------------
(* Loading the program. *)

Loading == next <= Len(program)
Serving == ~Loading

Statement(op) == Loading /\ program[next].op = op

\* Go's growth of a full slice of strings: to one element, then by doubling.
Grown(cap) == IF cap = 0 THEN 1 ELSE 2 * cap

Declare ==
    /\ Statement("middleware")
    /\ declared' = declared \cup {program[next].name}
    /\ next' = next + 1
    /\ UNCHANGED <<program, groups, server, useGlobal, useCap, spare, routes, trie, request>>

\* A server block sets the switches it names; later blocks override earlier ones.
Configure ==
    /\ Statement("server")
    /\ server' = program[next].settings @@ server
    /\ next' = next + 1
    /\ UNCHANGED <<program, groups, useGlobal, useCap, spare, declared, routes, trie, request>>

\* `use' at the top level.
UseGlobally ==
    /\ Statement("use")
    /\ groups = <<>>
    /\ useGlobal' = Append(useGlobal, program[next].name)
    /\ useCap' = IF Len(useGlobal) < useCap THEN useCap ELSE Grown(useCap)
    /\ next' = next + 1
    /\ UNCHANGED <<program, groups, server, spare, declared, routes, trie, request>>

\* `use' directly inside a group.
UseLocally ==
    /\ Statement("use")
    /\ groups # <<>>
    /\ groups' = [groups EXCEPT ![Len(groups)].localUse = Append(@, program[next].name)]
    /\ next' = next + 1
    /\ UNCHANGED <<program, server, useGlobal, useCap, spare, declared, routes, trie, request>>

\* The group's joined path and a copy of the global middlewares to restore.
EnterGroup ==
    /\ Statement("group")
    /\ LET outer == IF groups = <<>> THEN <<>> ELSE Last(groups).prefix
       IN  groups' = Append(groups, [ prefix   |-> outer \o program[next].parts,
                                      localUse |-> <<>>,
                                      saved    |-> useGlobal ])
    /\ next' = next + 1
    /\ UNCHANGED <<program, server, useGlobal, useCap, spare, declared, routes, trie, request>>

\* Mutant: the group's middlewares stay global.
LeaveGroupLeaking ==
    /\ Statement("end")
    /\ useGlobal' = Last(groups).saved \o Last(groups).localUse
    /\ useCap' = Len(useGlobal')
    /\ groups' = Front(groups)
    /\ next' = next + 1
    /\ UNCHANGED <<program, server, spare, declared, routes, trie, request>>

\* The deferred restore: the copy's capacity is its length.
LeaveGroup ==
    /\ Statement("end")
    /\ useGlobal' = Last(groups).saved
    /\ useCap' = Len(Last(groups).saved)
    /\ groups' = Front(groups)
    /\ next' = next + 1
    /\ UNCHANGED <<program, server, spare, declared, routes, trie, request>>

\* The middlewares that the code attaches: those of the innermost group, then
\* those of the route's body.
Attached(stmt) ==
    (IF groups = <<>> THEN <<>> ELSE Last(groups).localUse) \o stmt.uses

Prefix == IF groups = <<>> THEN <<>> ELSE Last(groups).prefix

\* inScope is a history field: every `use' of the groups around the route.
Register ==
    /\ Statement("route")
    /\ LET stmt == program[next]
       IN  routes' = Append(routes,
               [ method      |-> stmt.method,
                 parts       |-> Prefix \o stmt.parts,
                 middlewares |-> Attached(stmt),
                 inScope     |-> FlattenSeq([g \in 1 .. Len(groups) |-> groups[g].localUse])
                                 \o stmt.uses,
                 depth       |-> Len(groups) ])
    /\ next' = next + 1
    /\ UNCHANGED <<program, groups, server, useGlobal, useCap, spare, declared, trie, request>>

-----------------------------------------------------------------------------
(* Serving requests. *)

Streams == {"SSE", "WS"}

RouteOf(r) == routes[request[r].route]

OwnList(mws) == [shared |-> FALSE, own |-> mws]

Moves(r, from, to) ==
    /\ request[r].pc = from
    /\ request' = [request EXCEPT ![r] = to]
    /\ UNCHANGED loadVars

Answered(r, status) == [request[r] EXCEPT !.pc = "answered", !.status = status]

\* gzip: the client accepts it and the server compresses.
Arrive(r) ==
    /\ Serving
    /\ \E method \in Methods, path \in Paths,
          gzip \in IF server["compression"] THEN BOOLEAN ELSE {FALSE} :
         Moves(r, "idle", [ pc |-> "handler", method |-> method, path |-> path, gzip |-> gzip,
                            route |-> None, params |-> <<>>, list |-> OwnList(<<>>), k |-> 1,
                            passed |-> <<>>, status |-> 0 ])
    /\ UNCHANGED <<spare, trie>>

\* CORS comes first and answers every OPTIONS request.
Preflight(r) == server["cors"] /\ request[r].method = "OPTIONS"

InChain(r) == request[r].pc = "handler"

AnswerPreflight(r) ==
    /\ InChain(r)
    /\ Preflight(r)
    /\ Moves(r, "handler", Answered(r, 204))
    /\ UNCHANGED <<spare, trie>>

\* The client's bucket is empty.
LimitRate(r) ==
    /\ InChain(r)
    /\ ~Preflight(r)
    /\ server["rate_limit"]
    /\ Moves(r, "handler", Answered(r, 429))
    /\ UNCHANGED <<spare, trie>>

\* The announced body is larger than max_body, 10 MiB by default.
LimitBody(r) ==
    /\ InChain(r)
    /\ ~Preflight(r)
    /\ Moves(r, "handler", Answered(r, 413))
    /\ UNCHANGED <<spare, trie>>

PassOn(r) ==
    /\ InChain(r)
    /\ ~Preflight(r)
    /\ Moves(r, "handler", [request[r] EXCEPT !.pc = "dispatch"])
    /\ UNCHANGED <<spare, trie>>

\* statusRecorder and gzipWriter embed an http.ResponseWriter, which hides the
\* Flusher and the Hijacker of the writer they wrap.
Wrapped(r) == server["log"] \/ request[r].gzip

\* The first dispatch builds i.routeTrie; i.routes is complete by then.
Build(r) ==
    /\ request[r].pc = "dispatch"
    /\ trie = NoTrie
    /\ trie' = BuildTrie(routes)
    /\ UNCHANGED <<program, next, groups, server, useGlobal, useCap, spare, declared, routes, request>>

Lookup(r) == Match(trie, request[r].path, request[r].method)

\* runSSE needs a Flusher, and upgradeWebSocket a Hijacker and a well-formed
\* handshake; the body of a stream runs at once, without middlewares.
StartSSE(r, at) ==
    IF Wrapped(r) THEN Moves(r, "dispatch", [at EXCEPT !.pc = "answered", !.status = 500])
                  ELSE Moves(r, "dispatch", [at EXCEPT !.pc = "body", !.status = 200])

StartWS(r, at) ==
    \/ Moves(r, "dispatch", [at EXCEPT !.pc = "answered", !.status = 400])
    \/ ~Wrapped(r) /\ Moves(r, "dispatch", [at EXCEPT !.pc = "body", !.status = 101])

\* No route: a static file, a refused path, or not found.
Static(r) ==
    \E status \in IF request[r].method \in {"GET", "HEAD"} THEN {200, 403, 404} ELSE {404} :
        Moves(r, "dispatch", Answered(r, status))

Dispatch(r) ==
    /\ request[r].pc = "dispatch"
    /\ trie # NoTrie
    /\ LET found  == Lookup(r)
           method == routes[found.route].method
           at     == [request[r] EXCEPT !.route = found.route, !.params = found.params]
       IN  CASE found.route = None -> Static(r)
             [] found.route # None /\ method = "SSE" -> StartSSE(r, at)
             [] found.route # None /\ method = "WS" -> StartWS(r, at)
             [] OTHER -> Moves(r, "dispatch", [at EXCEPT !.pc = "route"])
    /\ UNCHANGED <<spare, trie>>

\* append(i.useGlobal, route.Middlewares...): in place when it fits the capacity.
Fits(mws) == mws # <<>> /\ Len(useGlobal) + Len(mws) <= useCap

StartRoute(r) ==
    LET mws == RouteOf(r).middlewares
    IN  /\ request[r].pc = "route"
        /\ Moves(r, "route", [request[r] EXCEPT
                 !.pc = "middleware",
                 !.list = [shared |-> Fits(mws), own |-> mws]])
        /\ spare' = IF Fits(mws) THEN mws \o SubSeq(spare, Len(mws) + 1, Len(spare)) ELSE spare
        /\ UNCHANGED trie

\* The list ranged over, as it stands now.
MiddlewareList(r) ==
    LET list == request[r].list
    IN  useGlobal \o IF list.shared THEN SubSeq(spare, 1, Len(list.own)) ELSE list.own

AtMiddleware(r) ==
    /\ request[r].pc = "middleware"
    /\ request[r].k <= Len(MiddlewareList(r))

Current(r) == MiddlewareList(r)[request[r].k]

\* Its body ran to the end, or returned null.
MiddlewareAccepts(r) ==
    /\ AtMiddleware(r)
    /\ Current(r) \in declared
    /\ Moves(r, "middleware", [request[r] EXCEPT !.k = @ + 1, !.passed = Append(@, Current(r))])
    /\ UNCHANGED <<spare, trie>>

\* Mutant: an unknown middleware is waited for.
MiddlewareUnknownWaits(r) ==
    /\ AtMiddleware(r)
    /\ Current(r) \notin declared
    /\ Moves(r, "middleware", request[r])
    /\ UNCHANGED <<spare, trie>>

MiddlewareUnknown(r) ==
    /\ AtMiddleware(r)
    /\ Current(r) \notin declared
    /\ Moves(r, "middleware", Answered(r, 500))
    /\ UNCHANGED <<spare, trie>>

\* It returned a value, which is the response (401), or failed.
MiddlewareStops(r) ==
    /\ AtMiddleware(r)
    /\ Current(r) \in declared
    /\ \E status \in {401, 500} : Moves(r, "middleware", Answered(r, status))
    /\ UNCHANGED <<spare, trie>>

\* Mutant: the last middleware is not awaited.
RunBodyEarly(r) ==
    /\ request[r].pc = "middleware"
    /\ request[r].k >= Len(MiddlewareList(r))
    /\ Moves(r, "middleware", [request[r] EXCEPT !.pc = "body"])
    /\ UNCHANGED <<spare, trie>>

RunBody(r) ==
    /\ request[r].pc = "middleware"
    /\ request[r].k > Len(MiddlewareList(r))
    /\ Moves(r, "middleware", [request[r] EXCEPT !.pc = "body"])
    /\ UNCHANGED <<spare, trie>>

\* The body returned, ended without a return, or failed.
Finish(r) ==
    /\ request[r].pc = "body"
    /\ \E status \in IF RouteOf(r).method \in Streams THEN {request[r].status}
                                                      ELSE {200, 204, 500} :
         Moves(r, "body", Answered(r, status))
    /\ UNCHANGED <<spare, trie>>

-----------------------------------------------------------------------------
Load == Declare \/ Configure \/ UseGlobally \/ UseLocally \/ EnterGroup \/ LeaveGroup \/ Register

Serve(r) ==
    \/ AnswerPreflight(r) \/ LimitRate(r) \/ LimitBody(r) \/ PassOn(r)
    \/ Build(r) \/ Dispatch(r) \/ StartRoute(r)
    \/ MiddlewareUnknown(r) \/ MiddlewareAccepts(r) \/ MiddlewareStops(r)
    \/ RunBody(r) \/ Finish(r)

Next == Load \/ \E r \in Requests : Arrive(r) \/ Serve(r)

Spec == Init /\ [][Next]_vars

Streaming(r) == request[r].pc = "body" /\ RouteOf(r).method \in Streams

\* net/http runs every request on a goroutine of its own, and the code of
\* middlewares and plain bodies is taken to end.  Nothing ends a stream.
FairSpec ==
    /\ Spec
    /\ WF_vars(Load)
    /\ \A r \in Requests : WF_vars(Serve(r) /\ ~Streaming(r))

-----------------------------------------------------------------------------
(* Properties. *)

InBody(r) == request[r].pc = "body" /\ RouteOf(r).method \notin Streams

\* The body of a route is reached only through all of its middlewares, the
\* global ones first and each exactly once, when useGlobal has no spare
\* capacity (runRoute).
GuardedBody ==
    useCap = Len(useGlobal) =>
        \A r \in Requests : InBody(r) => request[r].passed = useGlobal \o RouteOf(r).middlewares

\* Where a program has a `use' outside every group.
TopUses(stmts) == { k \in DOMAIN stmts : stmts[k].op = "use" /\ Depth(stmts, k) = 0 }

\* names are those of the statements at these places, in the order of the program.
NamesAt(names, stmts, places) ==
    \E at \in [DOMAIN names -> places] :
        /\ \A i, j \in DOMAIN names : i < j => at[i] < at[j]
        /\ \A k \in places : \E i \in DOMAIN names : at[i] = k
        /\ \A i \in DOMAIN names : names[i] = stmts[at[i]].name

\* A `use' inside a group guards the group's routes and no other: once loaded,
\* no group middleware has leaked into the global list, and a route declared
\* in at most one group has all the middlewares of its scope (execGroup).
GroupsDoNotLeak ==
    Serving =>
        /\ NamesAt(useGlobal, program, TopUses(program))
        /\ \A k \in 1 .. Len(routes) :
             routes[k].depth <= 1 => routes[k].middlewares = routes[k].inScope

\* interpreter.go:2660, "Run global middlewares, then route-level middlewares",
\* whatever the other requests do.
GlobalThenRoute ==
    \A r \in Requests : InBody(r) => request[r].passed = useGlobal \o RouteOf(r).middlewares

(* Lookups, compared with the linear scanner before the first request. *)

BeforeRequests == Serving /\ \A r \in Requests : request[r].pc = "idle"

Accepts(k, path, method) ==
    /\ MatchPath(routes[k].parts, path)
    /\ routes[k].method \in Range(Candidates(method))

Preferred(j, k, method) ==
    LET a == routes[j]
        b == routes[k]
        differ == { s \in 1 .. Len(a.parts) : Shape(a.parts)[s] # Shape(b.parts)[s] }
        rank(m) == CHOOSE n \in 1 .. 3 : Candidates(method)[n] = m
    IN  IF differ # {} THEN ~a.parts[Min(differ)].param
        ELSE IF a.method # b.method THEN rank(a.method) < rank(b.method)
        ELSE j > k

\* A lookup fails only when no declared route matches the path and the method
\* (backtracking out of a literal branch).  Among the routes that match, the one
\* with a literal at the first segment where they differ is served; of two of the
\* same shape the plain one before the stream, and then the one declared last.
ServesThePreferred ==
    BeforeRequests =>
      LET t == BuildTrie(routes)
      IN  \A path \in Urls, method \in Methods :
            LET k == Match(t, path, method).route
            IN  IF k = None THEN \A j \in 1 .. Len(routes) : ~Accepts(j, path, method)
                ELSE /\ Accepts(k, path, method)
                     /\ \A j \in 1 .. Len(routes) \ {k} : Accepts(j, path, method) => Preferred(k, j, method)

\* No two routes name the placeholder at the same place differently, and no
\* route uses a name twice.
NamesAgree ==
    \A j, k \in 1 .. Len(routes) :
        \A s \in 1 .. Len(routes[j].parts), t \in 1 .. Len(routes[k].parts) :
            LET a == routes[j].parts
                b == routes[k].parts
            IN  a[s].param /\ b[t].param =>
                   /\ s = t /\ SubSeq(Shape(a), 1, s) = SubSeq(Shape(b), 1, t) => a[s] = b[t]
                   /\ j = k /\ s # t => a[s] # b[t]

\* request.params holds the segments under the names the served route gives
\* them, and nothing of the branches the lookup gave up, as long as routes
\* agree on the names.
ParamsWhenNamesAgree ==
    BeforeRequests /\ NamesAgree =>
    LET t == BuildTrie(routes)
    IN  \A path \in Urls, method \in Methods :
          LET m == Match(t, path, method)
          IN  m.route # None => m.params = Captured(routes[m.route].parts, path)

\* Every request is answered, or becomes a stream.
RequestsAnswered ==
    \A r \in Requests :
        request[r].pc = "handler" ~> request[r].pc = "answered" \/ Streaming(r)
=============================================================================
