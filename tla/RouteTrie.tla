------------------------------ MODULE RouteTrie ------------------------------
(***************************************************************************)
(* The HTTP route lookup of src/interpreter/route_trie.go.                 *)
(*                                                                         *)
(* A route is a record with a method and parts, the segments of its path:  *)
(* a literal Lit("users") or a placeholder Param("id").  A request path is *)
(* a sequence of strings.                                                  *)
(*                                                                         *)
(* A trie node is named by the edges that lead to it: a sequence of        *)
(* literals and of the one unnamed placeholder edge Hole.  A trie is       *)
(*    nodes      the set of its nodes                                      *)
(*    paramName  the name kept at each node that has a Hole edge           *)
(*    terminal   the route kept for <<node, method>>, as an index          *)
(***************************************************************************)
EXTENDS Naturals, Sequences, SequencesExt

Lit(s)   == [param |-> FALSE, name |-> s]
Param(n) == [param |-> TRUE,  name |-> n]
Hole     == Param("")
Segments == [param : BOOLEAN, name : STRING]

Shape(parts) == [k \in 1 .. Len(parts) |-> IF parts[k].param THEN Hole ELSE parts[k]]

\* The map f where it is defined, g elsewhere; and an assignment to a map.
Over(f, g) == [x \in DOMAIN f \cup DOMAIN g |-> IF x \in DOMAIN f THEN f[x] ELSE g[x]]
With(map, key, value) == Over([x \in {key} |-> value], map)

NewTrie == [nodes |-> {<<>>}, paramName |-> <<>>, terminal |-> <<>>]

\* A name is kept at a node when its placeholder edge is created, never after.
KeptName(trie, node, name) ==
    IF Append(node, Hole) \in trie.nodes THEN trie.paramName[node] ELSE name

\* Walk down the route's parts, creating the nodes that are missing, and keep
\* the route at the last one.
Insert(trie, route, index) ==
    LET path  == Shape(route.parts)
        holes == { SubSeq(path, 1, k - 1) : k \in { j \in 1 .. Len(path) : path[j].param } }
    IN  [ nodes     |-> trie.nodes \cup Prefixes(path),
          paramName |-> Over([ node \in holes |->
                                  KeptName(trie, node, route.parts[Len(node) + 1].name) ],
                             trie.paramName),
          terminal  |-> With(trie.terminal, <<path, route.method>>, index) ]

BuildTrie(routes) ==
    LET built[k \in 0 .. Len(routes)] ==
          IF k = 0 THEN NewTrie ELSE Insert(built[k - 1], routes[k], k)
    IN  built[Len(routes)]

-----------------------------------------------------------------------------
(* Lookup. *)

None == 0

\* The methods a request may be answered with, the preferred one first.
Candidates(method) == IF method = "GET" THEN <<"GET", "SSE", "WS">> ELSE <<method>>

PickByMethod(trie, node, method) ==
    LET wanted == Candidates(method)
        kept   == { k \in 1 .. Len(wanted) : <<node, wanted[k]>> \in DOMAIN trie.terminal }
    IN  IF kept = {} THEN None ELSE trie.terminal[<<node, wanted[Min(kept)]>>]

\* Mutant: no backtracking out of a static child.
StaticDecidesAlways(isChild, viaStatic) == isChild

\* The static child's answer is final when it is a route.
StaticDecides(isChild, viaStatic) == isChild /\ viaStatic.route # None

(* Writes to the params map: for each name written, what the last write     *)
(* left, <<value>> or <<>> when it was a removal.                            *)

NoWrites == <<>>

\* Mutant: a placeholder that led nowhere stays in the map.
CaptureWritesKept(name, value, viaHole) == Over(viaHole.writes, With(NoWrites, name, <<value>>))

\* The writes of a placeholder: its capture, those below it, and the removal
\* of the capture when it led nowhere.
CaptureWrites(name, value, viaHole) ==
    IF viaHole.route = None THEN With(viaHole.writes, name, <<>>)
                            ELSE Over(viaHole.writes, With(NoWrites, name, <<value>>))

\* matchSegs at a node, once the request's first Len(node) segments are
\* consumed: the route found and the writes made on the way, given the
\* answers of the nodes below.
Answer(trie, segs, method, below, node) ==
    IF Len(node) = Len(segs)
      THEN [route |-> PickByMethod(trie, node, method), writes |-> NoWrites]
      ELSE LET head  == segs[Len(node) + 1]
               child == Append(node, Lit(head))
               hole  == Append(node, Hole)
               miss  == [route |-> None, writes |-> NoWrites]
               viaStatic == IF child \in trie.nodes THEN below[child] ELSE miss
               viaHole   == IF hole \in trie.nodes THEN below[hole] ELSE miss
           IN  IF StaticDecides(child \in trie.nodes, viaStatic) \/ hole \notin trie.nodes
                 THEN viaStatic
                 ELSE [ route  |-> viaHole.route,
                        writes |-> Over(CaptureWrites(trie.paramName[node], head, viaHole),
                                        viaStatic.writes) ]

MatchSegs(trie, segs, method) ==
    LET reached == { node \in trie.nodes : Len(node) <= Len(segs) }
        below[node \in reached] == Answer(trie, segs, method, below, node)
    IN  below[<<>>]

Match(trie, segs, method) ==
    LET m    == MatchSegs(trie, segs, method)
        kept == { n \in DOMAIN m.writes : m.writes[n] # <<>> }
    IN  [ route  |-> m.route,
          params |-> IF m.route = None THEN <<>> ELSE [n \in kept |-> m.writes[n][1]] ]

-----------------------------------------------------------------------------
(* The linear scanner that the trie replaced (matchPath). *)

MatchPath(parts, segs) ==
    /\ Len(parts) = Len(segs)
    /\ \A k \in 1 .. Len(parts) : parts[k].param \/ parts[k].name = segs[k]

Captured(parts, segs) ==
    LET holes == { k \in 1 .. Len(parts) : parts[k].param }
        last(n) == CHOOSE k \in holes : /\ parts[k].name = n
                                        /\ \A j \in holes : parts[j].name = n => j <= k
    IN  [ n \in { parts[k].name : k \in holes } |-> segs[last(n)] ]
=============================================================================
