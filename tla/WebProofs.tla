------------------------------ MODULE WebProofs ------------------------------
(***************************************************************************)
(* Proofs about the routes: the trie answers as the linear scanner it      *)
(* replaced, with the params of the route it serves; bodies run behind     *)
(* their middlewares; and groups keep their middlewares to themselves.     *)
(***************************************************************************)
EXTENDS Web, WellFoundedInduction, FiniteSetTheorems, SequenceTheorems, TLAPS

-----------------------------------------------------------------------------
(* Induction on a bounded interval *)

LEMMA LeastIndex ==
  ASSUME NEW S \in SUBSET Nat, S # {}
  PROVE  \E i \in S : \A j \in S : i <= j
<1>1. PICK i \in S : \A j \in S : ~ (<<j, i>> \in OpToRel(<, Nat))
  BY NatLessThanWellFounded, WFMin, Zenon
<1>2. ASSUME NEW j \in S PROVE i <= j
  <2>1. <<j, i>> \notin OpToRel(<, Nat)
    BY <1>1, Zenon
  <2>2. <<j, i>> \in Nat \X Nat
    OBVIOUS
  <2>3. ~ (j < i)
    BY <2>1, <2>2, Zenon DEF OpToRel
  <2> QED
    BY <2>3
<1> QED
  BY <1>2

\* What holds at 0 and passes on to the next holds up to n.
LEMMA Climb ==
  ASSUME NEW n \in Nat, NEW S, 0 \in S,
         \A k \in 0 .. n : k \in S /\ k < n => k + 1 \in S
  PROVE  n \in S
<1> SUFFICES ASSUME n \notin S
             PROVE  FALSE
  OBVIOUS
<1> DEFINE T == { k \in 0 .. n : k \notin S }
<1>1. T \in SUBSET Nat /\ T # {}
  OBVIOUS
<1>2. PICK i \in T : \A j \in T : i <= j
  BY <1>1, LeastIndex
<1>3. i \in 0 .. n /\ i \notin S /\ i # 0
  BY <1>2
<1>4. i - 1 \in 0 .. n /\ i - 1 < n /\ (i - 1) + 1 = i /\ ~ (i <= i - 1)
  BY <1>3
<1>5. i - 1 \in S
  BY <1>2, <1>4
<1> QED
  BY <1>3, <1>4, <1>5

-----------------------------------------------------------------------------
(* The trie that is built *)

\* A list of routes, of which the trie looks at the parts and the method.
RouteList(list) ==
    /\ Len(list) \in Nat
    /\ \A k \in 1 .. Len(list) : list[k].parts \in Seq(Segments)

IsBuilt(f, list, n) ==
    f = [k \in 0 .. n |-> IF k = 0 THEN NewTrie ELSE Insert(f[k - 1], list[k], k)]

LEMMA BuiltExists ==
  ASSUME NEW list, NEW n \in Nat
  PROVE  \E f : IsBuilt(f, list, n)
<1> DEFINE S == { k \in 0 .. n : \E f : IsBuilt(f, list, k) }
<1>1. 0 \in S
  <2> DEFINE f == [k \in 0 .. 0 |-> NewTrie]
  <2>1. IsBuilt(f, list, 0)
    BY DEF IsBuilt
  <2> QED
    BY <2>1
<1>2. ASSUME NEW k \in 0 .. n, k \in S, k < n
      PROVE  k + 1 \in S
  <2>1. PICK f : IsBuilt(f, list, k)
    BY <1>2
  <2> DEFINE g == [j \in 0 .. k + 1 |-> IF j <= k THEN f[j] ELSE Insert(f[k], list[k + 1], k + 1)]
  <2>2. ASSUME NEW j \in 0 .. k + 1
        PROVE  g[j] = IF j = 0 THEN NewTrie ELSE Insert(g[j - 1], list[j], j)
    <3>1. CASE j <= k
      <4>1. j \in 0 .. k /\ g[j] = f[j] /\ (j # 0 => g[j - 1] = f[j - 1])
        BY <3>1
      <4> HIDE DEF g
      <4> QED
        BY <2>1, <4>1 DEF IsBuilt
    <3>2. CASE j = k + 1
      <4>1. j # 0 /\ j - 1 = k /\ g[k] = f[k] /\ g[j] = Insert(f[k], list[k + 1], k + 1)
        BY <3>2
      <4> QED
        BY <3>2, <4>1
    <3> QED
      BY <3>1, <3>2
  <2>3. IsBuilt(g, list, k + 1)
    BY <2>2 DEF IsBuilt
  <2>4. k + 1 \in 0 .. n
    BY <1>2
  <2> HIDE DEF g
  <2> QED
    BY <2>3, <2>4
<1> HIDE DEF S
<1>3. n \in S
  BY <1>1, <1>2, Climb
<1> QED
  BY <1>3 DEF S

\* BuildTrie inserts the routes one by one.
LEMMA BuildTrieIs ==
  ASSUME NEW list, Len(list) \in Nat
  PROVE  \E f : IsBuilt(f, list, Len(list)) /\ BuildTrie(list) = f[Len(list)]
<1> DEFINE f == CHOOSE f : IsBuilt(f, list, Len(list))
<1>1. IsBuilt(f, list, Len(list))
  BY BuiltExists
<1>2. BuildTrie(list) = f[Len(list)]
  BY DEF BuildTrie, IsBuilt
<1> QED
  BY <1>1, <1>2

\* The trie holds the shapes of the routes, and for a shape and a method the last one.
Holds(t, list, n) ==
    /\ t.nodes = {<<>>} \cup UNION { Prefixes(Shape(list[j].parts)) : j \in 1 .. n }
    /\ DOMAIN t.terminal = { <<Shape(list[j].parts), list[j].method>> : j \in 1 .. n }
    /\ \A x \in DOMAIN t.terminal :
          /\ t.terminal[x] \in 1 .. n
          /\ x = <<Shape(list[t.terminal[x]].parts), list[t.terminal[x]].method>>
          /\ \A j \in 1 .. n : x = <<Shape(list[j].parts), list[j].method>> => j <= t.terminal[x]

LEMMA HoldsNone ==
  ASSUME NEW list
  PROVE  Holds(NewTrie, list, 0)
<1>1. 1 .. 0 = {} /\ DOMAIN NewTrie.terminal = {} /\ NewTrie.nodes = {<<>>}
  BY DEF NewTrie
<1> QED
  BY <1>1 DEF Holds

LEMMA HoldsMore ==
  ASSUME NEW t, NEW list, NEW n \in Nat, Holds(t, list, n)
  PROVE  Holds(Insert(t, list[n + 1], n + 1), list, n + 1)
<1> DEFINE route == list[n + 1]
           path  == Shape(route.parts)
           key(j) == <<Shape(list[j].parts), list[j].method>>
           more  == Insert(t, route, n + 1)
<1>1. 1 .. n + 1 = (1 .. n) \cup {n + 1}
  OBVIOUS
<1>2. more.nodes = t.nodes \cup Prefixes(path) /\ more.terminal = With(t.terminal, <<path, route.method>>, n + 1)
  BY DEF Insert
<1>3. more.nodes = {<<>>} \cup UNION { Prefixes(Shape(list[j].parts)) : j \in 1 .. n + 1 }
  BY <1>1, <1>2 DEF Holds
<1>4. /\ DOMAIN more.terminal = {key(n + 1)} \cup DOMAIN t.terminal
      /\ \A x \in DOMAIN more.terminal :
            more.terminal[x] = IF x = key(n + 1) THEN n + 1 ELSE t.terminal[x]
  BY <1>2 DEF With, Over
<1>5. DOMAIN more.terminal = { key(j) : j \in 1 .. n + 1 }
  BY <1>1, <1>4 DEF Holds
<1>6. ASSUME NEW x \in DOMAIN more.terminal
      PROVE  /\ more.terminal[x] \in 1 .. n + 1
             /\ x = key(more.terminal[x])
             /\ \A j \in 1 .. n + 1 : x = key(j) => j <= more.terminal[x]
  <2>1. CASE x = key(n + 1)
    <3>1. more.terminal[x] = n + 1
      BY <1>4, <2>1
    <3> HIDE DEF more
    <3> QED
      BY <2>1, <3>1
  <2>2. CASE x # key(n + 1)
    <3>1. x \in DOMAIN t.terminal /\ more.terminal[x] = t.terminal[x]
      BY <1>4, <2>2
    <3>2. /\ t.terminal[x] \in 1 .. n
          /\ x = key(t.terminal[x])
          /\ \A j \in 1 .. n : x = key(j) => j <= t.terminal[x]
      BY <3>1 DEF Holds
    <3> HIDE DEF more, key
    <3> QED
      BY <1>1, <2>2, <3>1, <3>2
  <2> QED
    BY <2>1, <2>2
<1> QED
  BY <1>3, <1>5, <1>6 DEF Holds

LEMMA BuildTrieHolds ==
  ASSUME NEW list, Len(list) \in Nat
  PROVE  Holds(BuildTrie(list), list, Len(list))
<1>1. PICK f : IsBuilt(f, list, Len(list)) /\ BuildTrie(list) = f[Len(list)]
  BY BuildTrieIs
<1> DEFINE n == Len(list)
           S == { k \in 0 .. n : Holds(f[k], list, k) }
<1>2. 0 \in S
  BY <1>1, HoldsNone DEF IsBuilt
<1>3. ASSUME NEW k \in 0 .. n, k \in S, k < n
      PROVE  k + 1 \in S
  <2>1. k \in Nat /\ k + 1 \in 0 .. n /\ k + 1 # 0 /\ (k + 1) - 1 = k
    BY <1>3
  <2>2. f[k + 1] = Insert(f[k], list[k + 1], k + 1)
    BY <1>1, <2>1 DEF IsBuilt
  <2> QED
    BY <1>3, <2>1, <2>2, HoldsMore
<1> HIDE DEF S
<1>4. n \in S
  BY <1>2, <1>3, Climb
<1> QED
  BY <1>1, <1>4 DEF S
-----------------------------------------------------------------------------
(* Shapes and nodes *)

\* The path begins with the edges that lead to the node.
Extends(path, node) ==
    Len(node) <= Len(path) /\ \A i \in 1 .. Len(node) : path[i] = node[i]

\* What leads from a node to the next.
Edges == Segments \cup {Hole}

LEMMA EdgeIs ==
  /\ Hole \in Edges /\ Hole.param
  /\ Segments \subseteq Edges
  /\ \A s \in STRING : Lit(s) \in Segments /\ ~Lit(s).param /\ Lit(s).name = s /\ Lit(s) # Hole
<1>1. Hole \in Edges /\ Hole.param /\ Segments \subseteq Edges
  BY DEF Hole, Param, Edges
<1>2. ASSUME NEW s \in STRING
      PROVE  Lit(s) \in Segments /\ ~Lit(s).param /\ Lit(s).name = s
  BY DEF Lit, Segments
<1>3. \A s \in STRING : Lit(s) # Hole
  BY <1>1, <1>2
<1> QED
  BY <1>1, <1>2, <1>3

LEMMA NoParam ==
  ASSUME NEW s \in Segments, ~s.param
  PROVE  s = [param |-> FALSE, name |-> s.name]
<1>1. s.param = FALSE
  BY DEF Segments
<1> QED
  BY <1>1 DEF Segments

LEMMA ShapeIs ==
  ASSUME NEW parts \in Seq(Segments)
  PROVE  /\ Shape(parts) \in Seq(Edges)
         /\ Len(Shape(parts)) = Len(parts)
         /\ \A k \in 1 .. Len(parts) : Shape(parts)[k] = IF parts[k].param THEN Hole ELSE parts[k]
<1> DEFINE e(k) == IF parts[k].param THEN Hole ELSE parts[k]
<1>1. Len(parts) \in Nat /\ \A k \in 1 .. Len(parts) : e(k) \in Edges
  BY EdgeIs
<1>2. Shape(parts) = [k \in 1 .. Len(parts) |-> e(k)]
  BY DEF Shape
<1> HIDE DEF e
<1>3. [k \in 1 .. Len(parts) |-> e(k)] \in Seq(Edges)
  BY <1>1, IsASeq
<1> QED
  BY <1>1, <1>2, <1>3 DEF e

LEMMA ExtendsAppend ==
  ASSUME NEW path \in Seq(Edges), NEW node \in Seq(Edges), NEW e \in Edges
  PROVE  Extends(path, Append(node, e)) <=>
            Extends(path, node) /\ Len(node) < Len(path) /\ path[Len(node) + 1] = e
<1> DEFINE next1 == Append(node, e)
<1>1. /\ Len(next1) = Len(node) + 1 /\ Len(node) \in Nat /\ Len(path) \in Nat
      /\ \A i \in 1 .. Len(node) : next1[i] = node[i]
      /\ next1[Len(node) + 1] = e
  BY AppendProperties
<1> HIDE DEF next1
<1>2. 1 .. Len(node) + 1 = (1 .. Len(node)) \cup {Len(node) + 1}
  BY <1>1
<1>3. Extends(path, next1) <=>
         Extends(path, node) /\ Len(node) < Len(path) /\ path[Len(node) + 1] = e
  BY <1>1, <1>2 DEF Extends
<1> QED
  BY <1>3 DEF next1

\* Two sequences of which one is a prefix of the other of the same length.
LEMMA ExtendsSame ==
  ASSUME NEW path \in Seq(Edges), NEW node \in Seq(Edges), Len(path) = Len(node), Extends(path, node)
  PROVE  path = node
BY SeqEqual DEF Extends

LEMMA PrefixesExtend ==
  ASSUME NEW path \in Seq(Edges), NEW node
  PROVE  node \in Prefixes(path) <=> node \in Seq(Edges) /\ Extends(path, node)
<1>1. ASSUME NEW l \in 0 .. Len(path)
      PROVE  /\ SubSeq(path, 1, l) \in Seq(Edges) /\ Len(SubSeq(path, 1, l)) = l
             /\ \A i \in 1 .. l : SubSeq(path, 1, l)[i] = path[i]
  <2>1. 1 \in Int /\ l \in Int /\ \A i \in 1 .. l : path[i] \in Edges
    BY <1>1
  <2>2. /\ SubSeq(path, 1, l) \in Seq(Edges)
        /\ Len(SubSeq(path, 1, l)) = IF 1 <= l THEN l - 1 + 1 ELSE 0
        /\ \A i \in 1 .. l - 1 + 1 : SubSeq(path, 1, l)[i] = path[1 + i - 1]
    BY <2>1, SubSeqProperties
  <2> QED
    BY <2>2
<1>2. ASSUME node \in Prefixes(path)
      PROVE  node \in Seq(Edges) /\ Extends(path, node)
  BY <1>1, <1>2 DEF Prefixes, Extends
<1>3. ASSUME node \in Seq(Edges), Extends(path, node)
      PROVE  node \in Prefixes(path)
  <2>1. Len(node) \in 0 .. Len(path)
    BY <1>3 DEF Extends
  <2>2. node = SubSeq(path, 1, Len(node))
    BY <1>1, <1>3, <2>1, SeqEqual DEF Extends
  <2> QED
    BY <2>1, <2>2 DEF Prefixes
<1> QED
  BY <1>2, <1>3

LEMMA Nodes ==
  ASSUME RouteList(routes)
  PROVE  /\ <<>> \in BuildTrie(routes).nodes
         /\ BuildTrie(routes).nodes \subseteq Seq(Edges)
         /\ \A node \in Seq(Edges), j \in 1 .. Len(routes) :
               Extends(Shape(routes[j].parts), node) => node \in BuildTrie(routes).nodes
         /\ \A node \in BuildTrie(routes).nodes :
               node = <<>> \/ \E j \in 1 .. Len(routes) : Extends(Shape(routes[j].parts), node)
<1> DEFINE nodes == BuildTrie(routes).nodes
           shape(j) == Shape(routes[j].parts)
<1>1. nodes = {<<>>} \cup UNION { Prefixes(shape(j)) : j \in 1 .. Len(routes) }
  BY BuildTrieHolds DEF RouteList, Holds
<1>2. \A j \in 1 .. Len(routes) : shape(j) \in Seq(Edges)
  BY ShapeIs DEF RouteList
<1>3. \A j \in 1 .. Len(routes) : \A node :
         node \in Prefixes(shape(j)) <=> node \in Seq(Edges) /\ Extends(shape(j), node)
  BY <1>2, PrefixesExtend
<1>4. <<>> \in Seq(Edges)
  OBVIOUS
<1> HIDE DEF nodes, shape
<1>5. /\ <<>> \in nodes /\ nodes \subseteq Seq(Edges)
      /\ \A node \in Seq(Edges), j \in 1 .. Len(routes) : Extends(shape(j), node) => node \in nodes
      /\ \A node \in nodes : node = <<>> \/ \E j \in 1 .. Len(routes) : Extends(shape(j), node)
  BY <1>1, <1>3, <1>4
<1> QED
  BY <1>5 DEF nodes, shape

-----------------------------------------------------------------------------
(* The recursion of matchSegs *)

\* f has the answers of the nodes from depth m to the end of the request's path.
IsBelow(f, segs, method, m) ==
    f = [node \in { x \in BuildTrie(routes).nodes : m <= Len(x) /\ Len(x) <= Len(segs) } |->
            Answer(BuildTrie(routes), segs, method, f, node)]

LEMMA AnswerLocal ==
  ASSUME RouteList(routes), NEW segs \in Seq(STRING), NEW method,
         NEW f, NEW g, NEW node \in BuildTrie(routes).nodes, Len(node) < Len(segs),
         \A x \in BuildTrie(routes).nodes : Len(x) = Len(node) + 1 => f[x] = g[x]
  PROVE  Answer(BuildTrie(routes), segs, method, f, node) = Answer(BuildTrie(routes), segs, method, g, node)
<1> DEFINE t == BuildTrie(routes)
           child == Append(node, Lit(segs[Len(node) + 1]))
           hole  == Append(node, Hole)
<1>1. node \in Seq(Edges) /\ segs[Len(node) + 1] \in STRING
  BY Nodes
<1>2. Len(child) = Len(node) + 1 /\ Len(hole) = Len(node) + 1
  BY <1>1, EdgeIs, AppendProperties
<1>3. (child \in t.nodes => f[child] = g[child]) /\ (hole \in t.nodes => f[hole] = g[hole])
  BY <1>2
<1> HIDE DEF t
<1> QED
  BY <1>3 DEF Answer, t

LEMMA BelowExists ==
  ASSUME RouteList(routes), NEW segs \in Seq(STRING), NEW method
  PROVE  \E f : IsBelow(f, segs, method, 0)
<1> DEFINE t == BuildTrie(routes)
           L == Len(segs)
           D(m) == { x \in t.nodes : m <= Len(x) /\ Len(x) <= L }
           S == { d \in 0 .. L : \E f : IsBelow(f, segs, method, L - d) }
<1>1. L \in Nat /\ \A x \in t.nodes : Len(x) \in Nat
  BY Nodes
<1>2. 0 \in S
  <2> DEFINE f == [node \in D(L - 0) |-> [route |-> PickByMethod(t, node, method), writes |-> NoWrites]]
  <2>1. \A node \in D(L - 0) : Answer(t, segs, method, f, node) = [route |-> PickByMethod(t, node, method), writes |-> NoWrites]
    BY <1>1 DEF Answer
  <2>2. IsBelow(f, segs, method, L - 0)
    BY <2>1 DEF IsBelow
  <2> HIDE DEF f
  <2> QED
    BY <1>1, <2>2
<1>3. ASSUME NEW d \in 0 .. L, d \in S, d < L
      PROVE  d + 1 \in S
  <2> DEFINE m == L - (d + 1)
  <2>1. PICK f : IsBelow(f, segs, method, L - d)
    BY <1>3
  <2>2. m \in Nat /\ m + 1 = L - d /\ d + 1 \in 0 .. L
    BY <1>1, <1>3
  <2> DEFINE g == [node \in D(m) |-> IF node \in D(m + 1) THEN f[node] ELSE Answer(t, segs, method, f, node)]
  <2> HIDE DEF m
  <2>3. ASSUME NEW x \in D(m + 1)
        PROVE  g[x] = f[x]
    BY <1>1, <2>2
  <2>4. ASSUME NEW node \in D(m)
        PROVE  g[node] = Answer(t, segs, method, g, node)
    <3>1. g[node] = Answer(t, segs, method, f, node)
      <4>1. CASE node \in D(m + 1)
        <5>1. f[node] = Answer(t, segs, method, f, node)
          BY <2>1, <2>2, <4>1 DEF IsBelow
        <5> QED
          BY <2>3, <4>1, <5>1
      <4>2. CASE node \notin D(m + 1)
        BY <4>2
      <4> QED
        BY <4>1, <4>2
    <3>2. Answer(t, segs, method, f, node) = Answer(t, segs, method, g, node)
      <4>1. CASE Len(node) = L
        BY <4>1 DEF Answer
      <4>2. CASE Len(node) < L
        <5>1. \A x \in t.nodes : Len(x) = Len(node) + 1 => x \in D(m + 1)
          BY <1>1, <2>2, <4>2
        <5>2. \A x \in t.nodes : Len(x) = Len(node) + 1 => f[x] = g[x]
          BY <2>3, <5>1
        <5> HIDE DEF g
        <5> QED
          BY <4>2, <5>2, AnswerLocal
      <4> QED
        BY <1>1, <4>1, <4>2
    <3> QED
      BY <3>1, <3>2
  <2>5. IsBelow(g, segs, method, m)
    BY <2>4 DEF IsBelow
  <2> HIDE DEF g
  <2> QED
    BY <2>2, <2>5 DEF m
<1> HIDE DEF S
<1>4. L \in S
  BY <1>1, <1>2, <1>3, Climb
<1>5. L - L = 0
  BY <1>1
<1> QED
  BY <1>4, <1>5 DEF S

\* MatchSegs is the answer at the root, where every answer follows from those below.
LEMMA MatchSegsIs ==
  ASSUME RouteList(routes), NEW segs \in Seq(STRING), NEW method
  PROVE  \E f : /\ IsBelow(f, segs, method, 0)
                /\ MatchSegs(BuildTrie(routes), segs, method) = f[<<>>]
<1> DEFINE t == BuildTrie(routes)
           reached == { node \in t.nodes : Len(node) <= Len(segs) }
           f == CHOOSE f : f = [node \in reached |-> Answer(t, segs, method, f, node)]
<1>1. reached = { x \in t.nodes : 0 <= Len(x) /\ Len(x) <= Len(segs) }
  BY Nodes
<1>2. \E g : g = [node \in reached |-> Answer(t, segs, method, g, node)]
  BY <1>1, BelowExists DEF IsBelow
<1>3. f = [node \in reached |-> Answer(t, segs, method, f, node)]
  BY <1>2
<1>4. MatchSegs(t, segs, method) = f[<<>>]
  BY DEF MatchSegs
<1>5. IsBelow(f, segs, method, 0)
  BY <1>1, <1>3 DEF IsBelow
<1> QED
  BY <1>4, <1>5

-----------------------------------------------------------------------------
(* The route that is found *)

LEMMA MinIs ==
  ASSUME NEW S \in SUBSET Nat, S # {}
  PROVE  Min(S) \in S /\ \A j \in S : Min(S) <= j
BY LeastIndex DEF Min

\* Below a node, route j matches the rest of the path and the method.
Suits(j, segs, method, node) ==
    /\ Len(routes[j].parts) = Len(segs)
    /\ Extends(Shape(routes[j].parts), node)
    /\ \A k \in Len(node) + 1 .. Len(segs) :
          routes[j].parts[k].param \/ routes[j].parts[k].name = segs[k]
    /\ routes[j].method \in Range(Candidates(method))

\* k is the preferred one of the routes that match below a node, None when none does.
Right(k, segs, method, node) ==
    IF k = None THEN \A j \in 1 .. Len(routes) : ~Suits(j, segs, method, node)
    ELSE /\ k \in 1 .. Len(routes) /\ Suits(k, segs, method, node)
         /\ \A j \in 1 .. Len(routes) \ {k} : Suits(j, segs, method, node) => Preferred(k, j, method)

LEMMA CandidatesAre ==
  ASSUME NEW method
  PROVE  /\ Len(Candidates(method)) \in 1 .. 3 /\ DOMAIN Candidates(method) = 1 .. Len(Candidates(method))
         /\ Range(Candidates(method)) = { Candidates(method)[k] : k \in 1 .. Len(Candidates(method)) }
         /\ \A j, k \in 1 .. Len(Candidates(method)) : j < k =>
               /\ Candidates(method)[j] # Candidates(method)[k]
               /\ (CHOOSE n \in 1 .. 3 : Candidates(method)[n] = Candidates(method)[j])
                  < (CHOOSE n \in 1 .. 3 : Candidates(method)[n] = Candidates(method)[k])
<1> DEFINE w == Candidates(method)
<1>1. CASE method = "GET"
  <2>1. w = <<"GET", "SSE", "WS">>
    BY <1>1 DEF Candidates
  <2>2. Len(w) = 3 /\ DOMAIN w = 1 .. 3 /\ w[1] = "GET" /\ w[2] = "SSE" /\ w[3] = "WS"
    BY <2>1
  <2>3. \A j, k \in 1 .. 3 : w[j] = w[k] => j = k
    BY <2>2
  <2> HIDE DEF w
  <2>4. \A j \in 1 .. 3 : (CHOOSE n \in 1 .. 3 : w[n] = w[j]) = j
    BY <2>3
  <2>5. \A j, k \in 1 .. Len(w) : j < k => w[j] # w[k] /\ (CHOOSE n \in 1 .. 3 : w[n] = w[j]) < (CHOOSE n \in 1 .. 3 : w[n] = w[k])
    BY <2>2, <2>3, <2>4
  <2>6. Range(w) = { w[k] : k \in 1 .. Len(w) }
    BY <2>2 DEF Range
  <2> QED
    BY <2>2, <2>5, <2>6 DEF w
<1>2. CASE method # "GET"
  <2>1. w = <<method>>
    BY <1>2 DEF Candidates
  <2>2. Len(w) = 1 /\ DOMAIN w = 1 .. 1
    BY <2>1
  <2> HIDE DEF w
  <2>3. Range(w) = { w[k] : k \in 1 .. Len(w) }
    BY <2>2 DEF Range
  <2>4. \A j, k \in 1 .. Len(w) : ~(j < k)
    BY <2>2
  <2> QED
    BY <2>2, <2>3, <2>4 DEF w
<1> QED
  BY <1>1, <1>2

\* At a terminal node, the method decides.
LEMMA PickRight ==
  ASSUME RouteList(routes), NEW segs \in Seq(STRING), NEW method,
         NEW node \in BuildTrie(routes).nodes, Len(node) = Len(segs)
  PROVE  Right(PickByMethod(BuildTrie(routes), node, method), segs, method, node)
<1> DEFINE t == BuildTrie(routes)
           n == Len(routes)
           w == Candidates(method)
           shape(j) == Shape(routes[j].parts)
           kept == { k \in 1 .. Len(w) : <<node, w[k]>> \in DOMAIN t.terminal }
           found == PickByMethod(t, node, method)
<1>1. /\ node \in Seq(Edges) /\ n \in Nat
      /\ \A j \in 1 .. n : shape(j) \in Seq(Edges) /\ Len(shape(j)) = Len(routes[j].parts)
  BY Nodes, ShapeIs DEF RouteList
<1>2. Holds(t, routes, n)
  BY BuildTrieHolds DEF RouteList
<1>3. found = IF kept = {} THEN None ELSE t.terminal[<<node, w[Min(kept)]>>]
  BY DEF PickByMethod
<1>4. \A j \in 1 .. n : shape(j) = node <=> Len(routes[j].parts) = Len(segs) /\ Extends(shape(j), node)
  <2>1. \A j \in 1 .. n : shape(j) = node => Extends(shape(j), node)
    BY <1>1 DEF Extends
  <2> HIDE DEF shape
  <2> QED
    BY <1>1, <2>1, ExtendsSame
<1>5. \A j \in 1 .. n : Suits(j, segs, method, node) <=> shape(j) = node /\ routes[j].method \in Range(w)
  <2>1. Len(node) + 1 .. Len(segs) = {}
    BY <1>1
  <2> QED
    BY <1>4, <2>1 DEF Suits
<1>6. \A j \in 1 .. n : <<shape(j), routes[j].method>> \in DOMAIN t.terminal
  BY <1>2 DEF Holds
<1>7. \A j \in 1 .. n : Suits(j, segs, method, node) => \E k \in kept : routes[j].method = w[k]
  <2>1. Range(w) = { w[k] : k \in 1 .. Len(w) }
    BY CandidatesAre
  <2> SUFFICES ASSUME NEW j \in 1 .. n, Suits(j, segs, method, node)
               PROVE  \E k \in kept : routes[j].method = w[k]
    OBVIOUS
  <2>2. shape(j) = node /\ routes[j].method \in Range(w) /\ <<shape(j), routes[j].method>> \in DOMAIN t.terminal
    BY <1>5, <1>6
  <2> HIDE DEF w, t, shape
  <2>3. PICK k \in 1 .. Len(w) : routes[j].method = w[k]
    BY <2>1, <2>2
  <2> QED
    BY <2>2, <2>3
<1>8. CASE kept = {}
  BY <1>3, <1>7, <1>8 DEF Right
<1>9. CASE kept # {}
  <2> DEFINE m == Min(kept)
             x == <<node, w[m]>>
  <2>1. kept \in SUBSET Nat
    BY CandidatesAre
  <2>2. m \in kept /\ \A k \in kept : m <= k
    BY <1>9, <2>1, MinIs
  <2> HIDE DEF m, kept
  <2>3. x \in DOMAIN t.terminal /\ m \in 1 .. Len(w)
    BY <2>2 DEF kept
  <2>4. /\ found = t.terminal[x] /\ found \in 1 .. n
        /\ x = <<shape(found), routes[found].method>>
        /\ \A j \in 1 .. n : x = <<shape(j), routes[j].method>> => j <= found
    <3>1. found = t.terminal[x]
      BY <1>3, <1>9 DEF m
    <3>2. /\ t.terminal[x] \in 1 .. n
          /\ x = <<shape(t.terminal[x]), routes[t.terminal[x]].method>>
          /\ \A j \in 1 .. n : x = <<shape(j), routes[j].method>> => j <= t.terminal[x]
      BY <1>2, <2>3 DEF Holds
    <3> HIDE DEF found, x, shape
    <3> QED
      BY <3>1, <3>2
  <2>5. shape(found) = node /\ routes[found].method = w[m]
    BY <2>4
  <2>6. Suits(found, segs, method, node)
    <3>1. w[m] \in Range(w)
      BY <2>3, CandidatesAre
    <3>2. found \in 1 .. n
      BY <2>4
    <3> HIDE DEF found, shape, w
    <3> QED
      BY <1>5, <2>5, <3>1, <3>2
  <2>7. ASSUME NEW j \in 1 .. n, j # found, Suits(j, segs, method, node)
        PROVE  Preferred(found, j, method)
    <3>1. shape(j) = node
      BY <1>5, <2>7
    <3>2. PICK k \in kept : routes[j].method = w[k]
      BY <1>7, <2>7
    <3>3. k \in 1 .. Len(w) /\ m <= k
      BY <2>2, <3>2 DEF kept
    <3>4. { s \in 1 .. Len(routes[found].parts) : shape(found)[s] # shape(j)[s] } = {}
      BY <2>5, <3>1
    <3>5. CASE k = m
      <4>1. x = <<shape(j), routes[j].method>>
        BY <3>1, <3>2, <3>5
      <4>2. found > j
        <5>1. found \in 1 .. n /\ j <= found /\ j # found /\ n \in Nat
          BY <1>1, <2>4, <2>7, <4>1
        <5> HIDE DEF found
        <5> QED
          BY <5>1
      <4> QED
        BY <2>5, <3>2, <3>4, <3>5, <4>2 DEF Preferred
    <3>6. CASE m < k
      <4>1. /\ w[m] # w[k]
            /\ (CHOOSE i \in 1 .. 3 : w[i] = w[m]) < (CHOOSE i \in 1 .. 3 : w[i] = w[k])
        BY <2>3, <3>3, <3>6, CandidatesAre
      <4> HIDE DEF found, shape
      <4> QED
        BY <2>5, <3>2, <3>4, <4>1 DEF Preferred, shape
    <3> QED
      BY <2>3, <3>3, <3>5, <3>6
  <2>8. found # None
    <3>1. found \in 1 .. n
      BY <2>4
    <3> HIDE DEF found
    <3> QED
      BY <3>1 DEF None
  <2> QED
    BY <2>4, <2>6, <2>7, <2>8 DEF Right
<1> QED
  BY <1>8, <1>9

\* A route that matches below a node does so below its child or below its placeholder.
LEMMA SuitsSplit ==
  ASSUME RouteList(routes), NEW segs \in Seq(STRING), NEW method, NEW node \in Seq(Edges),
         Len(node) < Len(segs), NEW j \in 1 .. Len(routes)
  PROVE  Suits(j, segs, method, node) <=>
            \/ Suits(j, segs, method, Append(node, Lit(segs[Len(node) + 1])))
            \/ Suits(j, segs, method, Append(node, Hole))
<1> DEFINE d == Len(node) + 1
           head == segs[d]
           parts == routes[j].parts
           child == Append(node, Lit(head))
           hole  == Append(node, Hole)
           rest(k) == parts[k].param \/ parts[k].name = segs[k]
<1>1. /\ parts \in Seq(Segments) /\ Len(node) \in Nat /\ Len(segs) \in Nat /\ d \in 1 .. Len(segs)
      /\ head \in STRING
  BY DEF RouteList
<1>2. /\ Shape(parts) \in Seq(Edges) /\ Len(Shape(parts)) = Len(parts)
      /\ \A k \in 1 .. Len(parts) : Shape(parts)[k] = IF parts[k].param THEN Hole ELSE parts[k]
  BY <1>1, ShapeIs
<1>3. /\ Hole \in Edges /\ Lit(head) \in Edges /\ Lit(head) # Hole
  BY <1>1, EdgeIs
<1>4. Len(child) = d /\ Len(hole) = d
  BY <1>3, AppendProperties
<1>5. /\ Extends(Shape(parts), child) <=> Extends(Shape(parts), node) /\ d <= Len(parts) /\ Shape(parts)[d] = Lit(head)
      /\ Extends(Shape(parts), hole) <=> Extends(Shape(parts), node) /\ d <= Len(parts) /\ Shape(parts)[d] = Hole
  BY <1>1, <1>2, <1>3, ExtendsAppend
<1>6. ASSUME Len(parts) = Len(segs)
      PROVE  rest(d) <=> Shape(parts)[d] = Lit(head) \/ Shape(parts)[d] = Hole
  <2>1. parts[d] \in Segments /\ d \in 1 .. Len(parts)
    BY <1>1, <1>6
  <2>2. CASE parts[d].param
    BY <1>2, <2>1, <2>2
  <2>3. CASE ~parts[d].param
    <3>1. Shape(parts)[d] = parts[d] /\ parts[d] # Hole
      BY <1>2, <2>1, <2>3, EdgeIs
    <3>2. parts[d] = Lit(head) <=> parts[d].name = head
      <4>1. parts[d] = [param |-> FALSE, name |-> parts[d].name]
        BY <2>1, <2>3, NoParam
      <4>2. Lit(head) = [param |-> FALSE, name |-> head] /\ Lit(head).name = head
        BY DEF Lit
      <4> DEFINE part == parts[d]
      <4>3. part = [param |-> FALSE, name |-> part.name]
        BY <4>1
      <4> HIDE DEF part, head
      <4>4. part = Lit(head) => part.name = head
        BY <4>2
      <4>5. part.name = head => part = Lit(head)
        BY <4>2, <4>3
      <4> QED
        BY <4>4, <4>5 DEF part
    <3> QED
      BY <2>3, <3>1, <3>2
  <2> QED
    BY <2>2, <2>3
<1>7. d .. Len(segs) = {d} \cup (d + 1 .. Len(segs))
  BY <1>1
<1>8. (\A k \in d .. Len(segs) : rest(k)) <=> rest(d) /\ \A k \in d + 1 .. Len(segs) : rest(k)
  BY <1>7
<1> DEFINE fits == Len(parts) = Len(segs) /\ routes[j].method \in Range(Candidates(method)) /\ Extends(Shape(parts), node)
           tail == \A k \in d + 1 .. Len(segs) : rest(k)
<1>9. Suits(j, segs, method, node) <=> fits /\ rest(d) /\ tail
  BY <1>8 DEF Suits
<1>10. Suits(j, segs, method, child) <=> fits /\ Shape(parts)[d] = Lit(head) /\ tail
  BY <1>1, <1>4, <1>5 DEF Suits
<1>11. Suits(j, segs, method, hole) <=> fits /\ Shape(parts)[d] = Hole /\ tail
  BY <1>1, <1>4, <1>5 DEF Suits
<1> HIDE DEF tail, rest
<1> QED
  BY <1>6, <1>9, <1>10, <1>11

\* A literal goes before a placeholder.
LEMMA LiteralFirst ==
  ASSUME RouteList(routes), NEW segs \in Seq(STRING), NEW method, NEW node \in Seq(Edges),
         Len(node) < Len(segs), NEW a \in 1 .. Len(routes), NEW b \in 1 .. Len(routes),
         Suits(a, segs, method, Append(node, Lit(segs[Len(node) + 1]))),
         Suits(b, segs, method, Append(node, Hole))
  PROVE  Preferred(a, b, method)
<1> DEFINE d == Len(node) + 1
           shape(j) == Shape(routes[j].parts)
           differ == { s \in 1 .. Len(routes[a].parts) : shape(a)[s] # shape(b)[s] }
<1>1. Len(node) \in Nat /\ Len(segs) \in Nat /\ segs[d] \in STRING
  OBVIOUS
<1>2. /\ Hole \in Edges /\ Hole.param /\ Lit(segs[d]) \in Edges /\ Lit(segs[d]) # Hole
  BY <1>1, EdgeIs
<1>3. /\ shape(a) \in Seq(Edges) /\ shape(b) \in Seq(Edges) /\ Len(shape(a)) = Len(segs) /\ Len(shape(b)) = Len(segs)
      /\ Len(routes[a].parts) = Len(segs)
      /\ \A k \in 1 .. Len(segs) : shape(a)[k] = IF routes[a].parts[k].param THEN Hole ELSE routes[a].parts[k]
  BY ShapeIs DEF RouteList, Suits
<1>4. /\ Extends(shape(a), node) /\ shape(a)[d] = Lit(segs[d])
      /\ Extends(shape(b), node) /\ shape(b)[d] = Hole
  BY <1>1, <1>2, <1>3, ExtendsAppend DEF Suits
<1>5. differ \in SUBSET Nat /\ d \in differ
  BY <1>1, <1>2, <1>3, <1>4
<1>6. \A s \in 1 .. Len(node) : shape(a)[s] = shape(b)[s]
  BY <1>4 DEF Extends
<1>7. Min(differ) = d
  <2>1. Min(differ) \in differ /\ Min(differ) <= d
    BY <1>5, MinIs
  <2> DEFINE m == Min(differ)
  <2>2. m \in 1 .. Len(segs) /\ shape(a)[m] # shape(b)[m] /\ m <= d
    BY <1>3, <2>1
  <2> HIDE DEF m, shape
  <2>3. m = d
    BY <1>1, <1>6, <2>2
  <2> QED
    BY <2>3 DEF m
<1>8. ~routes[a].parts[d].param
  BY <1>1, <1>2, <1>3, <1>4
<1> HIDE DEF differ
<1>9. differ # {} /\ ~routes[a].parts[Min(differ)].param
  BY <1>5, <1>7, <1>8
<1> QED
  BY <1>9 DEF Preferred, differ

LEMMA StepRight ==
  ASSUME RouteList(routes), NEW segs \in Seq(STRING), NEW method,
         NEW node \in BuildTrie(routes).nodes, Len(node) < Len(segs), NEW f,
         \A x \in BuildTrie(routes).nodes : Len(x) = Len(node) + 1 => Right(f[x].route, segs, method, x)
  PROVE  Right(Answer(BuildTrie(routes), segs, method, f, node).route, segs, method, node)
<1> DEFINE t == BuildTrie(routes)
           n == Len(routes)
           child == Append(node, Lit(segs[Len(node) + 1]))
           hole  == Append(node, Hole)
           viaStatic == IF child \in t.nodes THEN f[child] ELSE [route |-> None, writes |-> NoWrites]
           viaHole == IF hole \in t.nodes THEN f[hole] ELSE [route |-> None, writes |-> NoWrites]
           found == Answer(t, segs, method, f, node).route
<1>1. /\ node \in Seq(Edges) /\ segs[Len(node) + 1] \in STRING
      /\ \A x \in Seq(Edges), j \in 1 .. n : Extends(Shape(routes[j].parts), x) => x \in t.nodes
  BY Nodes
<1>2. child \in Seq(Edges) /\ hole \in Seq(Edges) /\ Len(child) = Len(node) + 1 /\ Len(hole) = Len(node) + 1
  BY <1>1, EdgeIs, AppendProperties
<1>3. Len(node) # Len(segs)
  OBVIOUS
<1>4. found = IF StaticDecides(child \in t.nodes, viaStatic) \/ hole \notin t.nodes
              THEN viaStatic.route ELSE viaHole.route
  BY <1>3 DEF Answer
<1>5. \A x \in {child, hole} : x \notin t.nodes => \A j \in 1 .. n : ~Suits(j, segs, method, x)
  BY <1>1, <1>2 DEF Suits
<1>6. Right(viaStatic.route, segs, method, child) /\ Right(viaHole.route, segs, method, hole)
  BY <1>2, <1>5 DEF Right
<1>7. \A j \in 1 .. n : Suits(j, segs, method, node) <=>
         Suits(j, segs, method, child) \/ Suits(j, segs, method, hole)
  BY <1>1, SuitsSplit
<1>8. \A a, b \in 1 .. n : Suits(a, segs, method, child) /\ Suits(b, segs, method, hole) => Preferred(a, b, method)
  BY <1>1, LiteralFirst
<1> SUFFICES Right(found, segs, method, node)
  OBVIOUS
<1> HIDE DEF viaStatic, viaHole, child, hole, found
<1>9. CASE viaStatic.route # None
  <2>1. found = viaStatic.route
    <3>1. child \in t.nodes
      BY <1>9 DEF viaStatic
    <3> QED
      BY <1>4, <1>9, <3>1 DEF StaticDecides
  <2>2. /\ found \in 1 .. n /\ found # None /\ Suits(found, segs, method, child)
        /\ \A j \in 1 .. n \ {found} : Suits(j, segs, method, child) => Preferred(found, j, method)
    BY <1>6, <1>9, <2>1 DEF Right
  <2>3. Suits(found, segs, method, node)
    BY <1>7, <2>2
  <2>4. \A j \in 1 .. n \ {found} : Suits(j, segs, method, node) => Preferred(found, j, method)
    BY <1>7, <1>8, <2>2
  <2> QED
    BY <2>2, <2>3, <2>4 DEF Right
<1>10. CASE viaStatic.route = None
  <2>1. found = viaHole.route
    <3>1. CASE hole \in t.nodes
      BY <1>4, <1>10, <3>1 DEF StaticDecides
    <3>2. CASE hole \notin t.nodes
      <4>1. viaHole.route = None
        BY <3>2 DEF viaHole
      <4> QED
        BY <1>4, <1>10, <3>2, <4>1
    <3> QED
      BY <3>1, <3>2
  <2>2. \A j \in 1 .. n : ~Suits(j, segs, method, child)
    BY <1>6, <1>10 DEF Right
  <2>3. \A j \in 1 .. n : Suits(j, segs, method, node) <=> Suits(j, segs, method, hole)
    BY <1>7, <2>2
  <2>4. Right(found, segs, method, hole)
    BY <1>6, <2>1
  <2> HIDE DEF n
  <2>5. CASE found = None
    BY <2>3, <2>4, <2>5 DEF Right, n
  <2>6. CASE found # None
    <3>1. /\ found \in 1 .. n /\ Suits(found, segs, method, hole)
          /\ \A j \in 1 .. n \ {found} : Suits(j, segs, method, hole) => Preferred(found, j, method)
      BY <2>4, <2>6 DEF Right, n
    <3>2. /\ Suits(found, segs, method, node)
          /\ \A j \in 1 .. n \ {found} : Suits(j, segs, method, node) => Preferred(found, j, method)
      BY <2>3, <3>1
    <3> QED
      BY <2>6, <3>1, <3>2 DEF Right, n
  <2> QED
    BY <2>5, <2>6
<1> QED
  BY <1>9, <1>10

\* matchSegs finds the preferred one of the routes that match the path.
LEMMA FoundRight ==
  ASSUME RouteList(routes), NEW segs \in Seq(STRING), NEW method, NEW f, IsBelow(f, segs, method, 0)
  PROVE  \A node \in BuildTrie(routes).nodes : Len(node) <= Len(segs) => Right(f[node].route, segs, method, node)
<1> DEFINE t == BuildTrie(routes)
           L == Len(segs)
           S == { d \in 0 .. L : \A node \in t.nodes : L - d <= Len(node) /\ Len(node) <= L
                                      => Right(f[node].route, segs, method, node) }
<1>1. L \in Nat /\ \A x \in t.nodes : Len(x) \in Nat
  BY Nodes
<1>2. \A node \in t.nodes : Len(node) <= L => f[node] = Answer(t, segs, method, f, node)
  BY <1>1 DEF IsBelow
<1>3. 0 \in S
  <2> SUFFICES ASSUME NEW node \in t.nodes, L - 0 <= Len(node), Len(node) <= L
               PROVE  Right(f[node].route, segs, method, node)
    BY <1>1
  <2>1. Len(node) = L
    BY <1>1
  <2>2. f[node].route = PickByMethod(t, node, method)
    <3>1. f[node] = Answer(t, segs, method, f, node)
      BY <1>2
    <3>2. Answer(t, segs, method, f, node) = [route |-> PickByMethod(t, node, method), writes |-> NoWrites]
      BY <2>1 DEF Answer
    <3> QED
      BY <3>1, <3>2
  <2> QED
    BY <2>1, <2>2, PickRight
<1>4. ASSUME NEW d \in 0 .. L, d \in S, d < L
      PROVE  d + 1 \in S
  <2>1. d + 1 \in 0 .. L
    BY <1>1, <1>4
  <2> SUFFICES ASSUME NEW node \in t.nodes, L - (d + 1) <= Len(node), Len(node) <= L
               PROVE  Right(f[node].route, segs, method, node)
    BY <2>1
  <2>2. CASE L - d <= Len(node)
    BY <1>4, <2>2
  <2>3. CASE ~(L - d <= Len(node))
    <3>1. Len(node) < L /\ Len(node) + 1 = L - d
      BY <1>1, <2>1, <2>3
    <3>2. \A x \in t.nodes : Len(x) = Len(node) + 1 => Right(f[x].route, segs, method, x)
      BY <1>1, <1>4, <3>1
    <3>3. f[node] = Answer(t, segs, method, f, node)
      BY <1>2
    <3> QED
      BY <3>1, <3>2, <3>3, StepRight
  <2> QED
    BY <2>2, <2>3
<1> HIDE DEF S
<1>5. L \in S
  BY <1>1, <1>3, <1>4, Climb
<1>6. L - L = 0
  BY <1>1
<1> QED
  BY <1>1, <1>5, <1>6 DEF S

LEMMA SuitsAtRoot ==
  ASSUME RouteList(routes), NEW segs \in Seq(STRING), NEW method, NEW j \in 1 .. Len(routes)
  PROVE  Suits(j, segs, method, <<>>) <=> Accepts(j, segs, method)
<1>1. Len(<<>>) = 0 /\ 1 .. 0 = {} /\ Len(routes[j].parts) \in Nat /\ Len(Shape(routes[j].parts)) = Len(routes[j].parts)
  BY ShapeIs DEF RouteList
<1>2. Extends(Shape(routes[j].parts), <<>>)
  BY <1>1 DEF Extends
<1> QED
  BY <1>1, <1>2 DEF Suits, Accepts, MatchPath

LEMMA LookupRight ==
  ASSUME RouteList(routes), NEW segs \in Seq(STRING), NEW method
  PROVE  Right(Match(BuildTrie(routes), segs, method).route, segs, method, <<>>)
<1>1. PICK f : IsBelow(f, segs, method, 0) /\ MatchSegs(BuildTrie(routes), segs, method) = f[<<>>]
  BY MatchSegsIs
<1>2. <<>> \in BuildTrie(routes).nodes /\ Len(<<>>) <= Len(segs)
  BY Nodes
<1>3. Right(f[<<>>].route, segs, method, <<>>)
  BY <1>1, <1>2, FoundRight
<1>4. Match(BuildTrie(routes), segs, method).route = MatchSegs(BuildTrie(routes), segs, method).route
  BY DEF Match
<1> QED
  BY <1>1, <1>3, <1>4

\* A lookup finds a route or none.
LEMMA FoundRoute ==
  ASSUME RouteList(routes), NEW segs \in Seq(STRING), NEW method,
         Match(BuildTrie(routes), segs, method).route # None
  PROVE  Match(BuildTrie(routes), segs, method).route \in 1 .. Len(routes)
BY LookupRight DEF Right

LEMMA ServesAsScanned ==
  ASSUME RouteList(routes)
  PROVE  ServesThePreferred
<1> SUFFICES ASSUME NEW path \in Urls, NEW method \in Methods
             PROVE  LET k == Match(BuildTrie(routes), path, method).route
                    IN  IF k = None THEN \A j \in 1 .. Len(routes) : ~Accepts(j, path, method)
                        ELSE /\ Accepts(k, path, method)
                             /\ \A j \in 1 .. Len(routes) \ {k} : Accepts(j, path, method) => Preferred(k, j, method)
  BY DEF ServesThePreferred
<1> DEFINE k == Match(BuildTrie(routes), path, method).route
<1>1. path \in Seq(STRING)
  BY WebAssumption
<1>2. Right(k, path, method, <<>>)
  BY <1>1, LookupRight
<1>3. \A j \in 1 .. Len(routes) : Suits(j, path, method, <<>>) <=> Accepts(j, path, method)
  BY <1>1, SuitsAtRoot
<1> HIDE DEF k
<1>4. IF k = None THEN \A j \in 1 .. Len(routes) : ~Accepts(j, path, method)
      ELSE /\ Accepts(k, path, method)
           /\ \A j \in 1 .. Len(routes) \ {k} : Accepts(j, path, method) => Preferred(k, j, method)
  BY <1>2, <1>3 DEF Right
<1> QED
  BY <1>4 DEF k

-----------------------------------------------------------------------------
(* The params *)

\* Each placeholder of the first n routes has the name that the trie keeps at its place.
Named(trie1, n) ==
    \A j \in 1 .. n : \A s \in 1 .. Len(routes[j].parts) :
        routes[j].parts[s].param =>
            LET node == SubSeq(Shape(routes[j].parts), 1, s - 1)
            IN  node \in DOMAIN trie1.paramName /\ trie1.paramName[node] = routes[j].parts[s].name

\* The node above a placeholder.
LEMMA Above ==
  ASSUME NEW path \in Seq(Edges), NEW s \in 1 .. Len(path)
  PROVE  LET node == SubSeq(path, 1, s - 1)
         IN  /\ node \in Seq(Edges) /\ Len(node) = s - 1
             /\ Append(node, path[s]) = SubSeq(path, 1, s)
<1> DEFINE node == SubSeq(path, 1, s - 1)
<1>1. Len(path) \in Nat /\ 1 \in Int /\ s - 1 \in Int /\ \A i \in 1 .. s - 1 : path[i] \in Edges
  OBVIOUS
<1>2. node \in Seq(Edges) /\ Len(node) = IF 1 <= s - 1 THEN s - 1 - 1 + 1 ELSE 0
  BY <1>1, SubSeqProperties
<1>3. Len(node) = s - 1
  BY <1>1, <1>2
<1>4. 1 \in 1 .. Len(path) /\ s \in 1 .. Len(path)
  OBVIOUS
<1>5. SubSeq(path, 1, s) = node \o <<path[s]>>
  BY <1>1, <1>4, SubSeqRecursiveSecond
<1>6. Append(node, path[s]) = node \o <<path[s]>>
  BY <1>1, <1>2, AppendIsConcat
<1> QED
  BY <1>2, <1>3, <1>5, <1>6

LEMMA FirstEdges ==
  ASSUME NEW path \in Seq(Edges), NEW m \in 1 .. Len(path)
  PROVE  /\ Len(SubSeq(path, 1, m)) = m
         /\ SubSeq(path, 1, m) # <<>>
         /\ SubSeq(path, 1, m)[m] = path[m]
<1>1. 1 \in Int /\ m \in Int /\ \A i \in 1 .. m : path[i] \in Edges
  OBVIOUS
<1>2. /\ SubSeq(path, 1, m) \in Seq(Edges)
      /\ Len(SubSeq(path, 1, m)) = IF 1 <= m THEN m - 1 + 1 ELSE 0
      /\ \A i \in 1 .. m - 1 + 1 : SubSeq(path, 1, m)[i] = path[1 + i - 1]
  BY <1>1, SubSeqProperties
<1> QED
  BY <1>2

\* Routes that agree have one name for the placeholder below one node.
LEMMA AgreedName ==
  ASSUME RouteList(routes), NamesAgree,
         NEW j \in 1 .. Len(routes), NEW k \in 1 .. Len(routes),
         NEW s \in 1 .. Len(routes[j].parts), s <= Len(routes[k].parts),
         routes[j].parts[s].param, routes[k].parts[s].param,
         SubSeq(Shape(routes[j].parts), 1, s) = SubSeq(Shape(routes[k].parts), 1, s)
  PROVE  routes[j].parts[s].name = routes[k].parts[s].name
<1>1. s \in 1 .. Len(routes[k].parts)
  BY DEF RouteList
<1>2. routes[j].parts[s] = routes[k].parts[s]
  BY <1>1 DEF NamesAgree
<1> QED
  BY <1>2

LEMMA NamedMore ==
  ASSUME RouteList(routes), NamesAgree, NEW trie1, NEW n \in Nat, n + 1 \in 1 .. Len(routes),
         Holds(trie1, routes, n), Named(trie1, n)
  PROVE  Named(Insert(trie1, routes[n + 1], n + 1), n + 1)
<1> DEFINE route == routes[n + 1]
           path == Shape(route.parts)
           holes == { SubSeq(path, 1, k - 1) : k \in { i \in 1 .. Len(path) : path[i].param } }
           more == Insert(trie1, route, n + 1)
           kept(node) == KeptName(trie1, node, route.parts[Len(node) + 1].name)
           shape(j) == Shape(routes[j].parts)
           above(j, s) == SubSeq(shape(j), 1, s - 1)
<1>1. more.paramName = Over([node \in holes |-> kept(node)], trie1.paramName)
  BY DEF Insert
<1>2. /\ DOMAIN more.paramName = holes \cup DOMAIN trie1.paramName
      /\ \A node \in DOMAIN more.paramName :
            more.paramName[node] = IF node \in holes THEN kept(node) ELSE trie1.paramName[node]
  BY <1>1 DEF Over
<1>3. \A j \in 1 .. Len(routes) :
         /\ shape(j) \in Seq(Edges) /\ Len(shape(j)) = Len(routes[j].parts) /\ Len(shape(j)) \in Nat
         /\ \A s \in 1 .. Len(shape(j)) : routes[j].parts[s].param => shape(j)[s] = Hole
  BY ShapeIs DEF RouteList
<1>4. ASSUME NEW j \in 1 .. n + 1, NEW s \in 1 .. Len(routes[j].parts), routes[j].parts[s].param
      PROVE  above(j, s) \in DOMAIN more.paramName /\ more.paramName[above(j, s)] = routes[j].parts[s].name
  <2>1. j \in 1 .. Len(routes) /\ s \in 1 .. Len(shape(j)) /\ shape(j)[s] = Hole /\ Len(routes) \in Nat
    BY <1>3, <1>4 DEF RouteList
  <2>2. /\ Len(above(j, s)) = s - 1
        /\ Append(above(j, s), Hole) = SubSeq(shape(j), 1, s)
    BY <1>3, <2>1, Above
  <2>3. CASE j \in 1 .. n
    <3>1. above(j, s) \in DOMAIN trie1.paramName /\ trie1.paramName[above(j, s)] = routes[j].parts[s].name
      BY <1>4, <2>3 DEF Named
    <3>2. SubSeq(shape(j), 1, s) \in trie1.nodes
      <4>1. SubSeq(shape(j), 1, s) \in Prefixes(shape(j))
        BY <1>3, <2>1 DEF Prefixes
      <4> QED
        BY <2>3, <4>1 DEF Holds
    <3>3. kept(above(j, s)) = trie1.paramName[above(j, s)]
      BY <2>2, <3>2 DEF KeptName
    <3> HIDE DEF more, kept, holes, above
    <3> QED
      BY <1>2, <3>1, <3>3
  <2>4. CASE j = n + 1
    <3>1. above(j, s) \in holes
      <4>1. Hole.param
        BY EdgeIs
      <4>2. s \in { i \in 1 .. Len(path) : path[i].param }
        BY <2>1, <2>4, <4>1
      <4> QED
        BY <2>4, <4>2
    <3>2. route.parts[Len(above(j, s)) + 1].name = routes[j].parts[s].name
      BY <1>3, <2>1, <2>2, <2>4
    <3>3. CASE Append(above(j, s), Hole) \notin trie1.nodes
      <4>1. kept(above(j, s)) = routes[j].parts[s].name
        BY <3>2, <3>3 DEF KeptName
      <4> HIDE DEF more, kept, holes, above
      <4> QED
        BY <1>2, <3>1, <4>1
    <3>4. CASE Append(above(j, s), Hole) \in trie1.nodes
      <4>1. Append(above(j, s), Hole) # <<>>
        BY <1>3, <2>1, <2>2, FirstEdges
      <4>2. PICK i \in 1 .. n : Append(above(j, s), Hole) \in Prefixes(shape(i))
        BY <3>4, <4>1 DEF Holds
      <4>3. PICK l \in 0 .. Len(shape(i)) : SubSeq(shape(j), 1, s) = SubSeq(shape(i), 1, l)
        BY <2>2, <4>2 DEF Prefixes
      <4>4. i \in 1 .. Len(routes) /\ i \in 1 .. n
        BY <2>1
      <4>5. \A r \in 1 .. Len(routes) : \A m \in 1 .. Len(shape(r)) :
               /\ Len(SubSeq(shape(r), 1, m)) = m
               /\ SubSeq(shape(r), 1, m) # <<>>
               /\ SubSeq(shape(r), 1, m)[m] = shape(r)[m]
        BY <1>3, FirstEdges
      <4>6. l # 0
        <5>1. SubSeq(shape(i), 1, 0) = <<>>
          BY SubSeqEmpty
        <5> QED
          BY <2>1, <4>3, <4>5, <5>1
      <4>7. l = s /\ s \in 1 .. Len(shape(i))
        <5>1. l \in 1 .. Len(shape(i))
          BY <1>3, <4>3, <4>4, <4>6
        <5>2. Len(SubSeq(shape(i), 1, l)) = l /\ Len(SubSeq(shape(j), 1, s)) = s
          BY <2>1, <4>4, <4>5, <5>1
        <5> QED
          BY <4>3, <5>1, <5>2
      <4>8. shape(i)[s] = Hole
        <5>1. SubSeq(shape(i), 1, s)[s] = shape(i)[s] /\ SubSeq(shape(j), 1, s)[s] = shape(j)[s]
          BY <2>1, <4>4, <4>5, <4>7
        <5> HIDE DEF shape
        <5> QED
          BY <2>1, <4>3, <4>7, <5>1
      <4>9. routes[i].parts[s].param
        BY <4>4, <4>7, <4>8, EdgeIs, ShapeIs DEF RouteList
      <4>10. above(i, s) = above(j, s)
        <5>1. Len(above(i, s)) = s - 1 /\ Len(above(j, s)) = s - 1 /\ above(i, s) \in Seq(Edges) /\ above(j, s) \in Seq(Edges)
          BY <1>3, <2>1, <4>4, <4>7, Above
        <5>2. Append(above(i, s), Hole) = SubSeq(shape(i), 1, s)
          BY <1>3, <4>4, <4>7, <4>8, Above
        <5>3. Append(above(i, s), Hole) = Append(above(j, s), Hole)
          BY <2>2, <4>3, <4>7, <5>2
        <5> HIDE DEF above
        <5> QED
          BY <5>1, <5>3, EdgeIs, AppendInjective
      <4>11. routes[i].parts[s].name = routes[j].parts[s].name
        <5>1. s <= Len(routes[i].parts)
          BY <1>3, <4>4, <4>7
        <5>2. SubSeq(Shape(routes[j].parts), 1, s) = SubSeq(Shape(routes[i].parts), 1, s)
          BY <4>3, <4>7
        <5>3. routes[j].parts[s].param /\ routes[i].parts[s].param
          BY <1>4, <4>9
        <5> QED
          BY <2>1, <4>4, <5>1, <5>2, <5>3, AgreedName
      <4>12. trie1.paramName[above(i, s)] = routes[i].parts[s].name
        <5>1. s \in 1 .. Len(routes[i].parts)
          BY <1>3, <4>4, <4>7
        <5> QED
          BY <4>4, <4>9, <5>1 DEF Named
      <4>13. kept(above(j, s)) = routes[j].parts[s].name
        BY <3>4, <4>10, <4>11, <4>12 DEF KeptName
      <4> HIDE DEF more, kept, holes, above
      <4> QED
        BY <1>2, <3>1, <4>13
    <3> QED
      BY <3>3, <3>4
  <2> QED
    BY <2>3, <2>4
<1>5. \A j \in 1 .. n + 1 : \A s \in 1 .. Len(routes[j].parts) :
         routes[j].parts[s].param =>
            above(j, s) \in DOMAIN more.paramName /\ more.paramName[above(j, s)] = routes[j].parts[s].name
  BY <1>4
<1> HIDE DEF more
<1>6. Named(more, n + 1)
  BY <1>5 DEF Named
<1> QED
  BY <1>6 DEF more

LEMMA BuildTrieNamed ==
  ASSUME RouteList(routes), NamesAgree
  PROVE  Named(BuildTrie(routes), Len(routes))
<1> DEFINE n == Len(routes)
<1>1. n \in Nat
  BY DEF RouteList
<1>2. PICK f : IsBuilt(f, routes, n) /\ BuildTrie(routes) = f[n]
  BY <1>1, BuildTrieIs
<1> DEFINE S == { k \in 0 .. n : Holds(f[k], routes, k) /\ Named(f[k], k) }
<1>3. 0 \in S
  BY <1>1, <1>2, HoldsNone DEF IsBuilt, Named
<1>4. ASSUME NEW k \in 0 .. n, k \in S, k < n
      PROVE  k + 1 \in S
  <2>1. k \in Nat /\ k + 1 \in 0 .. n /\ k + 1 # 0 /\ (k + 1) - 1 = k /\ k + 1 \in 1 .. n
    BY <1>1, <1>4
  <2>2. f[k + 1] = Insert(f[k], routes[k + 1], k + 1)
    BY <1>2, <2>1 DEF IsBuilt
  <2>3. Holds(f[k], routes, k) /\ Named(f[k], k)
    BY <1>4
  <2> QED
    BY <2>1, <2>2, <2>3, HoldsMore, NamedMore
<1> HIDE DEF S
<1>5. n \in S
  BY <1>1, <1>3, <1>4, Climb
<1> QED
  BY <1>2, <1>5 DEF S

\* x names a placeholder that some route has below a node.
NameBelow(x, node) ==
    \E j \in 1 .. Len(routes) : \E s \in Len(node) + 1 .. Len(routes[j].parts) :
        /\ Extends(Shape(routes[j].parts), node)
        /\ routes[j].parts[s].param /\ routes[j].parts[s].name = x

\* The writes made below a node are the captures of the route that was found there, and
\* removals of what led nowhere.
WritesRight(a, segs, node) ==
    /\ \A x \in DOMAIN a.writes : NameBelow(x, node)
    /\ a.route = None => \A x \in DOMAIN a.writes : a.writes[x] = <<>>
    /\ a.route # None =>
          /\ \A s \in Len(node) + 1 .. Len(segs) :
                routes[a.route].parts[s].param =>
                   /\ routes[a.route].parts[s].name \in DOMAIN a.writes
                   /\ a.writes[routes[a.route].parts[s].name] = <<segs[s]>>
          /\ \A x \in DOMAIN a.writes : a.writes[x] # <<>> =>
                \E s \in Len(node) + 1 .. Len(segs) :
                   routes[a.route].parts[s].param /\ routes[a.route].parts[s].name = x

LEMMA OneParam ==
  ASSUME NEW s \in Segments, s.param
  PROVE  s = [param |-> TRUE, name |-> s.name]
<1>1. s.param = TRUE
  BY DEF Segments
<1> QED
  BY <1>1 DEF Segments

LEMMA ExtendsIs ==
  ASSUME NEW path \in Seq(Edges), NEW node \in Seq(Edges), Extends(path, node)
  PROVE  SubSeq(path, 1, Len(node)) = node
<1>1. Len(node) \in 0 .. Len(path) /\ 1 \in Int /\ Len(node) \in Int /\ \A i \in 1 .. Len(node) : path[i] \in Edges
  BY DEF Extends
<1> DEFINE p == SubSeq(path, 1, Len(node))
<1>2. /\ p \in Seq(Edges) /\ Len(p) = IF 1 <= Len(node) THEN Len(node) - 1 + 1 ELSE 0
      /\ \A i \in 1 .. Len(node) - 1 + 1 : p[i] = path[1 + i - 1]
  BY <1>1, SubSeqProperties
<1> HIDE DEF p
<1>3. Len(p) = Len(node) /\ \A i \in 1 .. Len(p) : p[i] = node[i]
  BY <1>1, <1>2 DEF Extends
<1>4. p = node
  BY <1>2, <1>3, SeqEqual
<1> QED
  BY <1>4 DEF p

LEMMA NameDown ==
  ASSUME RouteList(routes), NEW node \in Seq(Edges), NEW e \in Edges, NEW x, NameBelow(x, Append(node, e))
  PROVE  NameBelow(x, node)
<1> DEFINE next1 == Append(node, e)
<1>1. Len(next1) = Len(node) + 1 /\ Len(node) \in Nat
  BY AppendProperties
<1>2. PICK j \in 1 .. Len(routes) : \E s \in Len(next1) + 1 .. Len(routes[j].parts) :
         /\ Extends(Shape(routes[j].parts), next1)
         /\ routes[j].parts[s].param /\ routes[j].parts[s].name = x
  BY DEF NameBelow
<1>3. PICK s \in Len(next1) + 1 .. Len(routes[j].parts) :
         /\ Extends(Shape(routes[j].parts), next1)
         /\ routes[j].parts[s].param /\ routes[j].parts[s].name = x
  BY <1>2
<1>4. Shape(routes[j].parts) \in Seq(Edges) /\ Len(routes[j].parts) \in Nat
  BY ShapeIs DEF RouteList
<1>5. Extends(Shape(routes[j].parts), node)
  BY <1>3, <1>4, ExtendsAppend
<1>6. s \in Len(node) + 1 .. Len(routes[j].parts)
  BY <1>1, <1>3, <1>4
<1> QED
  BY <1>3, <1>5, <1>6 DEF NameBelow

\* The name kept at a node is the one of each route that goes on with a placeholder.
LEMMA HoleName ==
  ASSUME RouteList(routes), NamesAgree, NEW node \in Seq(Edges), NEW j \in 1 .. Len(routes),
         Extends(Shape(routes[j].parts), Append(node, Hole))
  PROVE  /\ Len(node) + 1 \in 1 .. Len(routes[j].parts)
         /\ Extends(Shape(routes[j].parts), node)
         /\ routes[j].parts[Len(node) + 1].param
         /\ routes[j].parts[Len(node) + 1].name = BuildTrie(routes).paramName[node]
<1> DEFINE d == Len(node) + 1
           path == Shape(routes[j].parts)
<1>1. /\ routes[j].parts \in Seq(Segments) /\ Len(node) \in Nat /\ path \in Seq(Edges)
      /\ Len(path) = Len(routes[j].parts) /\ Len(path) \in Nat
      /\ \A k \in 1 .. Len(path) : path[k] = IF routes[j].parts[k].param THEN Hole ELSE routes[j].parts[k]
  BY ShapeIs DEF RouteList
<1>2. Extends(path, node) /\ Len(node) < Len(path) /\ path[d] = Hole
  BY <1>1, ExtendsAppend, EdgeIs
<1>3. d \in 1 .. Len(path) /\ d - 1 = Len(node)
  BY <1>1, <1>2
<1>4. routes[j].parts[d].param
  BY <1>1, <1>2, <1>3, EdgeIs
<1>5. SubSeq(path, 1, d - 1) = node
  BY <1>1, <1>2, <1>3, ExtendsIs
<1>6. BuildTrie(routes).paramName[SubSeq(path, 1, d - 1)] = routes[j].parts[d].name
  BY <1>1, <1>3, <1>4, BuildTrieNamed DEF Named
<1> QED
  BY <1>1, <1>2, <1>3, <1>4, <1>5, <1>6

\* No route uses that name again further down.
LEMMA NotBelow ==
  ASSUME RouteList(routes), NamesAgree, NEW node \in Seq(Edges)
  PROVE  ~NameBelow(BuildTrie(routes).paramName[node], Append(node, Hole))
<1> DEFINE name == BuildTrie(routes).paramName[node]
           hole == Append(node, Hole)
           d == Len(node) + 1
<1> SUFFICES ASSUME NameBelow(name, hole)
             PROVE  FALSE
  OBVIOUS
<1>1. Len(hole) = d /\ Len(node) \in Nat
  BY AppendProperties, EdgeIs
<1>2. PICK j \in 1 .. Len(routes) : \E s \in Len(hole) + 1 .. Len(routes[j].parts) :
         /\ Extends(Shape(routes[j].parts), hole)
         /\ routes[j].parts[s].param /\ routes[j].parts[s].name = name
  BY DEF NameBelow
<1>3. PICK s \in Len(hole) + 1 .. Len(routes[j].parts) :
         /\ Extends(Shape(routes[j].parts), hole)
         /\ routes[j].parts[s].param /\ routes[j].parts[s].name = name
  BY <1>2
<1>4. d \in 1 .. Len(routes[j].parts) /\ routes[j].parts[d].param /\ routes[j].parts[d].name = name
  BY <1>3, HoleName
<1>5. /\ routes[j].parts \in Seq(Segments) /\ Len(routes[j].parts) \in Nat
      /\ s \in 1 .. Len(routes[j].parts) /\ s # d
  BY <1>1, <1>3 DEF RouteList
<1>6. routes[j].parts[s] # routes[j].parts[d]
  BY <1>3, <1>4, <1>5 DEF NamesAgree
<1>7. routes[j].parts[s] \in Segments /\ routes[j].parts[d] \in Segments
  BY <1>4, <1>5
<1>8. routes[j].parts[s] = [param |-> TRUE, name |-> name] /\ routes[j].parts[d] = [param |-> TRUE, name |-> name]
  BY <1>3, <1>4, <1>7, OneParam
<1> QED
  BY <1>6, <1>8

LEMMA StaticWrites ==
  ASSUME RouteList(routes), NEW segs \in Seq(STRING), NEW method, NEW node \in Seq(Edges), Len(node) < Len(segs),
         NEW a, Right(a.route, segs, method, Append(node, Lit(segs[Len(node) + 1]))),
         WritesRight(a, segs, Append(node, Lit(segs[Len(node) + 1])))
  PROVE  WritesRight(a, segs, node)
<1> DEFINE d == Len(node) + 1
           child == Append(node, Lit(segs[d]))
           parts == routes[a.route].parts
<1>1. Len(node) \in Nat /\ segs[d] \in STRING /\ Len(segs) \in Nat
  OBVIOUS
<1>2. Lit(segs[d]) \in Edges /\ Lit(segs[d]) # Hole
  BY <1>1, EdgeIs
<1>3. Len(child) = d
  BY <1>2, AppendProperties
<1>4. \A x \in DOMAIN a.writes : NameBelow(x, node)
  BY <1>2, NameDown DEF WritesRight
<1>5. ASSUME a.route # None
      PROVE  /\ \A s \in Len(node) + 1 .. Len(segs) :
                   parts[s].param => parts[s].name \in DOMAIN a.writes /\ a.writes[parts[s].name] = <<segs[s]>>
             /\ \A x \in DOMAIN a.writes : a.writes[x] # <<>> =>
                   \E s \in Len(node) + 1 .. Len(segs) : parts[s].param /\ parts[s].name = x
  <2>1. a.route \in 1 .. Len(routes) /\ Len(parts) = Len(segs) /\ Extends(Shape(parts), child)
    BY <1>5 DEF Right, Suits
  <2>2. /\ Shape(parts) \in Seq(Edges) /\ Len(Shape(parts)) = Len(segs)
        /\ \A k \in 1 .. Len(segs) : Shape(parts)[k] = IF parts[k].param THEN Hole ELSE parts[k]
    BY <2>1, ShapeIs DEF RouteList
  <2>3. Shape(parts)[d] = Lit(segs[d])
    BY <1>2, <2>1, <2>2, ExtendsAppend
  <2>4. ~parts[d].param
    BY <1>1, <1>2, <2>2, <2>3
  <2>5. d .. Len(segs) = {d} \cup (d + 1 .. Len(segs))
    BY <1>1
  <2>6. /\ \A s \in d + 1 .. Len(segs) :
              parts[s].param => parts[s].name \in DOMAIN a.writes /\ a.writes[parts[s].name] = <<segs[s]>>
        /\ \A x \in DOMAIN a.writes : a.writes[x] # <<>> =>
              \E s \in d + 1 .. Len(segs) : parts[s].param /\ parts[s].name = x
    BY <1>3, <1>5 DEF WritesRight
  <2> HIDE DEF parts
  <2> QED
    BY <2>4, <2>5, <2>6
<1> QED
  BY <1>4, <1>5 DEF WritesRight

LEMMA HoleWrites ==
  ASSUME RouteList(routes), NamesAgree, NEW segs \in Seq(STRING), NEW method, NEW node \in Seq(Edges),
         Len(node) < Len(segs), Append(node, Hole) \in BuildTrie(routes).nodes,
         NEW v, v.route = None, WritesRight(v, segs, Append(node, Lit(segs[Len(node) + 1]))),
         NEW h, WritesRight(h, segs, Append(node, Hole)), Right(h.route, segs, method, Append(node, Hole))
  PROVE  WritesRight([ route  |-> h.route,
                       writes |-> Over(CaptureWrites(BuildTrie(routes).paramName[node], segs[Len(node) + 1], h), v.writes) ],
                     segs, node)
<1> DEFINE d == Len(node) + 1
           head == segs[d]
           child == Append(node, Lit(head))
           hole == Append(node, Hole)
           name == BuildTrie(routes).paramName[node]
           first == CaptureWrites(name, head, h)
           w == Over(first, v.writes)
           parts == routes[h.route].parts
<1>1. Len(node) \in Nat /\ head \in STRING /\ Len(segs) \in Nat
  OBVIOUS
<1>2. Lit(head) \in Edges /\ Hole \in Edges /\ Hole.param
  BY <1>1, EdgeIs
<1>3. Len(child) = d /\ Len(hole) = d
  BY <1>2, AppendProperties
<1>4. /\ DOMAIN w = DOMAIN first \cup DOMAIN v.writes
      /\ \A x \in DOMAIN w : w[x] = IF x \in DOMAIN first THEN first[x] ELSE v.writes[x]
  BY DEF Over
<1>5. DOMAIN first = {name} \cup DOMAIN h.writes
  BY DEF CaptureWrites, With, Over, NoWrites
<1>6. h.route = None => \A x \in DOMAIN first : first[x] = IF x = name THEN <<>> ELSE h.writes[x]
  BY DEF CaptureWrites, With, Over
<1>7. h.route # None => \A x \in DOMAIN first : first[x] = IF x \in DOMAIN h.writes THEN h.writes[x] ELSE <<head>>
  BY DEF CaptureWrites, With, Over, NoWrites
<1>8. /\ \A x \in DOMAIN v.writes : NameBelow(x, child) /\ v.writes[x] = <<>>
      /\ \A x \in DOMAIN h.writes : NameBelow(x, hole)
      /\ h.route = None => \A x \in DOMAIN h.writes : h.writes[x] = <<>>
  BY DEF WritesRight
<1>9. NameBelow(name, node)
  <2>1. hole # <<>>
    BY <1>2, AppendProperties
  <2>2. PICK j \in 1 .. Len(routes) : Extends(Shape(routes[j].parts), hole)
    BY <2>1, Nodes
  <2>3. /\ d \in 1 .. Len(routes[j].parts) /\ Extends(Shape(routes[j].parts), node)
        /\ routes[j].parts[d].param /\ routes[j].parts[d].name = name
    BY <2>2, HoleName
  <2>4. d \in Len(node) + 1 .. Len(routes[j].parts)
    BY <1>1, <2>3
  <2> QED
    BY <2>3, <2>4 DEF NameBelow
<1>10. name \notin DOMAIN h.writes
  BY <1>8, NotBelow
<1>11. \A x \in DOMAIN w : NameBelow(x, node)
  <2>1. \A x : NameBelow(x, child) \/ NameBelow(x, hole) => NameBelow(x, node)
    BY <1>2, NameDown
  <2> HIDE DEF w, first, child, hole, name
  <2> QED
    BY <1>4, <1>5, <1>8, <1>9, <2>1
<1> HIDE DEF w, first
<1>12. h.route = None => \A x \in DOMAIN w : w[x] = <<>>
  BY <1>4, <1>5, <1>6, <1>8
<1>13. ASSUME h.route # None
       PROVE  /\ \A s \in Len(node) + 1 .. Len(segs) :
                    parts[s].param => parts[s].name \in DOMAIN w /\ w[parts[s].name] = <<segs[s]>>
              /\ \A x \in DOMAIN w : w[x] # <<>> =>
                    \E s \in Len(node) + 1 .. Len(segs) : parts[s].param /\ parts[s].name = x
  <2>1. h.route \in 1 .. Len(routes) /\ Len(parts) = Len(segs) /\ Extends(Shape(parts), hole)
    BY <1>13 DEF Right, Suits
  <2>2. parts[d].param /\ parts[d].name = name
    BY <2>1, HoleName
  <2>3. d .. Len(segs) = {d} \cup (d + 1 .. Len(segs)) /\ d \in d .. Len(segs)
    BY <1>1
  <2>4. /\ \A s \in d + 1 .. Len(segs) :
              parts[s].param => parts[s].name \in DOMAIN h.writes /\ h.writes[parts[s].name] = <<segs[s]>>
        /\ \A x \in DOMAIN h.writes : h.writes[x] # <<>> =>
              \E s \in d + 1 .. Len(segs) : parts[s].param /\ parts[s].name = x
    BY <1>3, <1>13 DEF WritesRight
  <2>5. \A x \in DOMAIN h.writes : x \in DOMAIN w /\ w[x] = h.writes[x]
    BY <1>4, <1>5, <1>7, <1>13
  <2>6. name \in DOMAIN w /\ w[name] = <<head>>
    BY <1>4, <1>5, <1>7, <1>10, <1>13
  <2> HIDE DEF parts, name
  <2>7. \A s \in d .. Len(segs) :
           parts[s].param => parts[s].name \in DOMAIN w /\ w[parts[s].name] = <<segs[s]>>
    BY <2>2, <2>3, <2>4, <2>5, <2>6
  <2>8. ASSUME NEW x \in DOMAIN w, w[x] # <<>>
        PROVE  \E s \in d .. Len(segs) : parts[s].param /\ parts[s].name = x
    <3>1. CASE x \in DOMAIN h.writes
      <4>1. PICK s \in d + 1 .. Len(segs) : parts[s].param /\ parts[s].name = x
        BY <2>4, <2>5, <2>8, <3>1
      <4> QED
        BY <2>3, <4>1
    <3>2. CASE x = name
      BY <2>2, <2>3, <3>2
    <3>3. CASE x \notin DOMAIN h.writes /\ x # name
      BY <1>4, <1>5, <1>8, <2>8, <3>3
    <3> QED
      BY <3>1, <3>2, <3>3
  <2> QED
    BY <2>7, <2>8
<1> DEFINE a == [route |-> h.route, writes |-> w]
<1>14. a.route = h.route /\ a.writes = w
  OBVIOUS
<1> HIDE DEF a
<1>15. WritesRight(a, segs, node)
  BY <1>11, <1>12, <1>13, <1>14 DEF WritesRight
<1> QED
  BY <1>15 DEF a, w, first

LEMMA NoWritesRight ==
  ASSUME NEW segs, NEW node
  PROVE  WritesRight([route |-> None, writes |-> NoWrites], segs, node)
BY DEF WritesRight, NoWrites

LEMMA StepWrites ==
  ASSUME RouteList(routes), NamesAgree, NEW segs \in Seq(STRING), NEW method,
         NEW node \in BuildTrie(routes).nodes, Len(node) < Len(segs), NEW f,
         \A x \in BuildTrie(routes).nodes : Len(x) = Len(node) + 1 =>
            Right(f[x].route, segs, method, x) /\ WritesRight(f[x], segs, x)
  PROVE  WritesRight(Answer(BuildTrie(routes), segs, method, f, node), segs, node)
<1> DEFINE t == BuildTrie(routes)
           n == Len(routes)
           head  == segs[Len(node) + 1]
           child == Append(node, Lit(head))
           hole  == Append(node, Hole)
           miss  == [route |-> None, writes |-> NoWrites]
           viaStatic == IF child \in t.nodes THEN f[child] ELSE miss
           viaHole == IF hole \in t.nodes THEN f[hole] ELSE miss
           answer == Answer(t, segs, method, f, node)
<1>1. /\ node \in Seq(Edges) /\ head \in STRING
      /\ \A x \in Seq(Edges), j \in 1 .. n : Extends(Shape(routes[j].parts), x) => x \in t.nodes
  BY Nodes
<1>2. child \in Seq(Edges) /\ hole \in Seq(Edges) /\ Len(child) = Len(node) + 1 /\ Len(hole) = Len(node) + 1
  BY <1>1, EdgeIs, AppendProperties
<1>3. Len(node) # Len(segs)
  OBVIOUS
<1>4. answer = IF StaticDecides(child \in t.nodes, viaStatic) \/ hole \notin t.nodes
               THEN viaStatic
               ELSE [route |-> viaHole.route, writes |-> Over(CaptureWrites(t.paramName[node], head, viaHole), viaStatic.writes)]
  BY <1>3 DEF Answer
<1>5. \A x \in {child, hole} : x \notin t.nodes => \A j \in 1 .. n : ~Suits(j, segs, method, x)
  BY <1>1, <1>2 DEF Suits
<1>6. WritesRight(viaStatic, segs, child) /\ Right(viaStatic.route, segs, method, child)
  <2>1. CASE child \in t.nodes
    BY <1>2, <2>1
  <2>2. CASE child \notin t.nodes
    <3>1. viaStatic = miss /\ miss.route = None
      BY <2>2
    <3>2. Right(None, segs, method, child)
      BY <1>5, <2>2 DEF Right
    <3> HIDE DEF viaStatic
    <3> QED
      BY <3>1, <3>2, NoWritesRight
  <2> QED
    BY <2>1, <2>2
<1>7. hole \in t.nodes => WritesRight(viaHole, segs, hole) /\ Right(viaHole.route, segs, method, hole)
  BY <1>2
<1> SUFFICES WritesRight(answer, segs, node)
  OBVIOUS
<1> HIDE DEF viaStatic, viaHole, answer, miss
<1>8. CASE StaticDecides(child \in t.nodes, viaStatic) \/ hole \notin t.nodes
  <2>1. answer = viaStatic
    BY <1>4, <1>8
  <2>2. WritesRight(viaStatic, segs, node)
    BY <1>1, <1>6, StaticWrites
  <2> QED
    BY <2>1, <2>2
<1>9. CASE ~(StaticDecides(child \in t.nodes, viaStatic) \/ hole \notin t.nodes)
  <2>1. answer = [route |-> viaHole.route, writes |-> Over(CaptureWrites(t.paramName[node], head, viaHole), viaStatic.writes)]
    BY <1>4, <1>9
  <2>2. hole \in t.nodes
    BY <1>9
  <2>3. viaStatic.route = None
    <3>1. CASE child \in t.nodes
      BY <1>9, <3>1 DEF StaticDecides
    <3>2. CASE child \notin t.nodes
      BY <3>2 DEF viaStatic, miss
    <3> QED
      BY <3>1, <3>2
  <2>4. WritesRight([route |-> viaHole.route, writes |-> Over(CaptureWrites(t.paramName[node], head, viaHole), viaStatic.writes)], segs, node)
    BY <1>1, <1>6, <1>7, <2>2, <2>3, HoleWrites
  <2> QED
    BY <2>1, <2>4
<1> QED
  BY <1>8, <1>9

LEMMA FoundWrites ==
  ASSUME RouteList(routes), NamesAgree, NEW segs \in Seq(STRING), NEW method, NEW f, IsBelow(f, segs, method, 0)
  PROVE  \A node \in BuildTrie(routes).nodes : Len(node) <= Len(segs) => WritesRight(f[node], segs, node)
<1> DEFINE t == BuildTrie(routes)
           L == Len(segs)
           S == { d \in 0 .. L : \A node \in t.nodes : L - d <= Len(node) /\ Len(node) <= L
                                      => WritesRight(f[node], segs, node) }
<1>1. L \in Nat /\ \A x \in t.nodes : Len(x) \in Nat
  BY Nodes
<1>2. \A node \in t.nodes : Len(node) <= L => f[node] = Answer(t, segs, method, f, node)
  BY <1>1 DEF IsBelow
<1>3. 0 \in S
  <2> SUFFICES ASSUME NEW node \in t.nodes, L - 0 <= Len(node), Len(node) <= L
               PROVE  WritesRight(f[node], segs, node)
    BY <1>1
  <2>1. Len(node) = L /\ Len(node) + 1 .. L = {}
    BY <1>1
  <2> DEFINE a == [route |-> PickByMethod(t, node, method), writes |-> NoWrites]
  <2>2. f[node] = a
    <3>1. f[node] = Answer(t, segs, method, f, node)
      BY <1>2
    <3>2. Answer(t, segs, method, f, node) = a
      BY <2>1 DEF Answer
    <3> QED
      BY <3>1, <3>2
  <2>3. DOMAIN a.writes = {}
    BY DEF NoWrites
  <2> HIDE DEF a
  <2>4. WritesRight(a, segs, node)
    BY <2>1, <2>3 DEF WritesRight
  <2> QED
    BY <2>2, <2>4
<1>4. ASSUME NEW d \in 0 .. L, d \in S, d < L
      PROVE  d + 1 \in S
  <2>1. d + 1 \in 0 .. L
    BY <1>1, <1>4
  <2> SUFFICES ASSUME NEW node \in t.nodes, L - (d + 1) <= Len(node), Len(node) <= L
               PROVE  WritesRight(f[node], segs, node)
    BY <2>1
  <2>2. CASE L - d <= Len(node)
    BY <1>4, <2>2
  <2>3. CASE ~(L - d <= Len(node))
    <3>1. Len(node) < L /\ Len(node) + 1 = L - d
      BY <1>1, <2>1, <2>3
    <3>2. \A x \in t.nodes : Len(x) = Len(node) + 1 => WritesRight(f[x], segs, x)
      BY <1>1, <1>4, <3>1
    <3>3. \A x \in t.nodes : Len(x) = Len(node) + 1 => Right(f[x].route, segs, method, x)
      BY <1>1, <3>1, FoundRight
    <3>4. f[node] = Answer(t, segs, method, f, node)
      BY <1>2
    <3> QED
      BY <3>1, <3>2, <3>3, <3>4, StepWrites
  <2> QED
    BY <2>2, <2>3
<1> HIDE DEF S
<1>5. L \in S
  BY <1>1, <1>3, <1>4, Climb
<1>6. L - L = 0
  BY <1>1
<1> QED
  BY <1>1, <1>5, <1>6 DEF S

LEMMA ParamsAsScanned ==
  ASSUME RouteList(routes)
  PROVE  ParamsWhenNamesAgree
<1> SUFFICES ASSUME NamesAgree, NEW path \in Urls, NEW method \in Methods,
                    Match(BuildTrie(routes), path, method).route # None
             PROVE  Match(BuildTrie(routes), path, method).params
                      = Captured(routes[Match(BuildTrie(routes), path, method).route].parts, path)
  BY DEF ParamsWhenNamesAgree
<1> DEFINE found == MatchSegs(BuildTrie(routes), path, method)
           parts == routes[found.route].parts
           kept == { x \in DOMAIN found.writes : found.writes[x] # <<>> }
           holes == { k \in 1 .. Len(parts) : parts[k].param }
           last(x) == CHOOSE k \in holes : parts[k].name = x /\ \A j \in holes : parts[j].name = x => j <= k
<1>1. path \in Seq(STRING)
  BY WebAssumption
<1>2. /\ Match(BuildTrie(routes), path, method).route = found.route /\ found.route # None
      /\ Match(BuildTrie(routes), path, method).params = [x \in kept |-> found.writes[x][1]]
  BY DEF Match
<1>3. Right(found.route, path, method, <<>>)
  BY <1>1, <1>2, LookupRight
<1>4. found.route \in 1 .. Len(routes) /\ Len(parts) = Len(path)
  BY <1>2, <1>3 DEF Right, Suits
<1>5. WritesRight(found, path, <<>>)
  <2>1. PICK f : IsBelow(f, path, method, 0) /\ found = f[<<>>]
    BY <1>1, MatchSegsIs
  <2>2. <<>> \in BuildTrie(routes).nodes /\ Len(<<>>) <= Len(path)
    BY <1>1, Nodes
  <2> HIDE DEF found
  <2> QED
    BY <1>1, <2>1, <2>2, FoundWrites
<1>6. /\ \A s \in holes : parts[s].name \in DOMAIN found.writes /\ found.writes[parts[s].name] = <<path[s]>>
      /\ \A x \in DOMAIN found.writes : found.writes[x] # <<>> => \E s \in holes : parts[s].name = x
  <2>1. Len(<<>>) + 1 .. Len(path) = 1 .. Len(parts)
    BY <1>1, <1>4
  <2>2. /\ \A s \in 1 .. Len(parts) : parts[s].param =>
              parts[s].name \in DOMAIN found.writes /\ found.writes[parts[s].name] = <<path[s]>>
        /\ \A x \in DOMAIN found.writes : found.writes[x] # <<>> =>
              \E s \in 1 .. Len(parts) : parts[s].param /\ parts[s].name = x
    BY <1>2, <1>5, <2>1 DEF WritesRight
  <2> HIDE DEF parts, found
  <2> QED
    BY <2>2
<1>7. \A s, k \in holes : parts[s].name = parts[k].name => s = k
  <2> SUFFICES ASSUME NEW s \in holes, NEW k \in holes, parts[s].name = parts[k].name, s # k
               PROVE  FALSE
    OBVIOUS
  <2>1. parts[s] # parts[k]
    BY <1>4 DEF NamesAgree
  <2>2. parts[s] \in Segments /\ parts[k] \in Segments /\ parts[s].param /\ parts[k].param
    BY <1>4 DEF RouteList
  <2> HIDE DEF parts
  <2>3. parts[s] = [param |-> TRUE, name |-> parts[s].name] /\ parts[k] = [param |-> TRUE, name |-> parts[k].name]
    BY <2>2, OneParam
  <2> QED
    BY <2>1, <2>3
<1>8. Captured(parts, path) = [x \in { parts[k].name : k \in holes } |-> path[last(x)]]
  BY DEF Captured
<1>9. \A s \in holes : last(parts[s].name) = s
  <2>1. holes \subseteq Nat
    OBVIOUS
  <2> HIDE DEF holes, parts
  <2>2. ASSUME NEW s \in holes
        PROVE  last(parts[s].name) = s
    <3>1. parts[s].name = parts[s].name /\ \A j \in holes : parts[j].name = parts[s].name => j <= s
      BY <1>7, <2>1
    <3>2. \A k \in holes : parts[k].name = parts[s].name /\ (\A j \in holes : parts[j].name = parts[s].name => j <= k) => k = s
      BY <1>7
    <3> QED
      BY <3>1, <3>2
  <2> QED
    BY <2>2
<1> HIDE DEF parts, found, holes, last
<1>10. kept = { parts[k].name : k \in holes }
  <2>1. \A s \in holes : <<path[s]>> # <<>> /\ <<path[s]>>[1] = path[s]
    OBVIOUS
  <2>2. ASSUME NEW s \in holes
        PROVE  parts[s].name \in kept
    BY <1>6, <2>1
  <2>3. ASSUME NEW x \in kept
        PROVE  \E s \in holes : x = parts[s].name
    BY <1>6
  <2> HIDE DEF kept
  <2> QED
    BY <2>2, <2>3
<1>11. \A s \in holes : found.writes[parts[s].name][1] = path[last(parts[s].name)]
  BY <1>6, <1>9
<1>12. [x \in kept |-> found.writes[x][1]] = Captured(parts, path)
  <2> DEFINE names == { parts[k].name : k \in holes }
  <2>1. \A x \in names : found.writes[x][1] = path[last(x)]
    BY <1>11
  <2> HIDE DEF kept
  <2> QED
    BY <1>8, <1>10, <2>1
<1> QED
  BY <1>2, <1>12 DEF parts

-----------------------------------------------------------------------------
(* Loading *)

Group == [prefix : Seq(Segments), localUse : Seq(Middlewares), saved : Seq(Middlewares)]

\* The statements loaded so far, and the groups that are open.
Progress ==
    /\ program \in Programs
    /\ next \in 1 .. Len(program) + 1
    /\ groups \in Seq(Group)
    /\ Len(groups) = Depth(program, next - 1)

\* Where the `use's outside every group are that have been loaded.
Used == { k \in TopUses(program) : k < next }

\* No `use' reaches the global list while a group is open, so that what each
\* group restores is what the list still is.
Global ==
    /\ useGlobal \in Seq(Middlewares) /\ useCap \in Nat
    /\ \A g \in 1 .. Len(groups) : groups[g].saved = useGlobal
    /\ NamesAt(useGlobal, program, Used)

Registered ==
    /\ \E S : routes \in Seq(S)
    /\ \A k \in 1 .. Len(routes) :
          /\ routes[k].parts \in Seq(Segments)
          /\ routes[k].middlewares \in Seq(Middlewares)
          /\ routes[k].depth <= 1 => routes[k].middlewares = routes[k].inScope

Loaded == Progress /\ Global /\ Registered

LEMMA RegisteredRoutes ==
  ASSUME Registered
  PROVE  RouteList(routes)
BY DEF Registered, RouteList

LEMMA CountNone ==
  ASSUME NEW stmts, NEW op
  PROVE  Count(stmts, op, 0) = 0
<1>1. { j \in 1 .. 0 : stmts[j].op = op } = {}
  OBVIOUS
<1> QED
  BY <1>1, FS_EmptySet DEF Count

LEMMA CountMore ==
  ASSUME NEW stmts, NEW op, NEW k \in Nat
  PROVE  /\ Count(stmts, op, k) \in Nat
         /\ Count(stmts, op, k + 1) = Count(stmts, op, k) + (IF stmts[k + 1].op = op THEN 1 ELSE 0)
<1> DEFINE A(n) == { j \in 1 .. n : stmts[j].op = op }
<1>1. ASSUME NEW n \in Nat
      PROVE  IsFiniteSet(A(n)) /\ Cardinality(A(n)) \in Nat
  <2>1. IsFiniteSet(1 .. n)
    BY FS_Interval
  <2>2. IsFiniteSet(A(n))
    BY <2>1, FS_Subset
  <2> QED
    BY <2>2, FS_CardinalityType
<1>2. 1 .. k + 1 = (1 .. k) \cup {k + 1} /\ k + 1 \notin 1 .. k
  OBVIOUS
<1>3. CASE stmts[k + 1].op = op
  <2>1. A(k + 1) = A(k) \cup {k + 1} /\ k + 1 \notin A(k)
    BY <1>2, <1>3
  <2>2. Cardinality(A(k) \cup {k + 1}) = IF k + 1 \in A(k) THEN Cardinality(A(k)) ELSE Cardinality(A(k)) + 1
    BY <1>1, FS_AddElement, Zenon
  <2> HIDE DEF A
  <2>3. Cardinality(A(k + 1)) = Cardinality(A(k)) + 1
    BY <2>1, <2>2
  <2> QED
    BY <1>1, <1>3, <2>3 DEF Count, A
<1>4. CASE stmts[k + 1].op # op
  <2>1. A(k + 1) = A(k)
    BY <1>2, <1>4
  <2>2. Cardinality(A(k)) \in Nat
    BY <1>1
  <2>3. Count(stmts, op, k) = Cardinality(A(k)) /\ Count(stmts, op, k + 1) = Cardinality(A(k + 1))
    BY DEF Count
  <2> HIDE DEF A
  <2> QED
    BY <1>4, <2>1, <2>2, <2>3
<1> QED
  BY <1>3, <1>4

LEMMA StatementIs ==
  ASSUME Progress, Loading
  PROVE  /\ next \in Nat \ {0} /\ next \in 1 .. Len(program) /\ Len(program) \in Nat
         /\ program[next].op = "use" => program[next].name \in Middlewares
         /\ program[next].op = "group" => program[next].parts \in Seq(Segments)
         /\ program[next].op = "route" => program[next].parts \in Seq(Segments) /\ program[next].uses \in Seq(Middlewares)
<1>1. program \in Seq(Statements)
  BY WebAssumption DEF Progress
<1>2. next \in 1 .. Len(program) /\ Len(program) \in Nat
  BY <1>1 DEF Progress, Loading
<1> DEFINE s == program[next]
<1>3. s \in Statements
  BY <1>1, <1>2
<1> HIDE DEF s
<1>4. \/ s \in [op : {"middleware", "use"}, name : Middlewares]
      \/ s \in [op : {"route"}, method : STRING, parts : Seq(Segments), uses : Seq(Middlewares)]
      \/ s \in [op : {"group"}, parts : Seq(Segments)]
      \/ s \in [op : {"end"}]
      \/ s \in [op : {"server"}, settings : UNION { [on -> BOOLEAN] : on \in SUBSET Switches }]
  BY <1>3 DEF Statements
<1>5. /\ s.op = "use" => s.name \in Middlewares
      /\ s.op = "group" => s.parts \in Seq(Segments)
      /\ s.op = "route" => s.parts \in Seq(Segments) /\ s.uses \in Seq(Middlewares)
  <2>1. CASE s \in [op : {"middleware", "use"}, name : Middlewares]
    BY <2>1
  <2>2. CASE s \in [op : {"route"}, method : STRING, parts : Seq(Segments), uses : Seq(Middlewares)]
    BY <2>2
  <2>3. CASE s \in [op : {"group"}, parts : Seq(Segments)]
    BY <2>3
  <2>4. CASE s \in [op : {"end"}]
    BY <2>4
  <2>5. CASE s \in [op : {"server"}, settings : UNION { [on -> BOOLEAN] : on \in SUBSET Switches }]
    <3>1. s.op = "server"
      BY <2>5
    <3> QED
      BY <3>1
  <2> QED
    BY <1>4, <2>1, <2>2, <2>3, <2>4, <2>5
<1> QED
  BY <1>2, <1>5 DEF s

\* How the depth goes on with the next statement.
LEMMA DepthNext ==
  ASSUME Progress, Loading
  PROVE  /\ program[next].op = "group" => Depth(program, next) = Len(groups) + 1
         /\ program[next].op = "end" => Len(groups) # 0 /\ Depth(program, next) = Len(groups) - 1
         /\ program[next].op \notin {"group", "end"} => Depth(program, next) = Len(groups)
<1>1. /\ next - 1 \in Nat /\ (next - 1) + 1 = next /\ next \in 1 .. Len(program)
  BY StatementIs
<1> DEFINE opened(k) == Count(program, "group", k)
           ended(k)  == Count(program, "end", k)
           s == program[next]
<1>2. opened(next - 1) \in Nat /\ opened(next) = opened(next - 1) + (IF s.op = "group" THEN 1 ELSE 0)
  <2>1. ASSUME NEW k \in Nat
        PROVE  /\ opened(k) \in Nat
               /\ opened(k + 1) = opened(k) + (IF program[k + 1].op = "group" THEN 1 ELSE 0)
    BY CountMore
  <2> HIDE DEF opened
  <2> QED
    BY <1>1, <2>1
<1>3. ended(next - 1) \in Nat /\ ended(next) = ended(next - 1) + (IF s.op = "end" THEN 1 ELSE 0)
  <2>1. ASSUME NEW k \in Nat
        PROVE  /\ ended(k) \in Nat
               /\ ended(k + 1) = ended(k) + (IF program[k + 1].op = "end" THEN 1 ELSE 0)
    BY CountMore
  <2> HIDE DEF ended
  <2> QED
    BY <1>1, <2>1
<1>4. Len(groups) = opened(next - 1) - ended(next - 1)
  BY DEF Progress, Depth
<1>5. ended(next) <= opened(next)
  BY <1>1, WebAssumption DEF Progress
<1>6. Depth(program, next) = opened(next) - ended(next)
  BY DEF Depth
<1> HIDE DEF opened, ended
<1>7. CASE s.op = "group"
  BY <1>2, <1>3, <1>4, <1>6, <1>7
<1>8. CASE s.op = "end"
  BY <1>2, <1>3, <1>4, <1>5, <1>6, <1>8
<1>9. CASE s.op # "group" /\ s.op # "end"
  BY <1>2, <1>3, <1>4, <1>6, <1>9
<1> QED
  BY <1>7, <1>8, <1>9

\* One list of middlewares, or none, is flat.
LEMMA FlattenShort ==
  ASSUME NEW seqs
  PROVE  /\ Len(seqs) = 0 => FlattenSeq(seqs) = seqs
         /\ Len(seqs) = 1 => FlattenSeq(seqs) = seqs[1]
<1>1. ASSUME Len(seqs) = 1
      PROVE  FlattenSeq(seqs) = seqs[1]
  <2> DEFINE flatten == CHOOSE f : f = [i \in 1 .. Len(seqs) |-> IF i = 1 THEN seqs[i] ELSE f[i - 1] \o seqs[i]]
             g == [i \in 1 .. Len(seqs) |-> seqs[i]]
  <2>1. g = [i \in 1 .. Len(seqs) |-> IF i = 1 THEN seqs[i] ELSE g[i - 1] \o seqs[i]]
    BY <1>1
  <2>2. flatten = [i \in 1 .. Len(seqs) |-> IF i = 1 THEN seqs[i] ELSE flatten[i - 1] \o seqs[i]]
    <3> HIDE DEF g
    <3> QED
      BY <2>1
  <2>3. FlattenSeq(seqs) = flatten[Len(seqs)]
    BY <1>1 DEF FlattenSeq
  <2> HIDE DEF flatten
  <2>4. flatten[1] = seqs[1]
    BY <1>1, <2>2
  <2> QED
    BY <1>1, <2>3, <2>4
<1> QED
  BY <1>1 DEF FlattenSeq

\* The next statement is a `use' outside every group.
LEMMA TopUseNext ==
  ASSUME Progress, Loading
  PROVE  next \in TopUses(program) <=> program[next].op = "use" /\ groups = <<>>
<1>1. next \in 1 .. Len(program) /\ program \in Seq(Statements)
  BY StatementIs, WebAssumption DEF Progress
<1>2. DOMAIN program = 1 .. Len(program)
  BY <1>1
<1>3. groups = <<>> <=> Len(groups) = 0
  BY DEF Progress
<1>4. program[next].op = "use" => Depth(program, next) = Len(groups)
  BY DepthNext
<1> QED
  BY <1>1, <1>2, <1>3, <1>4 DEF TopUses

\* The uses passed once the next statement is loaded.
LEMMA UsedNext ==
  ASSUME Progress, Loading, program' = program, next' = next + 1
  PROVE  Used' = IF next \in TopUses(program) THEN Used \cup {next} ELSE Used
<1>1. program \in Seq(Statements) /\ next \in Nat
  BY StatementIs, WebAssumption DEF Progress
<1>2. TopUses(program) \subseteq Nat
  BY <1>1 DEF TopUses
<1>3. Used' = { k \in TopUses(program) : k < next + 1 }
  BY DEF Used
<1> QED
  BY <1>1, <1>2, <1>3 DEF Used

LEMMA NamesMore ==
  ASSUME NEW stmts, NEW names, NEW places, NEW k \in Nat,
         \E S : names \in Seq(S), places \subseteq Nat, \A p \in places : p < k,
         NamesAt(names, stmts, places)
  PROVE  NamesAt(Append(names, stmts[k].name), stmts, places \cup {k})
<1>1. PICK S : names \in Seq(S)
  OBVIOUS
<1> DEFINE n == Len(names)
           more == Append(names, stmts[k].name)
<1>2. n \in Nat /\ DOMAIN names = 1 .. n
  BY <1>1
<1>3. /\ DOMAIN more = 1 .. n + 1
      /\ \A i \in 1 .. n : more[i] = names[i]
      /\ more[n + 1] = stmts[k].name
  BY <1>1
<1>4. PICK at \in [1 .. n -> places] :
        /\ \A i, j \in 1 .. n : i < j => at[i] < at[j]
        /\ \A p \in places : \E i \in 1 .. n : at[i] = p
        /\ \A i \in 1 .. n : names[i] = stmts[at[i]].name
  BY <1>2 DEF NamesAt
<1> DEFINE all == [i \in 1 .. n + 1 |-> IF i = n + 1 THEN k ELSE at[i]]
<1> HIDE DEF n, more
<1>5. \A i \in 1 .. n + 1 : i = n + 1 \/ i \in 1 .. n
  BY <1>2
<1>6. \A i \in 1 .. n : i # n + 1 /\ i \in 1 .. n + 1
  BY <1>2
<1>7. all \in [1 .. n + 1 -> places \cup {k}]
  BY <1>4, <1>5
<1>8. \A i, j \in 1 .. n + 1 : i < j => all[i] < all[j]
  <2> SUFFICES ASSUME NEW i \in 1 .. n + 1, NEW j \in 1 .. n + 1, i < j
               PROVE  all[i] < all[j]
    OBVIOUS
  <2>1. i \in 1 .. n
    BY <1>2
  <2>2. all[i] = at[i] /\ at[i] \in places
    BY <1>4, <1>6, <2>1
  <2>3. CASE j = n + 1
    BY <2>2, <2>3
  <2>4. CASE j \in 1 .. n
    <3>1. all[j] = at[j]
      BY <1>6, <2>4
    <3> QED
      BY <1>4, <2>1, <2>2, <2>4, <3>1
  <2> QED
    BY <1>5, <2>3, <2>4
<1>9. \A p \in places \cup {k} : \E i \in 1 .. n + 1 : all[i] = p
  <2> SUFFICES ASSUME NEW p \in places \cup {k}
               PROVE  \E i \in 1 .. n + 1 : all[i] = p
    OBVIOUS
  <2>1. CASE p = k
    <3>1. n + 1 \in 1 .. n + 1 /\ all[n + 1] = k
      BY <1>2
    <3> QED
      BY <2>1, <3>1
  <2>2. CASE p \in places
    <3>1. PICK i \in 1 .. n : at[i] = p
      BY <1>4, <2>2
    <3>2. i \in 1 .. n + 1 /\ all[i] = p
      BY <1>6, <3>1
    <3> QED
      BY <3>2
  <2> QED
    BY <2>1, <2>2
<1>10. \A i \in 1 .. n + 1 : more[i] = stmts[all[i]].name
  <2> SUFFICES ASSUME NEW i \in 1 .. n + 1
               PROVE  more[i] = stmts[all[i]].name
    OBVIOUS
  <2>1. CASE i = n + 1
    BY <1>3, <2>1
  <2>2. CASE i \in 1 .. n
    <3>1. all[i] = at[i]
      BY <1>6, <2>2
    <3> QED
      BY <1>3, <1>4, <2>2, <3>1
  <2> QED
    BY <1>5, <2>1, <2>2
<1> HIDE DEF all
<1>11. NamesAt(more, stmts, places \cup {k})
  <2> DEFINE D == DOMAIN more
  <2>1. D = 1 .. n + 1
    BY <1>3
  <2>2. /\ all \in [D -> places \cup {k}]
        /\ \A i, j \in D : i < j => all[i] < all[j]
        /\ \A p \in places \cup {k} : \E i \in D : all[i] = p
        /\ \A i \in D : more[i] = stmts[all[i]].name
    BY <1>7, <1>8, <1>9, <1>10, <2>1, Zenon
  <2> QED
    BY <2>2, Zenon DEF NamesAt
<1> QED
  BY <1>11 DEF more

\* Loading a statement that opens or closes no group and is no `use' at the
\* top level leaves the global list as the places say.
LEMMA UsedKept ==
  ASSUME Progress, Global, Loading, program' = program, next' = next + 1,
         useGlobal' = useGlobal, program[next].op # "use" \/ groups # <<>>
  PROVE  NamesAt(useGlobal, program, Used)'
<1>1. Used' = Used
  BY TopUseNext, UsedNext
<1>2. NamesAt(useGlobal, program, Used)
  BY DEF Global
<1> QED
  BY <1>1, <1>2 DEF NamesAt

LEMMA ProgressNext ==
  ASSUME Progress, Loading, program' = program, next' = next + 1
  PROVE  program' \in Programs /\ next' \in 1 .. Len(program') + 1 /\ next' - 1 = next
BY StatementIs DEF Progress

LEMMA InnermostIs ==
  ASSUME groups \in Seq(Group), groups # <<>>
  PROVE  /\ Last(groups) \in Group
         /\ Last(groups).prefix \in Seq(Segments)
         /\ Last(groups).localUse \in Seq(Middlewares)
<1>1. Len(groups) \in 1 .. Len(groups)
  OBVIOUS
<1>2. Last(groups) \in Group
  BY <1>1 DEF Last
<1> QED
  BY <1>2 DEF Group

LEMMA LoadedDeclare ==
  ASSUME Loaded, Declare \/ Configure
  PROVE  Loaded'
<1>1. /\ Loading /\ program[next].op \in {"middleware", "server"}
      /\ program' = program /\ next' = next + 1 /\ groups' = groups
      /\ useGlobal' = useGlobal /\ useCap' = useCap /\ routes' = routes
  BY DEF Declare, Configure, Statement
<1>2. Progress'
  <2>1. Depth(program, next) = Len(groups)
    BY <1>1, DepthNext DEF Loaded
  <2>2. program' \in Programs /\ next' \in 1 .. Len(program') + 1 /\ next' - 1 = next
    BY <1>1, ProgressNext DEF Loaded
  <2>3. Depth(program', next' - 1) = Len(groups')
    BY <1>1, <2>1, <2>2
  <2> QED
    BY <1>1, <2>2, <2>3 DEF Loaded, Progress
<1>3. Global'
  <2>1. NamesAt(useGlobal, program, Used)'
    BY <1>1, UsedKept DEF Loaded
  <2> QED
    BY <1>1, <2>1 DEF Loaded, Global
<1>4. Registered'
  BY <1>1 DEF Loaded, Registered
<1> QED
  BY <1>2, <1>3, <1>4 DEF Loaded

LEMMA LoadedUseGlobally ==
  ASSUME Loaded, UseGlobally
  PROVE  Loaded'
<1>1. /\ Loading /\ program[next].op = "use" /\ groups = <<>>
      /\ program' = program /\ next' = next + 1 /\ groups' = groups /\ routes' = routes
      /\ useGlobal' = Append(useGlobal, program[next].name)
      /\ useCap' = IF Len(useGlobal) < useCap THEN useCap ELSE Grown(useCap)
  BY DEF UseGlobally, Statement
<1>2. Progress'
  <2>1. Depth(program, next) = Len(groups)
    BY <1>1, DepthNext DEF Loaded
  <2>2. program' \in Programs /\ next' \in 1 .. Len(program') + 1 /\ next' - 1 = next
    BY <1>1, ProgressNext DEF Loaded
  <2>3. Depth(program', next' - 1) = Len(groups')
    BY <1>1, <2>1, <2>2
  <2> QED
    BY <1>1, <2>2, <2>3 DEF Loaded, Progress
<1>3. Global'
  <2>1. useGlobal' \in Seq(Middlewares)
    BY <1>1, StatementIs DEF Loaded, Global
  <2>2. useCap' \in Nat
    BY <1>1 DEF Loaded, Global, Grown
  <2>3. Used' = Used \cup {next}
    BY <1>1, TopUseNext, UsedNext DEF Loaded
  <2>4. Used \subseteq Nat /\ next \in Nat /\ \A p \in Used : p < next
    <3>1. program \in Seq(Statements)
      BY WebAssumption DEF Loaded, Progress
    <3> QED
      BY <1>1, <3>1, StatementIs DEF Loaded, Used, TopUses
  <2>5. NamesAt(useGlobal, program, Used) /\ useGlobal \in Seq(Middlewares)
    BY DEF Loaded, Global
  <2>6. NamesAt(Append(useGlobal, program[next].name), program, Used \cup {next})
    BY <2>4, <2>5, NamesMore
  <2>7. NamesAt(useGlobal', program', Used')
    BY <1>1, <2>3, <2>6
  <2>8. \A g \in 1 .. Len(groups') : groups'[g].saved = useGlobal'
    BY <1>1
  <2> QED
    BY <2>1, <2>2, <2>7, <2>8 DEF Global
<1>4. Registered'
  BY <1>1 DEF Loaded, Registered
<1> QED
  BY <1>2, <1>3, <1>4 DEF Loaded

LEMMA LoadedUseLocally ==
  ASSUME Loaded, UseLocally
  PROVE  Loaded'
<1> DEFINE n == Len(groups)
<1>1. /\ Loading /\ program[next].op = "use" /\ groups # <<>>
      /\ program' = program /\ next' = next + 1 /\ routes' = routes
      /\ useGlobal' = useGlobal /\ useCap' = useCap
      /\ groups' = [groups EXCEPT ![n].localUse = Append(@, program[next].name)]
  BY DEF UseLocally, Statement
<1>2. n \in Nat /\ n # 0 /\ groups \in Seq(Group)
  BY <1>1 DEF Loaded, Progress
<1>3. program[next].name \in Middlewares
  BY <1>1, StatementIs DEF Loaded
<1>4. groups' \in Seq(Group) /\ Len(groups') = n /\ \A g \in 1 .. n : groups'[g].saved = groups[g].saved
  <2>1. groups[n] \in Group
    BY <1>2
  <2>2. [groups[n] EXCEPT !.localUse = Append(@, program[next].name)] \in Group
    <3>1. ASSUME NEW g \in Group, NEW name \in Middlewares
          PROVE  [g EXCEPT !.localUse = Append(@, name)] \in Group
      <4>1. Append(g.localUse, name) \in Seq(Middlewares)
        BY DEF Group
      <4> QED
        BY <4>1 DEF Group
    <3> QED
      BY <1>3, <2>1, <3>1
  <2>3. groups' = [groups EXCEPT ![n] = [groups[n] EXCEPT !.localUse = Append(@, program[next].name)]]
    BY <1>1
  <2>4. [groups[n] EXCEPT !.localUse = Append(@, program[next].name)].saved = groups[n].saved
    BY <2>1 DEF Group
  <2> QED
    BY <1>2, <2>2, <2>3, <2>4
<1>5. Progress'
  <2>1. Depth(program, next) = n
    BY <1>1, DepthNext DEF Loaded
  <2>2. program' \in Programs /\ next' \in 1 .. Len(program') + 1 /\ next' - 1 = next
    BY <1>1, ProgressNext DEF Loaded
  <2>3. Depth(program', next' - 1) = Len(groups')
    BY <1>1, <1>4, <2>1, <2>2
  <2> QED
    BY <1>4, <2>2, <2>3 DEF Progress
<1>6. Global'
  <2>1. NamesAt(useGlobal, program, Used)'
    BY <1>1, UsedKept DEF Loaded
  <2>2. \A g \in 1 .. Len(groups') : groups'[g].saved = useGlobal'
    BY <1>1, <1>4 DEF Loaded, Global
  <2> QED
    BY <1>1, <2>1, <2>2 DEF Loaded, Global
<1>7. Registered'
  BY <1>1 DEF Loaded, Registered
<1> QED
  BY <1>5, <1>6, <1>7 DEF Loaded

LEMMA LoadedEnterGroup ==
  ASSUME Loaded, EnterGroup
  PROVE  Loaded'
<1> DEFINE outer == IF groups = <<>> THEN <<>> ELSE Last(groups).prefix
           entered == [prefix |-> outer \o program[next].parts, localUse |-> <<>>, saved |-> useGlobal]
<1>1. /\ Loading /\ program[next].op = "group"
      /\ program' = program /\ next' = next + 1 /\ routes' = routes
      /\ useGlobal' = useGlobal /\ useCap' = useCap
      /\ groups' = Append(groups, entered)
  BY DEF EnterGroup, Statement
<1>2. groups \in Seq(Group)
  BY DEF Loaded, Progress
<1>3. entered \in Group /\ entered.saved = useGlobal
  <2>1. outer \in Seq(Segments)
    BY <1>2, InnermostIs
  <2>2. program[next].parts \in Seq(Segments)
    BY <1>1, StatementIs DEF Loaded
  <2>3. outer \o program[next].parts \in Seq(Segments)
    BY <2>1, <2>2
  <2> QED
    BY <2>3 DEF Group, Loaded, Global
<1> HIDE DEF entered
<1>4. /\ groups' \in Seq(Group) /\ Len(groups') = Len(groups) + 1
      /\ \A g \in 1 .. Len(groups') : (g \in 1 .. Len(groups) /\ groups'[g] = groups[g]) \/ groups'[g] = entered
  BY <1>1, <1>2, <1>3
<1>5. Progress'
  <2>1. Depth(program, next) = Len(groups) + 1
    BY <1>1, DepthNext DEF Loaded
  <2>2. program' \in Programs /\ next' \in 1 .. Len(program') + 1 /\ next' - 1 = next
    BY <1>1, ProgressNext DEF Loaded
  <2>3. Depth(program', next' - 1) = Len(groups')
    BY <1>1, <1>4, <2>1, <2>2
  <2> QED
    BY <1>4, <2>2, <2>3 DEF Progress
<1>6. Global'
  <2>1. NamesAt(useGlobal, program, Used)'
    BY <1>1, UsedKept DEF Loaded
  <2>2. \A g \in 1 .. Len(groups') : groups'[g].saved = useGlobal'
    BY <1>1, <1>3, <1>4 DEF Loaded, Global
  <2> QED
    BY <1>1, <2>1, <2>2 DEF Loaded, Global
<1>7. Registered'
  BY <1>1 DEF Loaded, Registered
<1> QED
  BY <1>5, <1>6, <1>7 DEF Loaded

\* What the innermost group restores is what the list is.
LEMMA LoadedLeaveGroup ==
  ASSUME Loaded, LeaveGroup
  PROVE  Loaded' /\ useGlobal' = useGlobal
<1> DEFINE n == Len(groups)
<1>1. /\ Loading /\ program[next].op = "end"
      /\ program' = program /\ next' = next + 1 /\ routes' = routes
      /\ useGlobal' = Last(groups).saved /\ useCap' = Len(Last(groups).saved)
      /\ groups' = Front(groups)
  BY DEF LeaveGroup, Statement
<1>2. n \in Nat /\ n # 0 /\ groups \in Seq(Group)
  BY <1>1, DepthNext DEF Loaded, Progress
<1>3. useGlobal' = useGlobal /\ useCap' \in Nat
  <2>1. Last(groups).saved = useGlobal
    BY <1>2 DEF Loaded, Global, Last
  <2> QED
    BY <1>1, <2>1 DEF Loaded, Global
<1>4. groups' \in Seq(Group) /\ Len(groups') = n - 1 /\ \A g \in 1 .. Len(groups') : g \in 1 .. n /\ groups'[g] = groups[g]
  <2>1. groups' = SubSeq(groups, 1, n - 1)
    BY <1>1 DEF Front
  <2>2. n - 1 \in Nat /\ n - 1 <= n
    BY <1>2
  <2>3. groups' \in Seq(Group) /\ Len(groups') = n - 1
    <3>1. \A g \in 1 .. n - 1 : groups[g] \in Group
      BY <1>2
    <3>2. groups' = [g \in 1 .. n - 1 |-> groups[g]]
      BY <1>2, <2>1, <2>2
    <3>3. groups' \in [1 .. n - 1 -> Group]
      BY <3>1, <3>2
    <3> QED
      BY <2>2, <3>3
  <2>4. \A g \in 1 .. n - 1 : groups'[g] = groups[g]
    BY <1>2, <2>1, <2>2
  <2> QED
    BY <2>2, <2>3, <2>4
<1>5. Progress'
  <2>1. Depth(program, next) = n - 1
    BY <1>1, DepthNext DEF Loaded
  <2>2. program' \in Programs /\ next' \in 1 .. Len(program') + 1 /\ next' - 1 = next
    BY <1>1, ProgressNext DEF Loaded
  <2>3. Depth(program', next' - 1) = Len(groups')
    BY <1>1, <1>4, <2>1, <2>2
  <2> QED
    BY <1>4, <2>2, <2>3 DEF Progress
<1>6. Global'
  <2>1. NamesAt(useGlobal, program, Used)'
    BY <1>1, <1>3, UsedKept DEF Loaded
  <2>2. \A g \in 1 .. Len(groups') : groups'[g].saved = useGlobal'
    BY <1>3, <1>4 DEF Loaded, Global
  <2> QED
    BY <1>3, <2>1, <2>2 DEF Loaded, Global
<1>7. Registered'
  BY <1>1 DEF Loaded, Registered
<1> QED
  BY <1>3, <1>5, <1>6, <1>7 DEF Loaded

LEMMA LoadedRegister ==
  ASSUME Loaded, Register
  PROVE  Loaded'
<1> DEFINE stmt  == program[next]
           local == IF groups = <<>> THEN <<>> ELSE Last(groups).localUse
           scope == [g \in 1 .. Len(groups) |-> groups[g].localUse]
           new   == [ method |-> stmt.method, parts |-> Prefix \o stmt.parts, middlewares |-> local \o stmt.uses,
                      inScope |-> FlattenSeq(scope) \o stmt.uses, depth |-> Len(groups) ]
<1>1. /\ Loading /\ stmt.op = "route"
      /\ program' = program /\ next' = next + 1 /\ groups' = groups
      /\ useGlobal' = useGlobal /\ useCap' = useCap
      /\ routes' = Append(routes, new)
  BY DEF Register, Statement, Attached
<1>2. groups \in Seq(Group)
  BY DEF Loaded, Progress
<1>3. stmt.parts \in Seq(Segments) /\ stmt.uses \in Seq(Middlewares)
  BY <1>1, StatementIs DEF Loaded
<1>4. Progress'
  <2>1. Depth(program, next) = Len(groups)
    BY <1>1, DepthNext DEF Loaded
  <2>2. program' \in Programs /\ next' \in 1 .. Len(program') + 1 /\ next' - 1 = next
    BY <1>1, ProgressNext DEF Loaded
  <2>3. Depth(program', next' - 1) = Len(groups')
    BY <1>1, <2>1, <2>2
  <2> QED
    BY <1>1, <2>2, <2>3 DEF Loaded, Progress
<1>5. Global'
  <2>1. NamesAt(useGlobal, program, Used)'
    BY <1>1, UsedKept DEF Loaded
  <2> QED
    BY <1>1, <2>1 DEF Loaded, Global
<1>6. Prefix \o stmt.parts \in Seq(Segments) /\ local \o stmt.uses \in Seq(Middlewares)
  <2>1. Prefix \in Seq(Segments) /\ local \in Seq(Middlewares)
    BY <1>2, InnermostIs DEF Prefix
  <2> HIDE DEF stmt, local
  <2> QED
    BY <1>3, <2>1
<1>7. Len(groups) <= 1 => FlattenSeq(scope) = local
  <2>1. Len(scope) = Len(groups)
    BY <1>2
  <2>2. CASE Len(groups) = 0
    <3>1. groups = <<>> /\ scope = <<>>
      BY <1>2, <2>2
    <3> HIDE DEF scope
    <3> QED
      BY <2>1, <2>2, <3>1, FlattenShort
  <2>3. CASE Len(groups) = 1
    <3>1. groups # <<>> /\ scope[1] = Last(groups).localUse
      BY <1>2, <2>3 DEF Last
    <3> HIDE DEF scope
    <3> QED
      BY <2>1, <2>3, <3>1, FlattenShort
  <2>4. Len(groups) \in Nat
    BY <1>2
  <2> DEFINE flat == FlattenSeq(scope)
  <2>5. /\ Len(groups) = 0 => flat = local
        /\ Len(groups) = 1 => flat = local
    BY <2>2, <2>3
  <2> HIDE DEF scope, local, flat
  <2>6. ASSUME Len(groups) <= 1
        PROVE  flat = local
    BY <2>4, <2>5, <2>6
  <2> QED
    BY <2>6 DEF flat
<1> DEFINE kept(route) ==
             /\ route.parts \in Seq(Segments)
             /\ route.middlewares \in Seq(Middlewares)
             /\ route.depth <= 1 => route.middlewares = route.inScope
<1>8. kept(new)
  <2> HIDE DEF scope, local, stmt
  <2> QED
    BY <1>6, <1>7
<1> HIDE DEF new
<1>9. Registered'
  <2>1. PICK S : routes \in Seq(S)
    BY DEF Loaded, Registered
  <2>2. routes \in Seq(S \cup {new}) /\ routes' \in Seq(S \cup {new})
    BY <1>1, <2>1
  <2>3. \A k \in 1 .. Len(routes') : (k \in 1 .. Len(routes) /\ routes'[k] = routes[k]) \/ routes'[k] = new
    BY <1>1, <2>1
  <2>4. \A k \in 1 .. Len(routes) : kept(routes[k])
    BY DEF Loaded, Registered
  <2>5. \A k \in 1 .. Len(routes') : kept(routes'[k])
    <3> HIDE DEF kept
    <3> QED
      BY <1>8, <2>3, <2>4
  <2> QED
    BY <2>2, <2>5 DEF Registered
<1> QED
  BY <1>4, <1>5, <1>9 DEF Loaded

LEMMA LoadedInit ==
  ASSUME Init
  PROVE  Loaded
<1>1. program \in Programs /\ program \in Seq(Statements)
  BY WebAssumption DEF Init
<1>2. Progress
  <2>1. Depth(program, 0) = 0
    BY CountNone DEF Depth
  <2>2. Depth(program, next - 1) = 0
    BY <2>1 DEF Init
  <2> QED
    BY <1>1, <2>2 DEF Init, Progress
<1>3. Global
  <2>1. Used = {}
    <3>1. TopUses(program) \subseteq 1 .. Len(program)
      BY <1>1 DEF TopUses
    <3>2. Len(program) \in Nat /\ next = 1
      BY <1>1 DEF Init
    <3> QED
      BY <3>1, <3>2 DEF Used
  <2>2. NamesAt(<<>>, program, {})
    <3>1. DOMAIN <<>> = {} /\ <<>> \in [{} -> {}]
      OBVIOUS
    <3> QED
      BY <3>1 DEF NamesAt
  <2>3. NamesAt(useGlobal, program, Used)
    BY <2>1, <2>2 DEF Init
  <2> QED
    BY <2>3 DEF Init, Global
<1>4. Registered
  <2>1. <<>> \in Seq({}) /\ Len(<<>>) = 0
    OBVIOUS
  <2> QED
    BY <2>1 DEF Init, Registered
<1> QED
  BY <1>2, <1>3, <1>4 DEF Loaded

LEMMA LoadedLoad ==
  ASSUME Loaded, Load
  PROVE  Loaded'
BY LoadedDeclare, LoadedUseGlobally, LoadedUseLocally, LoadedEnterGroup, LoadedLeaveGroup, LoadedRegister DEF Load

LEMMA LoadedServe ==
  ASSUME Loaded, UNCHANGED loadVars
  PROVE  Loaded'
<1> USE DEF loadVars
<1>1. Progress'
  BY DEF Loaded, Progress
<1>2. Global'
  BY DEF Loaded, Global, Used
<1>3. Registered'
  BY DEF Loaded, Registered
<1> QED
  BY <1>1, <1>2, <1>3 DEF Loaded

-----------------------------------------------------------------------------
(* Serving *)

Fields == {"pc", "method", "path", "gzip", "route", "params", "list", "k", "passed", "status"}

Fielded(q) == DOMAIN q = Fields /\ q.path \in Seq(STRING)

\* What a request has passed before it is in the body of a route: nothing
\* before its middlewares, and then all those before the one it is at.
Guarded(q, list, global, cap) ==
    LET guards == global \o list[q.route].middlewares
    IN  /\ q.pc \in {"handler", "dispatch", "route"} => q.k = 1 /\ q.passed = <<>>
        /\ q.pc \in {"route", "middleware", "body"} => q.route \in 1 .. Len(list)
        /\ q.pc = "middleware" /\ cap = Len(global) =>
              /\ q.list = OwnList(list[q.route].middlewares)
              /\ q.k \in 1 .. Len(guards) + 1
              /\ q.passed = SubSeq(guards, 1, q.k - 1)
        /\ q.pc = "body" /\ list[q.route].method \notin Streams /\ cap = Len(global) =>
              q.passed = guards

Sound(q) == Fielded(q) /\ Guarded(q, routes, useGlobal, useCap)

\* Requests come when the program is loaded, and the trie is the one of its routes.
Requested ==
    /\ DOMAIN request = Requests
    /\ \A r \in Requests : request[r].pc = "idle" \/ (Serving /\ Sound(request[r]))
    /\ trie = NoTrie \/ (Serving /\ trie = BuildTrie(routes))

IInv == Loaded /\ Requested

LEMMA ServingKept ==
  ASSUME UNCHANGED loadVars
  PROVE  /\ Serving' = Serving
         /\ routes' = routes /\ useGlobal' = useGlobal /\ useCap' = useCap
BY DEF loadVars, Serving, Loading

\* A step of one request.
LEMMA MovesKept ==
  ASSUME Requested, UNCHANGED loadVars, Serving,
         NEW r \in Requests, NEW q, request' = [request EXCEPT ![r] = q], Sound(q),
         trie' = trie \/ trie' = BuildTrie(routes)
  PROVE  Requested'
<1>1. Serving' /\ routes' = routes /\ useGlobal' = useGlobal /\ useCap' = useCap
  BY ServingKept
<1>2. DOMAIN request' = Requests
  BY DEF Requested
<1>3. ASSUME NEW s \in Requests
      PROVE  request'[s].pc = "idle" \/ (Fielded(request'[s]) /\ Guarded(request'[s], routes, useGlobal, useCap))
  <2>1. CASE s = r
    BY <2>1 DEF Requested, Sound
  <2>2. CASE s # r
    BY <2>2 DEF Requested, Sound
  <2> QED
    BY <2>1, <2>2
<1>4. trie' = NoTrie \/ trie' = BuildTrie(routes)
  BY DEF Requested
<1> QED
  BY <1>1, <1>2, <1>3, <1>4 DEF Requested, Sound

LEMMA Awake ==
  ASSUME IInv, NEW r \in Requests, request[r].pc # "idle"
  PROVE  /\ Serving /\ Fielded(request[r]) /\ Guarded(request[r], routes, useGlobal, useCap)
         /\ RouteList(routes)
         /\ useGlobal \in Seq(Middlewares)
         /\ \A k \in 1 .. Len(routes) : routes[k].middlewares \in Seq(Middlewares)
<1>1. RouteList(routes)
  BY RegisteredRoutes DEF IInv, Loaded
<1>2. Serving /\ Fielded(request[r]) /\ Guarded(request[r], routes, useGlobal, useCap)
  BY DEF IInv, Requested, Sound
<1>3. /\ useGlobal \in Seq(Middlewares)
      /\ \A k \in 1 .. Len(routes) : routes[k].middlewares \in Seq(Middlewares)
  BY DEF IInv, Loaded, Global, Registered
<1> QED
  BY <1>1, <1>2, <1>3

\* An answered request is sound.
LEMMA EndedSound ==
  ASSUME NEW q, Fielded(q), NEW status
  PROVE  Sound([q EXCEPT !.pc = "answered", !.status = status])
<1> DEFINE new == [q EXCEPT !.pc = "answered", !.status = status]
<1>1. DOMAIN new = Fields /\ new.path = q.path /\ new.pc = "answered"
  BY DEF Fielded, Fields
<1> HIDE DEF new
<1>2. Fielded(new)
  BY <1>1 DEF Fielded
<1>3. Guarded(new, routes, useGlobal, useCap)
  BY <1>1 DEF Guarded
<1> QED
  BY <1>2, <1>3 DEF Sound, new

LEMMA ArriveKept ==
  ASSUME IInv, NEW r \in Requests, Arrive(r)
  PROVE  Requested' /\ UNCHANGED loadVars
<1>1. Serving /\ UNCHANGED loadVars /\ trie' = trie
  BY DEF Arrive, Moves
<1>2. PICK method \in Methods, path \in Paths, gzip \in BOOLEAN :
        request' = [request EXCEPT ![r] =
          [ pc |-> "handler", method |-> method, path |-> path, gzip |-> gzip,
            route |-> None, params |-> <<>>, list |-> OwnList(<<>>), k |-> 1,
            passed |-> <<>>, status |-> 0 ]]
  BY DEF Arrive, Moves
<1> DEFINE new == [ pc |-> "handler", method |-> method, path |-> path, gzip |-> gzip,
                    route |-> None, params |-> <<>>, list |-> OwnList(<<>>), k |-> 1,
                    passed |-> <<>>, status |-> 0 ]
<1>3. Fielded(new)
  <2>1. path \in Seq(STRING)
    BY WebAssumption
  <2> QED
    BY <2>1 DEF Fielded, Fields
<1>4. new.pc = "handler" /\ new.k = 1 /\ new.passed = <<>>
  OBVIOUS
<1>5. request' = [request EXCEPT ![r] = new]
  BY <1>2
<1> HIDE DEF new
<1>6. Sound(new)
  BY <1>3, <1>4 DEF Guarded, Sound
<1> QED
  BY <1>1, <1>5, <1>6, MovesKept DEF IInv

\* A request that is answered in a step.
LEMMA AnsweredKept ==
  ASSUME IInv, NEW r \in Requests, request[r].pc # "idle", UNCHANGED loadVars, trie' = trie,
         NEW status, request' = [request EXCEPT ![r] = Answered(r, status)]
  PROVE  Requested'
<1>1. Serving /\ Fielded(request[r])
  BY Awake
<1>2. Sound(Answered(r, status))
  BY <1>1, EndedSound DEF Answered
<1> QED
  BY <1>1, <1>2, MovesKept DEF IInv

LEMMA HandlerKept ==
  ASSUME IInv, NEW r \in Requests, AnswerPreflight(r) \/ LimitRate(r) \/ LimitBody(r) \/ PassOn(r)
  PROVE  Requested' /\ UNCHANGED loadVars
<1>1. request[r].pc = "handler" /\ UNCHANGED loadVars /\ trie' = trie
  BY DEF AnswerPreflight, LimitRate, LimitBody, PassOn, InChain, Moves
<1>2. CASE AnswerPreflight(r) \/ LimitRate(r) \/ LimitBody(r)
  <2>1. PICK status : request' = [request EXCEPT ![r] = Answered(r, status)]
    BY <1>2 DEF AnswerPreflight, LimitRate, LimitBody, Moves
  <2> QED
    BY <1>1, <2>1, AnsweredKept
<1>3. CASE PassOn(r)
  <2> DEFINE new == [request[r] EXCEPT !.pc = "dispatch"]
  <2>1. request' = [request EXCEPT ![r] = new]
    BY <1>3 DEF PassOn, Moves
  <2>2. Serving /\ Fielded(request[r]) /\ Guarded(request[r], routes, useGlobal, useCap)
    BY <1>1, Awake
  <2>3. DOMAIN new = Fields /\ new.path = request[r].path /\ new.pc = "dispatch"
        /\ new.k = request[r].k /\ new.passed = request[r].passed
    BY <2>2 DEF Fielded, Fields
  <2>4. request[r].k = 1 /\ request[r].passed = <<>>
    BY <1>1, <2>2 DEF Guarded
  <2> HIDE DEF new
  <2>5. Sound(new)
    BY <2>2, <2>3, <2>4 DEF Fielded, Guarded, Sound
  <2> QED
    BY <1>1, <2>1, <2>2, <2>5, MovesKept DEF IInv
<1> QED
  BY <1>1, <1>2, <1>3

LEMMA BuildKept ==
  ASSUME IInv, NEW r \in Requests, Build(r)
  PROVE  Requested' /\ UNCHANGED loadVars
<1>1. request[r].pc = "dispatch" /\ UNCHANGED loadVars /\ trie' = BuildTrie(routes) /\ request' = request
  BY DEF Build, loadVars
<1>2. Serving
  BY <1>1, Awake
<1>3. Serving' /\ routes' = routes /\ useGlobal' = useGlobal /\ useCap' = useCap
  BY <1>1, <1>2, ServingKept
<1> QED
  BY <1>1, <1>2, <1>3 DEF IInv, Requested, Sound

\* A request that goes on to its route, or into the body of a stream.
LEMMA FoundKept ==
  ASSUME IInv, NEW r \in Requests, request[r].pc = "dispatch", UNCHANGED loadVars, trie' = trie,
         NEW q, request' = [request EXCEPT ![r] = q],
         DOMAIN q = Fields, q.path = request[r].path, q.k = request[r].k, q.passed = request[r].passed,
         q.route \in 1 .. Len(routes),
         \/ q.pc = "route" \/ q.pc = "answered"
         \/ q.pc = "body" /\ routes[q.route].method \in Streams
  PROVE  Requested'
<1>1. Serving /\ Fielded(request[r]) /\ Guarded(request[r], routes, useGlobal, useCap)
  BY Awake
<1>2. q.k = 1 /\ q.passed = <<>>
  BY <1>1 DEF Guarded
<1>3. Fielded(q)
  BY <1>1 DEF Fielded
<1>4. Guarded(q, routes, useGlobal, useCap)
  <2>1. CASE q.pc = "route" \/ q.pc = "answered"
    BY <1>2, <2>1 DEF Guarded
  <2>2. CASE q.pc = "body" /\ routes[q.route].method \in Streams
    BY <1>2, <2>2 DEF Guarded
  <2> QED
    BY <2>1, <2>2
<1> QED
  BY <1>1, <1>3, <1>4, MovesKept DEF Sound, IInv

LEMMA DispatchKept ==
  ASSUME IInv, NEW r \in Requests, Dispatch(r)
  PROVE  Requested' /\ UNCHANGED loadVars
<1> DEFINE route  == Lookup(r).route
           method == routes[route].method
           at     == [request[r] EXCEPT !.route = route, !.params = Lookup(r).params]
<1>1. request[r].pc = "dispatch" /\ trie # NoTrie /\ trie' = trie
  BY DEF Dispatch
<1>2. /\ Serving /\ Fielded(request[r]) /\ RouteList(routes)
  BY <1>1, Awake
<1>3. route # None => route \in 1 .. Len(routes)
  <2>1. trie = BuildTrie(routes)
    BY <1>1 DEF IInv, Requested
  <2>2. request[r].path \in Seq(STRING)
    BY <1>2 DEF Fielded
  <2>3. Lookup(r) = Match(BuildTrie(routes), request[r].path, request[r].method)
    BY <2>1 DEF Lookup
  <2> QED
    BY <1>2, <2>2, <2>3, FoundRoute
<1>4. \/ route = None /\ Static(r)
      \/ route # None /\ method = "SSE" /\ StartSSE(r, at)
      \/ route # None /\ method = "WS" /\ StartWS(r, at)
      \/ route # None /\ Moves(r, "dispatch", [at EXCEPT !.pc = "route"])
  <2> DEFINE sse == StartSSE(r, at)
             ws == StartWS(r, at)
             go == Moves(r, "dispatch", [at EXCEPT !.pc = "route"])
             static == Static(r)
  <2>1. (CASE route = None -> static
           [] route # None /\ method = "SSE" -> sse
           [] route # None /\ method = "WS" -> ws
           [] OTHER -> go)
    BY DEF Dispatch
  <2> HIDE DEF sse, ws, go, static, route
  <2>2. \/ route = None /\ static
        \/ route # None /\ method = "SSE" /\ sse
        \/ route # None /\ method = "WS" /\ ws
        \/ route # None /\ go
    BY <2>1
  <2> QED
    BY <2>2 DEF sse, ws, go, static
<1>5. /\ DOMAIN at = Fields /\ at.path = request[r].path /\ at.k = request[r].k
      /\ at.passed = request[r].passed /\ at.route = route
  BY <1>2 DEF Fielded, Fields
<1> HIDE DEF route, at
<1>6. ASSUME NEW pc, NEW status
      PROVE  LET q == [at EXCEPT !.pc = pc, !.status = status]
             IN  /\ DOMAIN q = Fields /\ q.path = request[r].path /\ q.k = request[r].k
                 /\ q.passed = request[r].passed /\ q.route = route /\ q.pc = pc
  BY <1>5 DEF Fields
<1>7. ASSUME NEW pc, NEW status, route # None, Moves(r, "dispatch", [at EXCEPT !.pc = pc, !.status = status]),
             pc = "answered" \/ (pc = "body" /\ method \in Streams)
      PROVE  Requested' /\ UNCHANGED loadVars
  <2> DEFINE q == [at EXCEPT !.pc = pc, !.status = status]
  <2>1. request' = [request EXCEPT ![r] = q] /\ UNCHANGED loadVars
    BY <1>7 DEF Moves
  <2>2. /\ DOMAIN q = Fields /\ q.path = request[r].path /\ q.k = request[r].k
        /\ q.passed = request[r].passed /\ q.route = route /\ q.pc = pc
    BY <1>6
  <2> HIDE DEF q
  <2> QED
    BY <1>1, <1>3, <1>7, <2>1, <2>2, FoundKept
<1>8. CASE route = None /\ Static(r)
  <2>1. PICK status : request' = [request EXCEPT ![r] = Answered(r, status)]
    BY <1>8 DEF Static, Moves
  <2>2. UNCHANGED loadVars
    BY <1>8 DEF Static, Moves
  <2> QED
    BY <1>1, <2>1, <2>2, AnsweredKept
<1>9. CASE route # None /\ method = "SSE" /\ StartSSE(r, at)
  <2>1. \/ Moves(r, "dispatch", [at EXCEPT !.pc = "answered", !.status = 500])
        \/ Moves(r, "dispatch", [at EXCEPT !.pc = "body", !.status = 200])
    BY <1>9 DEF StartSSE
  <2> QED
    BY <1>7, <1>9, <2>1 DEF Streams
<1>10. CASE route # None /\ method = "WS" /\ StartWS(r, at)
  <2>1. \/ Moves(r, "dispatch", [at EXCEPT !.pc = "answered", !.status = 400])
        \/ Moves(r, "dispatch", [at EXCEPT !.pc = "body", !.status = 101])
    BY <1>10 DEF StartWS
  <2> QED
    BY <1>7, <1>10, <2>1 DEF Streams
<1>11. CASE route # None /\ Moves(r, "dispatch", [at EXCEPT !.pc = "route"])
  <2> DEFINE q == [at EXCEPT !.pc = "route"]
  <2>1. request' = [request EXCEPT ![r] = q] /\ UNCHANGED loadVars
    BY <1>11 DEF Moves
  <2>2. /\ DOMAIN q = Fields /\ q.path = request[r].path /\ q.k = request[r].k
        /\ q.passed = request[r].passed /\ q.route = route /\ q.pc = "route"
    BY <1>5 DEF Fields
  <2> HIDE DEF q
  <2>3. route # None
    BY <1>11
  <2>4. q.route \in 1 .. Len(routes)
    BY <1>3, <2>2, <2>3
  <2>5. q.pc = "route"
    BY <2>2
  <2>6. Requested'
    BY <1>1, <2>1, <2>2, <2>4, <2>5, FoundKept
  <2> QED
    BY <2>1, <2>6
<1> QED
  BY <1>4, <1>8, <1>9, <1>10, <1>11

\* All guards passed, the sequence of those passed is the sequence of guards.
LEMMA AllPassed ==
  ASSUME NEW S, NEW s \in Seq(S)
  PROVE  /\ SubSeq(s, 1, Len(s)) = s /\ SubSeq(s, 1, 0) = <<>>
         /\ \A k \in 1 .. Len(s) : SubSeq(s, 1, k) = Append(SubSeq(s, 1, k - 1), s[k])
<1>1. SubSeq(s, 1, Len(s)) = s /\ SubSeq(s, 1, 0) = <<>>
  OBVIOUS
<1>2. ASSUME NEW k \in 1 .. Len(s)
      PROVE  SubSeq(s, 1, k) = Append(SubSeq(s, 1, k - 1), s[k])
  <2>1. SubSeq(s, 1, k) = SubSeq(s, 1, k - 1) \o <<s[k]>>
    BY SubSeqRecursiveSecond
  <2>2. SubSeq(s, 1, k - 1) \in Seq(S)
    BY SubSeqProperties
  <2> QED
    BY <2>1, <2>2
<1> QED
  BY <1>1, <1>2

\* What the middlewares of a route are, and where a request is among them.
LEMMA GuardsAre ==
  ASSUME IInv, NEW r \in Requests, request[r].pc \in {"route", "middleware", "body"},
         NEW guards, guards = useGlobal \o RouteOf(r).middlewares
  PROVE  /\ request[r].route \in 1 .. Len(routes)
         /\ RouteOf(r).middlewares \in Seq(Middlewares)
         /\ guards \in Seq(Middlewares)
         /\ request[r].pc = "middleware" /\ useCap = Len(useGlobal) =>
               /\ request[r].list = OwnList(RouteOf(r).middlewares)
               /\ MiddlewareList(r) = guards
               /\ request[r].k \in 1 .. Len(guards) + 1
               /\ request[r].passed = SubSeq(guards, 1, request[r].k - 1)
<1> DEFINE q == request[r]
<1>1. /\ Guarded(q, routes, useGlobal, useCap) /\ useGlobal \in Seq(Middlewares)
      /\ \A k \in 1 .. Len(routes) : routes[k].middlewares \in Seq(Middlewares)
  BY Awake
<1>2. q.route \in 1 .. Len(routes)
  BY <1>1 DEF Guarded
<1>3. RouteOf(r).middlewares \in Seq(Middlewares)
  BY <1>1, <1>2 DEF RouteOf
<1>4. guards \in Seq(Middlewares)
  BY <1>1, <1>3
<1>5. ASSUME q.pc = "middleware", useCap = Len(useGlobal)
      PROVE  /\ q.list = OwnList(RouteOf(r).middlewares)
             /\ q.k \in 1 .. Len(guards) + 1
             /\ q.passed = SubSeq(guards, 1, q.k - 1)
  BY <1>1, <1>5 DEF Guarded, RouteOf
<1>6. ASSUME q.list = OwnList(RouteOf(r).middlewares)
      PROVE  MiddlewareList(r) = guards
  BY <1>6 DEF MiddlewareList, OwnList
<1> QED
  BY <1>2, <1>3, <1>4, <1>5, <1>6

LEMMA StartKept ==
  ASSUME IInv, NEW r \in Requests, StartRoute(r)
  PROVE  Requested' /\ UNCHANGED loadVars
<1> DEFINE q   == request[r]
           mws == RouteOf(r).middlewares
           new == [q EXCEPT !.pc = "middleware", !.list = [shared |-> Fits(mws), own |-> mws]]
           guards == useGlobal \o mws
<1>1. q.pc = "route" /\ request' = [request EXCEPT ![r] = new] /\ UNCHANGED loadVars /\ trie' = trie
  BY DEF StartRoute, Moves
<1>2. /\ Serving /\ Fielded(q) /\ Guarded(q, routes, useGlobal, useCap) /\ useGlobal \in Seq(Middlewares)
  BY <1>1, Awake
<1>3. q.route \in 1 .. Len(routes) /\ mws \in Seq(Middlewares) /\ guards \in Seq(Middlewares)
  BY <1>1, GuardsAre
<1>4. q.k = 1 /\ q.passed = <<>>
  BY <1>1, <1>2 DEF Guarded
<1>5. useCap = Len(useGlobal) => Fits(mws) = FALSE
  BY <1>2, <1>3 DEF Fits
<1>6. /\ DOMAIN new = Fields /\ new.path = q.path /\ new.pc = "middleware" /\ new.route = q.route
      /\ new.k = q.k /\ new.passed = q.passed /\ new.list = [shared |-> Fits(mws), own |-> mws]
  BY <1>2 DEF Fielded, Fields
<1>7. mws = routes[q.route].middlewares
  BY DEF RouteOf
<1> HIDE DEF new, mws
<1>8. useCap = Len(useGlobal) =>
         /\ new.list = OwnList(mws)
         /\ new.k \in 1 .. Len(guards) + 1
         /\ new.passed = SubSeq(guards, 1, new.k - 1)
  <2>1. 1 \in 1 .. Len(guards) + 1 /\ SubSeq(guards, 1, 1 - 1) = <<>>
    BY <1>3
  <2> QED
    BY <1>4, <1>5, <1>6, <2>1 DEF OwnList
<1>9. Guarded(new, routes, useGlobal, useCap)
  BY <1>3, <1>6, <1>7, <1>8 DEF Guarded
<1>10. Fielded(new)
  BY <1>2, <1>6 DEF Fielded
<1>11. Requested'
  BY <1>1, <1>2, <1>9, <1>10, MovesKept DEF Sound, IInv
<1> QED
  BY <1>1, <1>11

LEMMA AcceptsKept ==
  ASSUME IInv, NEW r \in Requests, MiddlewareAccepts(r)
  PROVE  Requested' /\ UNCHANGED loadVars
<1> DEFINE q   == request[r]
           mws == RouteOf(r).middlewares
           new == [q EXCEPT !.k = q.k + 1, !.passed = Append(q.passed, Current(r))]
           guards == useGlobal \o mws
<1>1. /\ q.pc = "middleware" /\ q.k <= Len(MiddlewareList(r))
      /\ request' = [request EXCEPT ![r] = new] /\ UNCHANGED loadVars /\ trie' = trie
  BY DEF MiddlewareAccepts, AtMiddleware, Moves
<1>2. Serving /\ Fielded(q)
  BY <1>1, Awake
<1>3. /\ q.route \in 1 .. Len(routes) /\ guards \in Seq(Middlewares)
      /\ useCap = Len(useGlobal) =>
           /\ q.list = OwnList(mws) /\ MiddlewareList(r) = guards
           /\ q.k \in 1 .. Len(guards) + 1 /\ q.passed = SubSeq(guards, 1, q.k - 1)
  BY <1>1, GuardsAre
<1>4. /\ DOMAIN new = Fields /\ new.path = q.path /\ new.pc = "middleware" /\ new.route = q.route
      /\ new.list = q.list /\ new.k = q.k + 1 /\ new.passed = Append(q.passed, Current(r))
  BY <1>1, <1>2 DEF Fielded, Fields
<1>5. mws = routes[q.route].middlewares
  BY DEF RouteOf
<1>6. Current(r) = MiddlewareList(r)[q.k]
  BY DEF Current
<1> HIDE DEF new, guards
<1>7. ASSUME useCap = Len(useGlobal)
      PROVE  /\ new.list = OwnList(mws)
             /\ new.k \in 1 .. Len(guards) + 1
             /\ new.passed = SubSeq(guards, 1, new.k - 1)
  <2>1. q.k \in 1 .. Len(guards) /\ q.passed = SubSeq(guards, 1, q.k - 1) /\ Current(r) = guards[q.k]
    BY <1>1, <1>3, <1>6, <1>7
  <2>2. SubSeq(guards, 1, q.k) = Append(SubSeq(guards, 1, q.k - 1), guards[q.k])
    BY <1>3, <2>1, AllPassed
  <2>3. new.k \in 1 .. Len(guards) + 1 /\ new.k - 1 = q.k
    BY <1>3, <1>4, <2>1
  <2>4. new.passed = SubSeq(guards, 1, q.k)
    BY <1>4, <2>1, <2>2
  <2> QED
    BY <1>3, <1>4, <1>7, <2>3, <2>4
<1>8. Guarded(new, routes, useGlobal, useCap)
  BY <1>3, <1>4, <1>5, <1>7 DEF Guarded, guards
<1>9. Fielded(new)
  BY <1>2, <1>4 DEF Fielded
<1>10. Requested'
  BY <1>1, <1>2, <1>8, <1>9, MovesKept DEF Sound, IInv
<1> QED
  BY <1>1, <1>10

LEMMA RunBodyKept ==
  ASSUME IInv, NEW r \in Requests, RunBody(r)
  PROVE  Requested' /\ UNCHANGED loadVars
<1> DEFINE q   == request[r]
           mws == RouteOf(r).middlewares
           new == [q EXCEPT !.pc = "body"]
           guards == useGlobal \o mws
<1>1. /\ q.pc = "middleware" /\ q.k > Len(MiddlewareList(r))
      /\ request' = [request EXCEPT ![r] = new] /\ UNCHANGED loadVars /\ trie' = trie
  BY DEF RunBody, Moves
<1>2. Serving /\ Fielded(q)
  BY <1>1, Awake
<1>3. /\ q.route \in 1 .. Len(routes) /\ guards \in Seq(Middlewares)
      /\ useCap = Len(useGlobal) =>
           /\ MiddlewareList(r) = guards
           /\ q.k \in 1 .. Len(guards) + 1 /\ q.passed = SubSeq(guards, 1, q.k - 1)
  BY <1>1, GuardsAre
<1>4. /\ DOMAIN new = Fields /\ new.path = q.path /\ new.pc = "body" /\ new.route = q.route
      /\ new.passed = q.passed
  BY <1>2 DEF Fielded, Fields
<1>5. mws = routes[q.route].middlewares
  BY DEF RouteOf
<1> HIDE DEF new, guards
<1>6. ASSUME useCap = Len(useGlobal)
      PROVE  new.passed = guards
  <2>1. q.k - 1 = Len(guards) /\ q.passed = SubSeq(guards, 1, q.k - 1)
    BY <1>1, <1>3, <1>6
  <2>2. SubSeq(guards, 1, Len(guards)) = guards
    BY <1>3, AllPassed
  <2> QED
    BY <1>4, <2>1, <2>2
<1>7. Guarded(new, routes, useGlobal, useCap)
  BY <1>3, <1>4, <1>5, <1>6 DEF Guarded, guards
<1>8. Fielded(new)
  BY <1>2, <1>4 DEF Fielded
<1>9. Requested'
  BY <1>1, <1>2, <1>7, <1>8, MovesKept DEF Sound, IInv
<1> QED
  BY <1>1, <1>9

LEMMA EndKept ==
  ASSUME IInv, NEW r \in Requests, MiddlewareUnknown(r) \/ MiddlewareStops(r) \/ Finish(r)
  PROVE  Requested' /\ UNCHANGED loadVars
<1>1. /\ request[r].pc # "idle" /\ UNCHANGED loadVars /\ trie' = trie
      /\ \E status : request' = [request EXCEPT ![r] = Answered(r, status)]
  <2>1. CASE MiddlewareUnknown(r)
    BY <2>1 DEF MiddlewareUnknown, AtMiddleware, Moves
  <2>2. CASE MiddlewareStops(r)
    BY <2>2 DEF MiddlewareStops, AtMiddleware, Moves
  <2>3. CASE Finish(r)
    BY <2>3 DEF Finish, Moves
  <2> QED
    BY <2>1, <2>2, <2>3
<1> QED
  BY <1>1, AnsweredKept

-----------------------------------------------------------------------------
(* The invariant *)

LEMMA Kept ==
  ASSUME IInv, [Next]_vars
  PROVE  IInv'
<1>1. CASE Load
  <2>1. Loading /\ UNCHANGED <<trie, request>>
    BY <1>1 DEF Load, Declare, Configure, UseGlobally, UseLocally, EnterGroup, LeaveGroup, Register, Statement
  <2>2. trie = NoTrie /\ \A r \in Requests : request[r].pc = "idle"
    BY <2>1 DEF IInv, Requested, Serving
  <2>3. Requested'
    <3>1. DOMAIN request' = Requests /\ trie' = NoTrie
      BY <2>1, <2>2 DEF IInv, Requested
    <3>2. \A r \in Requests : request'[r].pc = "idle"
      BY <2>1, <2>2
    <3> QED
      BY <3>1, <3>2 DEF Requested
  <2>4. Loaded'
    BY <1>1, LoadedLoad DEF IInv
  <2> QED
    BY <2>3, <2>4 DEF IInv
<1>2. ASSUME NEW r \in Requests, Arrive(r) \/ Serve(r)
      PROVE  IInv'
  <2>1. Requested' /\ UNCHANGED loadVars
    BY <1>2, ArriveKept, HandlerKept, BuildKept, DispatchKept, StartKept, AcceptsKept, RunBodyKept, EndKept DEF Serve
  <2>2. Loaded'
    BY <2>1, LoadedServe DEF IInv
  <2> QED
    BY <2>1, <2>2 DEF IInv
<1>3. CASE UNCHANGED vars
  <2>1. UNCHANGED loadVars /\ UNCHANGED <<trie, request>>
    BY <1>3 DEF vars, loadVars
  <2>2. Loaded'
    BY <2>1, LoadedServe DEF IInv
  <2>3. Serving' = Serving /\ routes' = routes /\ useGlobal' = useGlobal /\ useCap' = useCap
    BY <2>1, ServingKept
  <2>4. Requested'
    BY <2>1, <2>3 DEF IInv, Requested, Sound
  <2> QED
    BY <2>2, <2>4 DEF IInv
<1> QED
  BY <1>1, <1>2, <1>3 DEF Next

\* What is loaded, what has come in, and what the trie holds, hang together.
THEOREM Invariance == Spec => []IInv
<1>1. Init => IInv
  <2> SUFFICES ASSUME Init
               PROVE  IInv
    OBVIOUS
  <2>1. Loaded
    BY LoadedInit
  <2>2. Requested
    <3>1. DOMAIN request = Requests /\ trie = NoTrie
      BY DEF Init
    <3>2. \A r \in Requests : request[r].pc = "idle"
      BY DEF Init, Idle
    <3> QED
      BY <3>1, <3>2 DEF Requested
  <2> QED
    BY <2>1, <2>2 DEF IInv
<1>2. IInv /\ [Next]_vars => IInv'
  BY Kept
<1> QED
  BY <1>1, <1>2, PTL DEF Spec

LEMMA BodyGuarded ==
  ASSUME IInv
  PROVE  GuardedBody
<1> SUFFICES ASSUME useCap = Len(useGlobal), NEW r \in Requests, InBody(r)
             PROVE  request[r].passed = useGlobal \o RouteOf(r).middlewares
  BY DEF GuardedBody
<1>1. request[r].pc = "body" /\ routes[request[r].route].method \notin Streams
  BY DEF InBody, RouteOf
<1>2. Guarded(request[r], routes, useGlobal, useCap)
  BY <1>1, Awake
<1> QED
  BY <1>1, <1>2 DEF Guarded, RouteOf

LEMMA GroupsClosed ==
  ASSUME IInv
  PROVE  GroupsDoNotLeak
<1> SUFFICES ASSUME Serving
             PROVE  /\ NamesAt(useGlobal, program, TopUses(program))
                    /\ \A k \in 1 .. Len(routes) : routes[k].depth <= 1 => routes[k].middlewares = routes[k].inScope
  BY DEF GroupsDoNotLeak
<1>1. Used = TopUses(program)
  <2>1. program \in Seq(Statements) /\ next \in 1 .. Len(program) + 1
    BY WebAssumption DEF IInv, Loaded, Progress
  <2>2. TopUses(program) \subseteq 1 .. Len(program)
    BY <2>1 DEF TopUses
  <2>3. next = Len(program) + 1
    BY <2>1 DEF Serving, Loading
  <2> QED
    BY <2>1, <2>2, <2>3 DEF Used
<1>2. NamesAt(useGlobal, program, Used)
  BY DEF IInv, Loaded, Global
<1>3. \A k \in 1 .. Len(routes) : routes[k].depth <= 1 => routes[k].middlewares = routes[k].inScope
  BY DEF IInv, Loaded, Registered
<1> QED
  BY <1>1, <1>2, <1>3

\* A plain body runs only behind the global middlewares and those of its route,
\* each passed once and in that order, as long as the slice of the global ones
\* has no spare capacity for concurrent requests to share (runRoute).
THEOREM BodiesGuarded == Spec => []GuardedBody
<1>1. IInv => GuardedBody
  BY BodyGuarded
<1> QED
  BY <1>1, Invariance, PTL

\* Once any program is loaded, the global middlewares are exactly its `use's
\* outside every group, in their order, and a route in at most one group has
\* exactly the middlewares of its scope (execGroup, registerRoute).
THEOREM GroupsStayClosed == Spec => []GroupsDoNotLeak
<1>1. IInv => GroupsDoNotLeak
  BY GroupsClosed
<1> QED
  BY <1>1, Invariance, PTL

\* For every program, every path and every method, the trie serves the route
\* that the order of preference over all declared routes picks, and finds none
\* only when the linear scanner finds none (matchSegs).
THEOREM ServedAsScanned == Spec => []ServesThePreferred
<1>1. IInv => ServesThePreferred
  BY RegisteredRoutes, ServesAsScanned DEF IInv, Loaded
<1> QED
  BY <1>1, Invariance, PTL

\* When routes agree on the names of placeholders, the params of a request are
\* those the served route captures, with nothing left of abandoned branches.
THEOREM ParamsAsDeclared == Spec => []ParamsWhenNamesAgree
<1>1. IInv => ParamsWhenNamesAgree
  BY RegisteredRoutes, ParamsAsScanned DEF IInv, Loaded
<1> QED
  BY <1>1, Invariance, PTL
=============================================================================
