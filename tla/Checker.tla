------------------------------ MODULE Checker ------------------------------
(***************************************************************************)
(* The static checker of mx check (src/checker/checker.go): one walk over  *)
(* the tree with a chain of scopes, which reports names that no scope      *)
(* declares, calls with the wrong number of arguments, and top-level lets  *)
(* that nothing reads.  Positions, and the order they sort the             *)
(* diagnostics in, are left out.                                           *)
(***************************************************************************)
EXTENDS Parser, FiniteSets

\* A checker: its scopes, the innermost last, the arities of the functions seen,
\* and its diagnostics.  A binding has a line only if a let gave it one.
NewChecker == [scopes |-> << <<>> >>, userFns |-> <<>>, errors |-> {}, warnings |-> {}]
NewBinding(hasLine) == [used |-> FALSE, hasLine |-> hasLine]

\* The names that programs write with a leading underscore.
Underscored == {"_", "_x", "_y"}

Builtins == DOMAIN EmptyStore.scopes[Globals].vars

PushScope(c) == [c EXCEPT !.scopes = Append(@, <<>>)]
PopScope(c)  == [c EXCEPT !.scopes = Front(@)]
InnerScope(c) == Len(c.scopes) > 1

\* An underscored name is not tracked: nothing will find it either.
Declare(c, x, hasLine) ==
    IF x \in Underscored THEN c
    ELSE [c EXCEPT !.scopes[Len(c.scopes)] = (x :> NewBinding(hasLine)) @@ @]
DeclareAll(c, names) == FoldLeft(LAMBDA d, x : Declare(d, x, FALSE), c, names)

Declaring(c, x) == {k \in DOMAIN c.scopes : x \in DOMAIN c.scopes[k]}
MarkUsed(c, x) ==
    IF Declaring(c, x) = {} THEN c
    ELSE LET k == CHOOSE k \in Declaring(c, x) : \A l \in Declaring(c, x) : l <= k
         IN  [c EXCEPT !.scopes[k][x].used = TRUE]

Report(c, kind, x) == [c EXCEPT !.errors = @ \cup {<<kind, x>>}]

\* A read of x, as an identifier or as the middleware of a `use'.
UseName(c, kind, x) ==
    IF Declaring(c, x) = {} /\ x \notin Builtins THEN Report(c, kind, x) ELSE MarkUsed(c, x)

PatternNames(items) == [k \in DOMAIN items |-> items[k].name]

\* collectTopLevel: what the top-level statements declare is known before the
\* first of them is checked.
Hoist(c, s) ==
    CASE s.node = "Fn"         -> [Declare(c, s.name, FALSE) EXCEPT !.userFns = (s.name :> Len(s.params)) @@ @]
      [] s.node \in {"Let", "Middleware"} -> Declare(c, s.name, FALSE)
      [] s.node = "PatternLet" -> DeclareAll(c, PatternNames(s.items))
      [] s.node = "Import"     -> IF s.as = "" THEN c ELSE Declare(c, s.as, FALSE)
      [] OTHER                 -> c

\* Arity is checked by name, whatever the name means where it is called.
CheckArity(c, call) ==
    IF /\ call.callee.node = "Identifier"
       /\ call.callee.name \in DOMAIN c.userFns
       /\ \A k \in DOMAIN call.args : call.args[k].node # "Spread"
       /\ Len(call.args) # c.userFns[call.callee.name]
    THEN Report(c, "arity", call.callee.name) ELSE c

\* The names a route's runtime brings into its body.
RouteNames(method) ==
    <<"request">> \o (CASE method = "WS" -> <<"send", "recv", "close">> [] method = "SSE" -> <<"send">>
                        [] OTHER -> <<>>)

-----------------------------------------------------------------------------
(* checkStmt and checkExpr. *)

RECURSIVE CheckNode(_, _)
CheckAll(nodes, c) == FoldLeft(LAMBDA d, n : CheckNode(n, d), c, nodes)

\* Mutant: without the scope.
CheckInPlace(names, body, c) == CheckAll(body, DeclareAll(c, names))

\* Statements in a scope of their own, in which names are declared.
CheckScoped(names, body, c) == PopScope(CheckAll(body, DeclareAll(PushScope(c), names)))

CheckLet(s, c) ==
    LET d == CheckNode(s.value, c)
    IN  IF InnerScope(d) THEN Declare(d, s.name, TRUE)
        ELSE IF s.name \notin DOMAIN d.scopes[1] THEN d
        ELSE [d EXCEPT !.scopes[1][s.name].hasLine = TRUE]

\* A function below the top level is known from its declaration on.
CheckFn(s, c) ==
    CheckScoped(s.params, s.body,
        IF ~InnerScope(c) THEN c
        ELSE [Declare(c, s.name, FALSE) EXCEPT !.userFns = (s.name :> Len(s.params)) @@ @])

CheckStmt(s, c) ==
    CASE s.node = "Let"        -> CheckLet(s, c)
      [] s.node = "PatternLet" -> DeclareAll(CheckNode(s.value, c), PatternNames(s.items))
      [] s.node = "Assign"     -> CheckNode(s.target, CheckNode(s.value, c))
      [] s.node = "Fn"         -> CheckFn(s, c)
      [] s.node = "Route"      -> CheckScoped(RouteNames(s.method), s.body, c)
      [] s.node = "Group"      -> CheckAll(s.body, c)
      [] s.node = "Middleware" -> CheckScoped(RouteNames(""), s.body, c)
      [] s.node \in {"Test", "Bench", "Spawn"} -> CheckScoped(<<>>, s.body, c)
      [] s.node = "Use"        -> UseName(c, "middleware", s.name)
      [] s.node = "If"         -> CheckScoped(<<>>, s.else, CheckScoped(<<>>, s.then, CheckNode(s.cond, c)))
      [] s.node = "Loop"       ->
           CheckScoped(<<s.var>> \o (IF s.indexVar = "" THEN <<>> ELSE <<s.indexVar>>), s.body,
                       CheckNode(s.iterable, c))
      [] s.node = "While"      -> CheckScoped(<<>>, s.body, CheckNode(s.cond, c))
      [] s.node = "Try"        ->
           CheckScoped(IF s.var = "" THEN <<>> ELSE <<s.var>>, s.catch, CheckScoped(<<>>, s.try, c))
      [] s.node = "Return"     -> CheckNode(s.value, c)
      [] s.node = "Expr"       -> CheckNode(s.expr, c)
      [] s.node \in {"Break", "Continue", "Server", "Static", "Import"} -> c

\* A try expression has no scope, and its catch block no variable.
CheckExpr(e, c) ==
    CASE e.node = "Identifier" -> UseName(c, "identifier", e.name)
      [] e.node = "Binary"     -> CheckNode(e.right, CheckNode(e.left, c))
      [] e.node = "Range"      -> CheckNode(e.end, CheckNode(e.start, c))
      [] e.node = "Unary"      -> CheckNode(e.operand, c)
      [] e.node = "Call"       -> CheckArity(CheckAll(e.args, CheckNode(e.callee, c)), e)
      [] e.node = "Index"      -> CheckNode(e.index, CheckNode(e.object, c))
      [] e.node = "Member"     -> CheckNode(e.object, c)
      [] e.node = "Array"      -> CheckAll(e.elements, c)
      [] e.node = "Object"     -> FoldLeft(LAMBDA d, p : CheckNode(p.value, d), c, e.pairs)
      [] e.node = "FnLit"      -> CheckScoped(e.params, e.body, c)
      [] e.node = "Match"      ->
           FoldLeft(LAMBDA d, a : CheckNode(a.body, IF a.default THEN d ELSE CheckNode(a.pattern, d)),
                    CheckNode(e.subject, c), e.arms)
      [] e.node = "TryExpr"    -> CheckAll(e.catch, CheckAll(e.try, c))
      [] e.node = "Spread"     -> CheckNode(e.inner, c)
      [] e.node \in {"Number", "String", "Bool", "Null"} -> c

DeclarationNodes ==
    {"PatternLet", "Server", "Route", "Middleware", "Use", "Spawn", "Group", "Static", "Import", "Test", "Bench"}

CheckNode(n, c) == IF n.node \in StatementNodes \cup DeclarationNodes THEN CheckStmt(n, c) ELSE CheckExpr(n, c)

FlagUnused(c) ==
    [c EXCEPT !.warnings = {x \in DOMAIN c.scopes[1] : c.scopes[1][x].hasLine /\ ~c.scopes[1][x].used}]

\* The diagnostics of a program.
Check(program) == FlagUnused(CheckAll(program, FoldLeft(Hoist, NewChecker, program)))
=============================================================================
