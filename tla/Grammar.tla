------------------------------ MODULE Grammar ------------------------------
(***************************************************************************)
(* The reference for Parser and Formatter: how a tree is written, with the *)
(* parentheses that the order of the operators calls for and no others     *)
(* (docs/syntax.md and the precedence comments of src/parser/parser.go).   *)
(***************************************************************************)
EXTENDS Parser

\* A lexeme is a sequence of characters.
Word(s) == <<s>>
Sign(op) == LET k == SelectInSeq(LongSymbols, LAMBDA s : Glue(s) = op) IN IF k = 0 THEN <<op>> ELSE LongSymbols[k]
Quoted(s) == <<"\"", s, "\"">>

\* The binding power of the operators, the loosest first.
Power(op) ==
    CASE op = "??" -> 1 [] op = "||" -> 2 [] op = "&&" -> 3 [] op \in {"==", "!="} -> 4
      [] op \in {"<", ">", "<=", ">="} -> 5 [] op \in {"+", "-"} -> 7 [] op \in {"*", "/", "%"} -> 8
RangePower == 6
UnaryPower == 9
Tightest == 10

Tightness(e) ==
    CASE e.node = "Binary" -> Power(e.op)
      [] e.node = "Range"  -> RangePower
      [] e.node = "Unary"  -> UnaryPower
      [] OTHER             -> Tightest

\* The characters of the paths that programs are given.
Paths == { <<"/">>, <<"/", "api">>, <<"/", "users", "/", ":", "id">>, <<"/", "v", "-", "2", ".", "5">>, <<"/", "*">> }
PathText(path) == <<CHOOSE p \in Paths : Glue(p) = path>>

Intersperse(sep, parts) ==
    FoldLeftDomain(LAMBDA acc, k : acc \o (IF k = 1 THEN <<>> ELSE sep) \o parts[k], <<>>, parts)
Comma == <<Word(",")>>
Between(open, parts, close) == <<Word(open)>> \o parts \o <<Word(close)>>

\* The lexemes of e where an operand as tight as `min' is wanted, and of a
\* statement (min is then 0).
RECURSIVE Spell(_, _)
SpellAll(es) == [k \in DOMAIN es |-> Spell(es[k], 0)]
Listed(open, es, close) == Between(open, Intersperse(Comma, SpellAll(es)), close)
Names(open, xs, close) == Between(open, Intersperse(Comma, [k \in DOMAIN xs |-> <<Word(xs[k])>>]), close)
Block(stmts) == Between("{", Intersperse(<<>>, SpellAll(stmts)), "}")

Key(p) == IF p.key = "" THEN <<<<".", ".", ".">>>> ELSE <<Word(p.key), Word(":")>>
Pairs(ps) == Intersperse(Comma, [k \in DOMAIN ps |-> Key(ps[k]) \o Spell(ps[k].value, 0)])
MatchArms(arms) ==
    Intersperse(Comma, [k \in DOMAIN arms |->
        (IF arms[k].default THEN <<Word("_")>> ELSE Spell(arms[k].pattern, Power("||")))
          \o <<<<"=", ">">>>> \o Spell(arms[k].body, 0)])
Items(items) ==
    Intersperse(Comma, [k \in DOMAIN items |->
        (IF items[k].rest THEN <<<<".", ".", ".">>>> ELSE <<>>)
          \o (IF items[k].source = "" THEN <<>> ELSE <<Word(items[k].source), Word(":")>>)
          \o <<Word(items[k].name)>>
          \o (IF items[k].default = NullLit THEN <<>> ELSE <<Word("=")>> \o Spell(items[k].default, 0))])

SpellTry(s) ==
    <<Word("try")>> \o Block(s.try) \o <<Word("catch")>>
      \o (IF s.var = "" THEN <<>> ELSE Between("(", <<Word(s.var)>>, ")")) \o Block(s.catch)

SpellExpr(e) ==
    CASE e.node = "Number"     -> <<Decimal(e.value)>>
      [] e.node = "String"     -> <<Quoted(e.value)>>
      [] e.node = "Bool"       -> <<Word(IF e.value THEN "true" ELSE "false")>>
      [] e.node = "Null"       -> <<Word("null")>>
      [] e.node = "Identifier" -> <<Word(e.name)>>
      [] e.node = "Unary"      -> <<Word(e.op)>> \o Spell(e.operand, UnaryPower)
      [] e.node = "Binary"     -> Spell(e.left, Power(e.op)) \o <<Sign(e.op)>> \o Spell(e.right, Power(e.op) + 1)
      [] e.node = "Range"      ->
           Spell(e.start, RangePower + 1) \o <<Sign(IF e.inclusive THEN "..=" ELSE "..")>>
             \o Spell(e.end, RangePower + 1)
      [] e.node = "Array"      -> Listed("[", e.elements, "]")
      [] e.node = "Spread"     -> <<<<".", ".", ".">>>> \o Spell(e.inner, 0)
      [] e.node = "Object"     -> Between("{", Pairs(e.pairs), "}")
      [] e.node = "Call"       -> Spell(e.callee, Tightest) \o Listed("(", e.args, ")")
      [] e.node = "Index"      -> Spell(e.object, Tightest) \o Between("[", Spell(e.index, 0), "]")
      [] e.node = "Member"     -> Spell(e.object, Tightest) \o <<IF e.optional THEN <<"?", ".">> ELSE <<".">>, Word(e.property)>>
      [] e.node = "FnLit"      -> <<Word("fn")>> \o Names("(", e.params, ")") \o Block(e.body)
      [] e.node = "Match"      -> <<Word("match")>> \o Spell(e.subject, Power("||")) \o Between("{", MatchArms(e.arms), "}")
      [] e.node = "TryExpr"    -> SpellTry(e)

\* A condition that would open with a parenthesis is put between two of them.
SpellCond(e) == LET c == Spell(e, 0) IN IF Head(c) = Word("(") THEN Between("(", c, ")") ELSE c

\* An expression that would open a statement of another kind, likewise, and so
\* the value of a return.
SpellAtStart(e) ==
    LET c == Spell(e, 0) IN IF Head(c) \in {Word("fn"), Word("try")} THEN Between("(", c, ")") ELSE c

SpellStmt(s) ==
    CASE s.node = "Let"        -> <<Word("let"), Word(s.name), Word("=")>> \o Spell(s.value, 0)
      [] s.node = "PatternLet" ->
           <<Word("let")>> \o (IF s.isArray THEN Between("[", Items(s.items), "]") ELSE Between("{", Items(s.items), "}"))
             \o <<Word("=")>> \o Spell(s.value, 0)
      [] s.node = "Assign"     -> Spell(s.target, 0) \o <<Word("=")>> \o Spell(s.value, 0)
      [] s.node = "Fn"         -> <<Word("fn"), Word(s.name)>> \o Names("(", s.params, ")") \o Block(s.body)
      [] s.node = "If"         ->
           <<Word("if")>> \o SpellCond(s.cond) \o Block(s.then)
             \o (IF s.else = <<>> THEN <<>> ELSE <<Word("else")>> \o Block(s.else))
      [] s.node = "While"      -> <<Word("while")>> \o SpellCond(s.cond) \o Block(s.body)
      [] s.node = "Loop"       ->
           <<Word("loop")>> \o Spell(s.iterable, 0) \o <<Word("as")>>
             \o (IF s.indexVar = "" THEN <<>> ELSE <<Word(s.indexVar), Word(",")>>) \o <<Word(s.var)>> \o Block(s.body)
      [] s.node = "Break"      -> <<Word("break")>>
      [] s.node = "Continue"   -> <<Word("continue")>>
      [] s.node = "Return"     -> <<Word("return")>> \o (IF s.value = NullLit THEN <<Word(";")>> ELSE SpellAtStart(s.value))
      [] s.node = "Expr"       -> SpellAtStart(s.expr)
      [] s.node = "Try"        -> SpellTry(s)
      [] s.node = "Server"     -> <<Word("server")>> \o Between("{", Pairs(s.settings), "}")
      [] s.node = "Route"      -> <<Word("route"), Word(s.method)>> \o PathText(s.path) \o Block(s.body)
      [] s.node = "Group"      -> <<Word("group")>> \o PathText(s.path) \o Block(s.body)
      [] s.node = "Middleware" -> <<Word("middleware"), Word(s.name)>> \o Names("(", s.params, ")") \o Block(s.body)
      [] s.node = "Use"        -> <<Word("use"), Word(s.name)>>
      [] s.node = "Spawn"      -> <<Word("spawn")>> \o Block(s.body)
      [] s.node = "Static"     -> <<Word("static"), Quoted(s.dir), Word("at"), Quoted(s.mount)>>
      [] s.node = "Import"     -> <<Word("import"), Quoted(s.path)>> \o (IF s.as = "" THEN <<>> ELSE <<Word("as"), Word(s.as)>>)
      [] s.node = "Test"       -> <<Word("test"), Quoted(s.name)>> \o Block(s.body)
      [] s.node = "Bench"      -> <<Word("bench"), Quoted(s.name)>> \o Block(s.body)

Spell(n, min) ==
    IF n.node \in StatementNodes \cup {"PatternLet", "Server", "Route", "Group", "Middleware", "Use", "Spawn",
                                       "Static", "Import", "Test", "Bench"}
    THEN SpellStmt(n)
    ELSE IF Tightness(n) < min THEN Between("(", SpellExpr(n), ")") ELSE SpellExpr(n)

\* The lexemes of a program; with semicolons, so that no statement runs into
\* the next.
SpellProgram(stmts) == Intersperse(<<Word(";")>>, SpellAll(stmts))

\* A text with the same layout between all lexemes.
Layout(lexemes, gap) == Intersperse(gap, lexemes)
=============================================================================
