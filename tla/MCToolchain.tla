---------------------------- MODULE MCToolchain ----------------------------
(***************************************************************************)
(* Source files for Toolchain.                                             *)
(***************************************************************************)
EXTENDS Toolchain, Grammar

Source(text, tree) == [text |-> text, tree |-> tree]
Spaced1(tree) == Source(Layout(SpellProgram(tree), <<" ">>), tree)

a == Identifier("a")
b == Identifier("b")
f == Identifier("f")
num(k) == NumberLit(k)

(* Every construct inside every other. *)

Operators == {"??", "||", "&&", "==", "<=", "-", "*"}
Around(e) ==
    { BinaryExpr(op, e, b) : op \in Operators } \cup { BinaryExpr(op, b, e) : op \in Operators }
      \cup { UnaryExpr(op, e) : op \in {"!", "-"} }
      \cup { RangeExpr(e, b, TRUE), RangeExpr(num(1), e, FALSE), CallExpr(e, <<b, a>>), CallExpr(f, <<e, SpreadExpr(e)>>),
             IndexExpr(e, b), IndexExpr(a, e), MemberExpr(e, "m"), OptionalExpr(e, "m"),
             ArrayLit(<<e, SpreadExpr(e)>>), ObjectLit(<<Pair("m", e), Pair("", e)>>),
             FnLit(<<"p", "q">>, <<ReturnStmt(e)>>), MatchExpr(e, <<Arm(num(10), b), DefaultArm(e)>>),
             TryExpr(<<ExprStmt(e)>>, "m", <<ExprStmt(b)>>) }

Nested == { <<LetStmt("x", e)>> : e \in UNION { Around(d) : d \in Around(a) } }

(* Every statement, with expressions and blocks in each of its places. *)

Sum == BinaryExpr("*", BinaryExpr("+", a, b), num(2))
Inside == << AssignStmt(MemberExpr(a, "m"), UnaryExpr("-", b)), ExprStmt(CallExpr(f, <<StringLit("s")>>)) >>
Blocks(body) ==
    { FnDecl("f", <<"p", "q">>, body), IfStmt(Sum, body, body), IfStmt(a, body, <<IfStmt(b, body, <<>>)>>),
      WhileStmt(BinaryExpr("<", Sum, b), body), LoopStmt(RangeExpr(num(0), b, FALSE), "x", "i", body),
      LoopStmt(a, "x", "", body), TryStmt(body, "e", body), TryStmt(body, "", body), SpawnStmt(body),
      RouteDecl("GET", "/users/:id", body), GroupStmt("/api", body), GroupStmt("/*", body),
      RouteDecl("WS", "/v-2.5", body), MiddlewareDecl("m", <<"p">>, body), TestDecl("t", body), BenchDecl("t", body) }
Plain ==
    { PatternLet(TRUE, <<PatternItem("x", "", FALSE, num(1)), PatternItem("y", "", TRUE, NullLit)>>, a),
      PatternLet(FALSE, <<PatternItem("x", "m", FALSE, NullLit), PatternItem("y", "", FALSE, Sum)>>, a),
      ServerBlock(<<Pair("port", num(8)), Pair("cors", BoolLit(TRUE))>>), UseStmt("m"), BreakStmt, ContinueStmt,
      ReturnStmt(Sum), ReturnStmt(NullLit), StaticStmt("d", "m"), ImportStmt("d", "m"), ImportStmt("d", ""),
      AssignStmt(IndexExpr(a, num(0)), Sum), ExprStmt(NullLit) }
Statements1 == Plain \cup UNION { Blocks(<<s>> \o Inside) : s \in Plain \cup Blocks(<<>>) }
Programs1 == { <<s, ExprStmt(ArrayLit(<<a>>))>> : s \in Statements1 }

(* Spellings of their own. *)

Other ==
    { Source(<<"x", "?", "?", "=", "a">>, <<AssignStmt(Identifier("x"), BinaryExpr("??", Identifier("x"), a))>>),
      Source(<<"x", "+", "=", "-", "b">>,
             <<AssignStmt(Identifier("x"), BinaryExpr("+", Identifier("x"), UnaryExpr("-", b)))>>),
      Source(<<"a", "|", ">", "f", "|", ">", "f", "(", "b", ")">>,
             <<ExprStmt(CallExpr(f, <<CallExpr(f, <<a>>), b>>))>>),
      Source(<<"get", " ", "/", "*", " ", "{", "}">>, <<RouteDecl("GET", "/*", <<>>)>>),
      Source(<<"get", " ", "/", "users", "/", ":", "id", "{", "return", "}">>,
             <<RouteDecl("GET", "/users/:id", <<ReturnStmt(NullLit)>>)>>),
      Source(<<"let", " ", "x", "=", "0", "x", "1", "_", "0", "+", "0", "b", "1", "1", "\n", "let", " ", "y", ":", "int", "=",
               "1", ".", ".", "=", "9">>,
             <<LetStmt("x", BinaryExpr("+", num(16), num(3))), LetStmt("y", RangeExpr(num(1), num(9), TRUE))>>),
      Source(<<"x", "=", "\"", "s", "$", "{", "a", "+", "b", "}", "\"">>,
             <<AssignStmt(Identifier("x"),
                 BinaryExpr("+", BinaryExpr("+", StringLit("s"), BinaryExpr("+", a, b)), StringLit("")))>>),
      Source(<<"x", "=", "'", "s", "\\", "n", "\"", "\\", "\\", "'", ";">>,
             <<AssignStmt(Identifier("x"), StringLit("s\n\"\\"))>>),
      Source(<<"return", "\n", "let", " ", "x", "=", "a">>, <<ReturnStmt(NullLit), LetStmt("x", a)>>) }

(* Layout: comments, blank lines and missing blanks between any two lexemes. *)

Commented ==
    { <<IfStmt(a, <<ReturnStmt(UnaryExpr("-", b))>>, <<LetStmt("x", ObjectLit(<<Pair("m", a)>>))>>)>>,
      <<RouteDecl("GET", "/users/:id", <<ExprStmt(CallExpr(MemberExpr(a, "m"), <<b, num(1)>>))>>), UseStmt("m")>>,
      <<LetStmt("x", MatchExpr(a, <<Arm(StringLit("s"), FnLit(<<>>, <<>>))>>)), AssignStmt(b, UnaryExpr("!", a))>> }
Trivia ==
    { <<"/", "/", " ", "c", " ", "\n">>, <<"#", "c", "\n">>, <<"/", "*", "c", "\n", "*", "/">>, <<"\n">>,
      <<"\n", "\n", "\n", "\n">>, <<"\t">> }
WithTrivia(lexemes, k, t) ==
    Layout(SubSeq(lexemes, 1, k), <<" ">>) \o <<" ">> \o t \o <<" ">> \o Layout(SubSeq(lexemes, k + 1, Len(lexemes)), <<" ">>)
LaidOut == UNION { { Source(WithTrivia(SpellProgram(p), k, t), NoTree)
                     : k \in 0 .. Len(SpellProgram(p)), t \in Trivia } : p \in Commented }

(* Names, for mx check and mx run. *)

x == Identifier("x")
g == Identifier("g")
Lines ==
    { LetStmt("x", num(1)), ExprStmt(x), LetStmt("y", x), FnDecl("g", <<>>, <<ExprStmt(x)>>),
      ExprStmt(CallExpr(g, <<>>)), IfStmt(BoolLit(TRUE), <<LetStmt("x", num(2)), ExprStmt(x)>>, <<>>),
      FnDecl("g", <<"x">>, <<LetStmt("y", FnLit(<<>>, <<ExprStmt(x)>>)), ReturnStmt(CallExpr(Identifier("y"), <<>>))>>),
      TryStmt(<<LetStmt("x", num(1))>>, "x", <<ExprStmt(x)>>),
      LoopStmt(ArrayLit(<<num(1)>>), "x", "y", <<ExprStmt(ArrayLit(<<x, Identifier("y")>>))>>),
      WhileStmt(BoolLit(FALSE), <<ExprStmt(x)>>), ExprStmt(MatchExpr(x, <<DefaultArm(x)>>)) }
NamedPrograms == { <<s, t>> : s \in Lines, t \in Lines } \cup { <<s, t, ExprStmt(CallExpr(g, <<>>))>> : s \in Lines, t \in Lines }

MCRunnable == NamedPrograms
MCSources ==
    { Spaced1(p) : p \in Nested \cup Programs1 \cup NamedPrograms } \cup Other \cup LaidOut
=============================================================================
