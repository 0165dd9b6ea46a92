---------------------------- MODULE MCEvaluator ----------------------------
(***************************************************************************)
(* Small programs for Evaluator.                                           *)
(***************************************************************************)
EXTENDS Evaluator

x == Identifier("x")
y == Identifier("y")
n == Identifier("n")
print(e) == ExprStmt(CallExpr(Identifier("print"), <<e>>))
num(k) == NumberLit(k)
eq(a, b) == BinaryExpr("==", a, b)
inc(v) == AssignStmt(v, BinaryExpr("+", v, num(1)))
When(c, s) == IfStmt(c, <<s>>, <<>>)

(* The body of a function of n: a loop of two steps, between a let and a return. *)

Conds == { eq(x, num(2)),
           BinaryExpr("&&", BinaryExpr(">", x, num(1)), BinaryExpr("||", y, eq(n, x))),
           BinaryExpr("??", y, BinaryExpr("<=", n, x)) }

Ends == { BreakStmt, ContinueStmt, ReturnStmt(y) }

Simple == { print(BinaryExpr("+", x, StringLit("a"))),
            AssignStmt(y, BinaryExpr("+", BinaryExpr("??", y, num(0)), num(1))),
            AssignStmt(y, BinaryExpr("||", y, IndexExpr(ArrayLit(<<NullLit, num(0), x>>), x))),
            AssignStmt(y, OptionalExpr(ObjectLit(<<Pair("a", x), Pair("b", y)>>), "b")) }

Inner == { LoopStmt(ArrayLit(<<num(5), num(6), num(7)>>), "a", "i",
                    << When(eq(Identifier("i"), num(k)), e), print(Identifier("a")) >>)
           : k \in {1}, e \in {BreakStmt, ContinueStmt, ReturnStmt(x)} }

Steps == { When(c, e) : c \in Conds, e \in Ends } \cup Simple \cup Inner

Function(params, body) == FnDecl("f", params, body)
CallF(args) == CallExpr(Identifier("f"), args)

Looping(s, t) ==
    << Function(<<"n">>,
         << LetStmt("x", num(0)), LetStmt("y", NullLit),
            WhileStmt(BinaryExpr("<", x, n), << inc(x), s, t, print(x) >>),
            ReturnStmt(x) >>),
       print(CallF(<<num(3)>>)) >>

(* Calls: recursion, a function that does not compile, an error. *)

Factorial ==
    << Function(<<"n">>,
         << When(eq(n, num(0)), ReturnStmt(num(1))),
            ReturnStmt(BinaryExpr("*", n, CallF(<<BinaryExpr("-", n, num(1))>>))) >>),
       print(CallF(<<num(4)>>)) >>

Counter ==
    << LetStmt("y", num(0)),
       Function(<<>>, << LetStmt("g", FnLit(<<>>, <<inc(y)>>)), ExprStmt(CallExpr(Identifier("g"), <<>>)) >>),
       LetStmt("x", num(0)),
       WhileStmt(BinaryExpr("<", x, num(2)), << inc(x), ExprStmt(CallF(<<>>)) >>),
       print(y) >>

Failing ==
    { << Function(<<"n">>, << print(n), ReturnStmt(BinaryExpr(op, num(6), n)) >>),
         TryStmt(<< print(CallF(<<num(0)>>)) >>, "e", << print(Identifier("e")) >>),
         print(CallF(<<num(3)>>)) >> : op \in {"/", "%"} }

ConformingPrograms ==
    { Looping(s, t) : s, t \in Steps } \cup {Factorial, Counter} \cup Failing

(* A function that the compiler refuses, with a return inside an if. *)
EarlyReturn ==
    << Function(<<"n">>,
         << LetStmt("g", FnLit(<<>>, <<>>)),
            When(BinaryExpr(">", n, num(0)), ReturnStmt(num(1))),
            ReturnStmt(num(2)) >>),
       print(CallF(<<num(3)>>)) >>
EarlyReturnPrograms == { EarlyReturn }
=============================================================================
