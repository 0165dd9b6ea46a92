----------------------------- MODULE Evaluator -----------------------------
(***************************************************************************)
(* The two engines that run an MX program: the tree-walker of              *)
(* src/interpreter/interpreter.go (execStmt, evalExpr, callFunction) and   *)
(* the virtual machine of src/interpreter/vm.go, which --bytecode puts in  *)
(* front of it for the statements, expressions and function bodies that    *)
(* compile.                                                                *)
(*                                                                         *)
(* Running a piece of a program is a function of the store it starts in:   *)
(* it results in a signal, a value and the store it leaves.  `ok' is a     *)
(* normal end; return, break and continue are the Go errors that unwind to *)
(* their construct; error is a runtime error; panic is a Go panic, which   *)
(* nothing in a program catches.                                           *)
(***************************************************************************)
EXTENDS Bytecode, FiniteSets

CONSTANT Programs   \* the programs to run, sequences of statements

VARIABLES program,  \* the program being run
          next,     \* the index of the next top-level statement
          run       \* run[e]: how engine e's run has ended so far, and its store

vars == <<program, next, run>>

\* Without --bytecode, and with it.
Engines == {"walker", "machine"}

Result(sig, v, st) == [sig |-> sig, v |-> v, st |-> st]
Ok(v, st)  == Result("ok", v, st)
Fail(st)   == Result("error", Null, st)

\* The rest of a computation, unless this part of it did not end normally.
Then(r, Rest(_)) == IF r.sig = "ok" THEN Rest(r) ELSE r

NewArray(elements, st) == Ok(Array(NewAt(st)), Alloc(st, elements))
NewObject(m, st)       == Ok(Object(NewAt(st)), Alloc(st, m))

-----------------------------------------------------------------------------
(* Operators, as the tree-walker has them. *)

\* Go's %: the sign of the dividend.
Sign(n) == IF n < 0 THEN -1 ELSE 1
Abs(n) == Sign(n) * n
Quotient(a, b) == Sign(a) * Sign(b) * (Abs(a) \div Abs(b))
Remainder(a, b) == a - b * Quotient(a, b)

\* The order of the strings that programs compare.
Alphabet == <<"", "a", "b", "c">>
StringRank(s) == CHOOSE k \in DOMAIN Alphabet : Alphabet[k] = s

Compare(op, a, b) ==
    CASE op = "<" -> a < b [] op = ">" -> a > b [] op = "<=" -> a <= b [] op = ">=" -> a >= b

Both(kind, a, b) == a.kind = kind /\ b.kind = kind

Binary(op, a, b, st) ==
    CASE op = "+" ->
           IF "string" \in {a.kind, b.kind} THEN Ok(Str(Display(a, st) \o Display(b, st)), st)
           ELSE IF Both("number", a, b) THEN Ok(Number(a.number + b.number), st)
           ELSE IF Both("array", a, b) THEN NewArray(st.heap[a.at] \o st.heap[b.at], st)
           ELSE Fail(st)
      [] op \in {"-", "*", "/", "%"} ->
           IF ~Both("number", a, b) \/ (op \in {"/", "%"} /\ b.number = 0) THEN Fail(st)
           ELSE Ok(Number(CASE op = "-" -> a.number - b.number
                            [] op = "*" -> a.number * b.number
                            [] op = "/" -> Quotient(a.number, b.number)
                            [] op = "%" -> Remainder(a.number, b.number)), st)
      [] op = "==" -> Ok(Boolean(ValuesEqual(a, b, st)), st)
      [] op = "!=" -> Ok(Boolean(~ValuesEqual(a, b, st)), st)
      [] op \in {"<", ">", "<=", ">="} ->
           IF Both("number", a, b) THEN Ok(Boolean(Compare(op, a.number, b.number)), st)
           ELSE IF Both("string", a, b)
                THEN Ok(Boolean(Compare(op, StringRank(a.string), StringRank(b.string))), st)
           ELSE Fail(st)

\* Strings are indexed by programs only to fail or to miss: their characters
\* are not modelled.
IndexValue(v, i, st) ==
    CASE v.kind = "array" /\ i.kind = "number" ->
           LET a == st.heap[v.at]
               k == IF i.number < 0 THEN i.number + Len(a) ELSE i.number
           IN  Ok(IF k \in 0 .. Len(a) - 1 THEN a[k + 1] ELSE Null, st)
      [] v.kind = "object" /\ i.kind = "string" -> Ok(MapGet(st.heap[v.at], i.string), st)
      [] v.kind = "string" /\ i.kind = "number" -> Ok(Null, st)
      [] OTHER -> Fail(st)

MemberAccess(v, p, st) ==
    CASE v.kind = "object" -> Ok(MapGet(st.heap[v.at], p), st)
      [] v.kind = "array" /\ p = "length" -> Ok(Number(Len(st.heap[v.at])), st)
      [] OTHER -> Fail(st)

\* Whether the left operand is the result.
ShortCircuits(op, v, st) ==
    CASE op = "&&" -> ~IsTruthy(v, st) [] op = "||" -> IsTruthy(v, st) [] op = "??" -> v # Null

-----------------------------------------------------------------------------
(* The tree-walker. *)

\* Run(n, env, st): what the expression, the statement or the function body n
\* does in the scope env.
RECURSIVE Run(_, _, _)

\* A function's body as a node to run.
Body(stmts) == [node |-> "Body", body |-> stmts]

\* The values of a list of expressions, spreads expanded.
RECURSIVE EvalAll(_, _, _, _)
EvalAll(es, env, done, st) ==
    IF es = <<>> THEN Ok(done, st)
    ELSE IF Head(es).node = "Spread"
         THEN Then(Run(Head(es).inner, env, st),
                   LAMBDA r : IF r.v.kind # "array" THEN Fail(r.st)
                              ELSE EvalAll(Tail(es), env, done \o r.st.heap[r.v.at], r.st))
         ELSE Then(Run(Head(es), env, st),
                   LAMBDA r : EvalAll(Tail(es), env, Append(done, r.v), r.st))

RECURSIVE EvalPairs(_, _, _, _)
EvalPairs(pairs, env, m, st) ==
    IF pairs = <<>> THEN Ok(m, st)
    ELSE LET set(done, pair) == MapSet(done, pair[1], pair[2])
             spread(o) == [k \in DOMAIN o.keys |-> <<o.keys[k], o.values[o.keys[k]]>>]
             rest(pairsSet, s) == EvalPairs(Tail(pairs), env, FoldLeft(set, m, pairsSet), s)
         IN  Then(Run(Head(pairs).value, env, st),
                  LAMBDA r : IF Head(pairs).key # "" THEN rest(<<<<Head(pairs).key, r.v>>>>, r.st)
                             ELSE IF r.v.kind # "object" THEN Fail(r.st)
                             ELSE rest(spread(r.st.heap[r.v.at]), r.st))

RECURSIVE EvalArms(_, _, _, _)
EvalArms(arms, v, env, st) ==
    IF arms = <<>> THEN Ok(Null, st)
    ELSE IF Head(arms).default THEN Run(Head(arms).body, env, st)
    ELSE Then(Run(Head(arms).pattern, env, st),
              LAMBDA p : IF ValuesEqual(v, p.v, p.st) THEN Run(Head(arms).body, env, p.st)
                         ELSE EvalArms(Tail(arms), v, env, p.st))

\* Everything but a return and a panic is caught, break and continue too.
Caught(r) == r.sig \in {"error", "break", "continue"}

\* The scope of a catch block, with the error's message.
CatchStore(r, env, x) ==
    LET st == Alloc(NewEnv(r.st, env), MapSet(NewOrderedMap, "message", Str(r.sig)))
    IN  IF x = "" THEN st ELSE EnvSet(st, NewestEnv(st), x, Object(Len(st.heap)))

\* The value of the last expression statement; a return ends the block with its
\* value, and the function goes on.
RECURSIVE BlockAsValue(_, _, _, _)
BlockAsValue(stmts, env, last, st) ==
    IF stmts = <<>> THEN Ok(last, st)
    ELSE IF Head(stmts).node = "Expr"
    THEN Then(Run(Head(stmts).expr, env, st), LAMBDA r : BlockAsValue(Tail(stmts), env, r.v, r.st))
    ELSE LET r == Run(Head(stmts), env, st)
         IN  CASE r.sig = "ok"     -> BlockAsValue(Tail(stmts), env, last, r.st)
               [] r.sig = "return" -> Ok(r.v, r.st)
               [] OTHER            -> r

\* The call of a function in a scope of its own, below the one it was made in.
CallFunction(f, args, st) ==
    IF f.native
    THEN Ok(Null, [st EXCEPT !.out = Append(@, [k \in DOMAIN args |-> Display(args[k], st)])])
    ELSE LET param(k) == IF k <= Len(args) THEN args[k] ELSE Null
             bind(s, k) == EnvSet(s, NewestEnv(s), f.params[k], param(k))
             scope == FoldLeftDomain(bind, NewEnv(st, f.env), f.params)
         IN  Run(Body(f.body), NewestEnv(scope), scope)

Eval(e, env, st) ==
    CASE e.node \in Literals -> Ok(Literal(e), st)
      [] e.node = "Identifier" ->
           IF Bound(st, env, e.name) THEN Ok(EnvGet(st, env, e.name), st) ELSE Fail(st)
      [] e.node = "Range" ->
           Then(Run(e.start, env, st), LAMBDA a :
           Then(Run(e.end, env, a.st), LAMBDA b :
             IF ~Both("number", a.v, b.v) THEN Fail(b.st)
             ELSE LET last == IF e.inclusive THEN b.v.number ELSE b.v.number - 1
                  IN  NewArray([k \in 1 .. last - a.v.number + 1 |-> Number(a.v.number + k - 1)], b.st)))
      [] e.node = "Array"  -> Then(EvalAll(e.elements, env, <<>>, st), LAMBDA r : NewArray(r.v, r.st))
      [] e.node = "Object" -> Then(EvalPairs(e.pairs, env, NewOrderedMap, st), LAMBDA r : NewObject(r.v, r.st))
      [] e.node = "Unary"  ->
           Then(Run(e.operand, env, st), LAMBDA r :
             IF e.op = "!" THEN Ok(Boolean(~IsTruthy(r.v, r.st)), r.st)
             ELSE IF r.v.kind = "number" THEN Ok(Number(-r.v.number), r.st) ELSE Fail(r.st))
      [] e.node = "Binary" /\ e.op \in {"&&", "||", "??"} ->
           Then(Run(e.left, env, st), LAMBDA l :
             IF ShortCircuits(e.op, l.v, l.st) THEN l ELSE Run(e.right, env, l.st))
      [] e.node = "Binary" ->
           Then(Run(e.left, env, st), LAMBDA l :
           Then(Run(e.right, env, l.st), LAMBDA r : Binary(e.op, l.v, r.v, r.st)))
      [] e.node = "Call" ->
           Then(Run(e.callee, env, st), LAMBDA f :
             IF f.v.kind # "function"
             THEN \* the hint about a similar member evaluates the object once more
                  IF e.callee.node = "Member" THEN Fail(Run(e.callee.object, env, f.st).st) ELSE Fail(f.st)
             ELSE Then(EvalAll(e.args, env, <<>>, f.st), LAMBDA args : CallFunction(f.v, args.v, args.st)))
      [] e.node = "Index" ->
           Then(Run(e.object, env, st), LAMBDA o :
           Then(Run(e.index, env, o.st), LAMBDA i : IndexValue(o.v, i.v, i.st)))
      [] e.node = "Member" ->
           Then(Run(e.object, env, st), LAMBDA o :
             IF e.optional /\ o.v = Null THEN o ELSE MemberAccess(o.v, e.property, o.st))
      [] e.node = "FnLit"  -> Ok(Closure("", e.params, e.body, env), st)
      [] e.node = "Match"  ->
           Then(Run(e.subject, env, st), LAMBDA s : EvalArms(e.arms, s.v, env, s.st))
      [] e.node = "TryExpr" ->
           LET scope == NewEnv(st, env)
               r == BlockAsValue(e.try, NewestEnv(scope), Null, scope)
               catch == CatchStore(r, env, e.var)
           IN  IF Caught(r) THEN BlockAsValue(e.catch, NewestEnv(catch), Null, catch) ELSE r

RECURSIVE ExecBlock(_, _, _)
ExecBlock(stmts, env, st) ==
    IF stmts = <<>> THEN Ok(Null, st)
    ELSE Then(Run(Head(stmts), env, st), LAMBDA r : ExecBlock(Tail(stmts), env, r.st))

\* A block in a scope of its own.
ExecScoped(stmts, env, st) == LET s == NewEnv(st, env) IN ExecBlock(stmts, NewestEnv(s), s)

\* What an iteration's end means to its loop.
LoopEnds(r) == r.sig \notin {"ok", "continue"}
LoopResult(r) == IF r.sig = "break" THEN Ok(Null, r.st) ELSE r

RECURSIVE While(_, _, _)
While(s, env, st) ==
    Then(Run(s.cond, env, st), LAMBDA c :
      IF ~IsTruthy(c.v, c.st) THEN Ok(Null, c.st)
      ELSE LET r == ExecScoped(s.body, env, c.st)
           IN  IF LoopEnds(r) THEN LoopResult(r) ELSE While(s, env, r.st))

\* The k-th item of what is looped over, read when its iteration starts.
Item(v, k, st) ==
    CASE v.kind = "array"  -> st.heap[v.at][k + 1]
      [] v.kind = "number" -> Number(k)
      [] v.kind = "object" -> Str(st.heap[v.at].keys[k + 1])

\* The number of iterations, fixed when the loop starts.
Items(v, st) ==
    CASE v.kind = "array"  -> Len(st.heap[v.at])
      [] v.kind = "number" -> v.number
      [] v.kind = "object" -> Len(st.heap[v.at].keys)

RECURSIVE Iterate(_, _, _, _, _, _)
Iterate(s, v, n, k, env, st) ==
    IF k >= n THEN Ok(Null, st)
    ELSE LET scope == EnvSet(NewEnv(st, env), NewestEnv(st) + 1, s.var, Item(v, k, st))
             ready == IF s.indexVar = "" THEN scope
                      ELSE EnvSet(scope, NewestEnv(scope), s.indexVar, Number(k))
             r == ExecBlock(s.body, NewestEnv(ready), ready)
         IN  IF LoopEnds(r) THEN LoopResult(r) ELSE Iterate(s, v, n, k + 1, env, r.st)

Loop(s, env, st) ==
    Then(Run(s.iterable, env, st), LAMBDA it :
      IF it.v.kind \in {"array", "number", "object"}
      THEN Iterate(s, it.v, Items(it.v, it.st), 0, env, it.st) ELSE Fail(it.st))

Assign(s, env, st) ==
    Then(Run(s.value, env, st), LAMBDA r :
      CASE s.target.node = "Identifier" -> Ok(Null, EnvAssign(r.st, env, s.target.name, r.v))
        [] s.target.node = "Member" ->
             Then(Run(s.target.object, env, r.st), LAMBDA o :
               IF o.v.kind # "object" THEN Fail(o.st)
               ELSE Ok(Null, [o.st EXCEPT !.heap[o.v.at] = MapSet(@, s.target.property, r.v)]))
        [] s.target.node = "Index" ->
             Then(Run(s.target.object, env, r.st), LAMBDA o :
             Then(Run(s.target.index, env, o.st), LAMBDA i :
               CASE /\ o.v.kind = "array"
                    /\ i.v.kind = "number"
                    /\ i.v.number \in 0 .. Len(i.st.heap[o.v.at]) - 1 ->
                      Ok(Null, [i.st EXCEPT !.heap[o.v.at][i.v.number + 1] = r.v])
                 [] o.v.kind = "object" /\ i.v.kind = "string" ->
                      Ok(Null, [i.st EXCEPT !.heap[o.v.at] = MapSet(@, i.v.string, r.v)])
                 [] OTHER -> Fail(i.st))))

WalkStmt(s, env, st) ==
    CASE s.node = "Let"      -> Then(Run(s.value, env, st), LAMBDA r : Ok(Null, EnvSet(r.st, env, s.name, r.v)))
      [] s.node = "Assign"   -> Assign(s, env, st)
      [] s.node = "Fn"       -> Ok(Null, EnvSet(st, env, s.name, Closure(s.name, s.params, s.body, env)))
      [] s.node = "If"       ->
           Then(Run(s.cond, env, st), LAMBDA c :
             ExecScoped(IF IsTruthy(c.v, c.st) THEN s.then ELSE s.else, env, c.st))
      [] s.node = "While"    -> While(s, env, st)
      [] s.node = "Loop"     -> Loop(s, env, st)
      [] s.node = "Break"    -> Result("break", Null, st)
      [] s.node = "Continue" -> Result("continue", Null, st)
      [] s.node = "Return"   -> Then(Run(s.value, env, st), LAMBDA r : Result("return", r.v, r.st))
      [] s.node = "Expr"     -> Run(s.expr, env, st)
      [] s.node = "Try"      ->
           LET r == ExecScoped(s.try, env, st)
               catch == CatchStore(r, env, s.var)
           IN  IF Caught(r) THEN ExecBlock(s.catch, NewestEnv(catch), catch) ELSE r

-----------------------------------------------------------------------------
(* The machine, and where it stands in for the tree-walker. *)

ValueOf(stack) == IF stack = <<>> THEN Null ELSE Last(stack)

\* A Value's Number field, whatever its kind.
AsNumber(v) == IF v.kind = "number" THEN v.number ELSE 0

VMBinary(op, a, b, st) ==
    LET x == AsNumber(a)
        y == AsNumber(b)
    IN  CASE op = "Add" -> IF Both("number", a, b) THEN Ok(Number(x + y), st)
                           ELSE Ok(Str(Display(a, st) \o Display(b, st)), st)
          [] op = "Sub" -> Ok(Number(x - y), st)
          [] op = "Mul" -> Ok(Number(x * y), st)
          [] op = "Div" -> IF y = 0 THEN Fail(st) ELSE Ok(Number(Quotient(x, y)), st)
          [] op = "Mod" -> IF y = 0 THEN Fail(st) ELSE Ok(Number(Remainder(x, y)), st)
          [] op = "Eq"  -> Ok(Boolean(ValuesEqual(a, b, st)), st)
          [] op = "Neq" -> Ok(Boolean(~ValuesEqual(a, b, st)), st)
          [] op = "Lt"  -> Ok(Boolean(x < y), st)
          [] op = "Gt"  -> Ok(Boolean(x > y), st)
          [] op = "Lte" -> Ok(Boolean(x <= y), st)
          [] op = "Gte" -> Ok(Boolean(x >= y), st)

GetIndex(v, i, st) ==
    CASE v.kind = "array" /\ i.kind = "number" ->
           LET a == st.heap[v.at]
           IN  Ok(IF i.number \in 0 .. Len(a) - 1 THEN a[i.number + 1] ELSE Null, st)
      [] v.kind = "object" /\ i.kind = "string" -> Ok(MapGet(st.heap[v.at], i.string), st)
      [] v.kind = "string" /\ i.kind = "number" -> Ok(Null, st)
      [] v.kind = "null" -> Ok(Null, st)
      [] OTHER -> Fail(st)

GetField(v, p, st) ==
    CASE v.kind = "object" -> Ok(MapGet(st.heap[v.at], p), st)
      [] v.kind = "null" -> Ok(Null, st)
      [] OTHER -> Fail(st)

\* The length of a string is not modelled.
Length(v, st) ==
    CASE v.kind = "array"  -> Ok(Number(Len(st.heap[v.at])), st)
      [] v.kind = "object" -> Ok(Number(Len(st.heap[v.at].keys)), st)
      [] v.kind = "null"   -> Ok(Number(0), st)
      [] OTHER -> Fail(st)

\* What an instruction that is neither a jump nor a store computes from the
\* operands it pops, the deepest first.
Compute(ins, args, env, st) ==
    CASE ins.op = "Const"   -> Ok(ins.arg, st)
      [] ins.op = "LoadVar" -> IF Bound(st, env, ins.arg) THEN Ok(EnvGet(st, env, ins.arg), st) ELSE Fail(st)
      [] ins.op = "Not"     -> Ok(Boolean(~IsTruthy(args[1], st)), st)
      [] ins.op = "Neg"     -> Ok(Number(-AsNumber(args[1])), st)
      [] ins.op = "Call"    -> IF args[1].kind = "function" THEN CallFunction(args[1], Tail(args), st)
                                                            ELSE Fail(st)
      [] ins.op = "GetField"   -> GetField(args[1], ins.arg, st)
      [] ins.op = "GetIndex"   -> GetIndex(args[1], args[2], st)
      [] ins.op = "Length"     -> Length(args[1], st)
      [] ins.op = "MakeArray"  -> NewArray(args, st)
      [] ins.op = "MakeObject" ->
           NewObject(FoldLeft(LAMBDA m, k : MapSet(m, args[2 * k - 1].string, args[2 * k]),
                              NewOrderedMap, [k \in 1 .. ins.arg |-> k]), st)
      [] OTHER -> VMBinary(ins.op, args[1], args[2], st)

\* Whether a jump is taken.
Taken(ins, stack, st) ==
    CASE ins.op = "Jump"             -> TRUE
      [] ins.op = "JumpIfFalse"      -> ~IsTruthy(Last(stack), st)
      [] ins.op = "AndJump"          -> ShortCircuits("&&", Last(stack), st)
      [] ins.op = "OrJump"           -> ShortCircuits("||", Last(stack), st)
      [] ins.op = "NullishJump"      -> ShortCircuits("??", Last(stack), st)
      [] ins.op = "JumpIfNullKeep"   -> Last(stack) = Null

\* A jump pops its operand, except the value that a short circuit keeps.
Kept(ins, stack, taken) ==
    IF \/ ins.op \in {"Jump", "JumpIfNullKeep"}
       \/ taken /\ ins.op # "JumpIfFalse" THEN stack ELSE Front(stack)

\* A run of code: the next address, the stack, and what has become of it.
Ended(code, m) == m.pc >= Len(code) \/ m.r.sig # "ok"

\* The step of an instruction that pops args and leaves `rest' below them.
StepIns(ins, args, rest, env, m) ==
    LET goto(pc, stack, r) == [pc |-> pc, stack |-> stack, r |-> r]
        fall(stack, r) == goto(m.pc + 1, stack, r)
        jump(stack, taken) == goto(IF taken THEN ins.arg ELSE m.pc + 1, Kept(ins, stack, taken), m.r)
        push(r) == fall(Append(rest, r.v), r)
    IN  CASE ins.op = "Pop"       -> fall(rest, m.r)
          [] ins.op = "StoreVar"  -> fall(rest, Ok(Null, EnvSet(m.r.st, env, ins.arg, args[1])))
          [] ins.op = "AssignVar" -> fall(rest, Ok(Null, EnvAssign(m.r.st, env, ins.arg, args[1])))
          [] ins.op \in Jumps     -> jump(m.stack, Taken(ins, m.stack, m.r.st))
          [] OTHER                -> push(Compute(ins, args, env, m.r.st))

StepVM(code, env, m) ==
    LET step(ins, below) ==
          CASE below < 0           -> [m EXCEPT !.r = Result("panic", Null, @.st)]
            [] ins.op = "Return"   -> [m EXCEPT !.pc = Len(code)]
            [] OTHER -> StepIns(ins, SubSeq(m.stack, below + 1, Len(m.stack)),
                                SubSeq(m.stack, 1, below), env, m)
    IN  step(code[m.pc + 1], Len(m.stack) - Pops(code[m.pc + 1]))

\* 2^k instructions, or as many as there are before the code ends.
RECURSIVE RunFor(_, _, _, _)
RunFor(k, code, env, m) ==
    CASE Ended(code, m) -> m
      [] ~Ended(code, m) /\ k = 0 -> StepVM(code, env, m)
      [] OTHER -> RunFor(k - 1, code, env, RunFor(k - 1, code, env, m))

\* A run of the code does not exceed 2^LogMaxInstructions: no property would
\* hold of one that did, for it counts as a panic.
LogMaxInstructions == 10

Outcome(code, m) ==
    CASE ~Ended(code, m)   -> Result("panic", Null, m.r.st)
      [] m.r.sig # "ok" -> m.r
      [] OTHER            -> Ok(ValueOf(m.stack), m.r.st)

RunVM(code, env, st) ==
    Outcome(code, RunFor(LogMaxInstructions, code, env, [pc |-> 0, stack |-> <<>>, r |-> Ok(Null, st)]))

\* The pieces of a program that go to the machine if they compile.
Tried(n) ==
    CASE n.node = "Body" -> CompilesStmts(n.body, FALSE)
      [] n.node \in {"Let", "Assign", "If", "While", "Expr"} -> CompilesStmts(<<n>>, FALSE)
      [] OTHER -> FALSE

\* Their code: the value of an expression statement is left on the stack.
Lowered(n) == IF n.node = "Expr" THEN CompileExpr(n.expr)
              ELSE CompileBlock(IF n.node = "Body" THEN n.body ELSE <<n>>)

\* The end of a function's body is the end of its call.
CallResult(r) == CASE r.sig = "ok"     -> Ok(Null, r.st)
                   [] r.sig = "return" -> Ok(r.v, r.st)
                   [] OTHER            -> r

Run(n, env, st) ==
    IF st.bytecode /\ Tried(n) THEN RunVM(Lowered(n), env, st)
    ELSE CASE n.node = "Body"             -> CallResult(ExecBlock(n.body, env, st))
           [] n.node \in StatementNodes -> WalkStmt(n, env, st)
           [] OTHER                       -> Eval(n, env, st)

-----------------------------------------------------------------------------
(* Loading a program: each engine runs the next top-level statement.  A     *)
(* return at the top level is ignored; any other signal stops the program. *)

Start(bytecode) == [sig |-> "ok", st |-> EmptyStore @@ [bytecode |-> bytecode]]

Left(r) == [ sig |-> CASE r.sig \in {"ok", "return"}               -> "ok"
                       [] r.sig \in {"error", "break", "continue"} -> "error"
                       [] OTHER                                     -> "panic",
             st  |-> r.st ]

RunOn(e, s) == IF e.sig # "ok" THEN e ELSE Left(Run(s, Globals, e.st))

Init ==
    /\ program \in Programs
    /\ next = 1
    /\ run = [e \in Engines |-> Start(e = "machine")]

LoadStatement ==
    /\ next <= Len(program)
    /\ run' = [e \in Engines |-> RunOn(run[e], program[next])]
    /\ next' = next + 1
    /\ UNCHANGED program

Next == LoadStatement

Spec == Init /\ [][Next]_vars

-----------------------------------------------------------------------------
(* Properties. *)

\* CHANGELOG.md, "so semantics are preserved on programs the VM only partially
\* covers": a program has the same effects with and without --bytecode, whatever
\* mix of compiled and walked pieces it is: what it prints in which order, and
\* at which statement it fails.
SameOutcome == /\ run["walker"].sig = run["machine"].sig
               /\ run["walker"].st.out = run["machine"].st.out

\* The blocks of statements that the machine may be given.
RECURSIVE Blocks(_)
Blocks(stmts) ==
    UNION { LET s == stmts[k]
            IN  {<<s>>} \cup
                CASE s.node = "Fn"                 -> {s.body} \cup Blocks(s.body)
                  [] s.node = "If"                 -> Blocks(s.then) \cup Blocks(s.else)
                  [] s.node \in {"While", "Loop"} -> Blocks(s.body)
                  [] s.node = "Try"                -> Blocks(s.try) \cup Blocks(s.catch)
                  [] OTHER                         -> {}
          : k \in DOMAIN stmts }

\* Whatever way the jumps of compiled code are taken, they stay inside it, no
\* instruction misses an operand (which would be a Go panic), and loops leave
\* nothing on the stack.
CodeIsSound ==
    next = 1 => \A block \in Blocks(program) :
                    CompilesStmts(block, FALSE) => WellStacked(CompileBlock(block))
=============================================================================
