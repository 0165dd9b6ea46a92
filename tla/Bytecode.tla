------------------------------ MODULE Bytecode ------------------------------
(***************************************************************************)
(* The bytecode compiler of src/interpreter/vm.go: which syntax trees it   *)
(* accepts, and the code it makes of them.                                 *)
(*                                                                         *)
(* Code is a sequence of instructions; addresses count from 0, so that     *)
(* code[pc + 1] is the instruction at pc.  An instruction holds the        *)
(* constant or the name itself, where the program's instructions index     *)
(* tables.  Compiling at an address yields code with absolute jumps.       *)
(***************************************************************************)
EXTENDS Language

Ins(op, arg) == [op |-> op, arg |-> arg]

Literals == {"Number", "String", "Bool", "Null"}
Jumps == {"Jump", "JumpIfFalse", "AndJump", "OrJump", "NullishJump", "JumpIfNullKeep"}

\* Jumps that the loop around them will patch.
ToBreak    == -1
ToContinue == -2

-----------------------------------------------------------------------------
(* What the compiler refuses: the caller falls back to the tree-walker. *)

RECURSIVE CompilesExpr(_)
CompilesExpr(e) ==
    CASE e.node \in Literals \cup {"Identifier"} -> TRUE
      [] e.node = "Unary"  -> CompilesExpr(e.operand)
      [] e.node = "Binary" -> CompilesExpr(e.left) /\ CompilesExpr(e.right)
      [] e.node = "Call"   -> CompilesExpr(e.callee) /\ \A k \in DOMAIN e.args : CompilesExpr(e.args[k])
      [] e.node = "Member" -> CompilesExpr(e.object)
      [] e.node = "Index"  -> CompilesExpr(e.object) /\ CompilesExpr(e.index)
      [] e.node = "Array"  -> \A k \in DOMAIN e.elements : CompilesExpr(e.elements[k])
      [] e.node = "Object" -> \A k \in DOMAIN e.pairs : CompilesExpr(e.pairs[k].value)
      [] OTHER -> FALSE

\* break and continue compile only inside a loop that is compiled with them.
RECURSIVE CompilesStmts(_, _)
CompilesStmt(s, inLoop) ==
    CASE s.node = "Let"    -> CompilesExpr(s.value)
      [] s.node = "Assign" -> s.target.node = "Identifier" /\ CompilesExpr(s.value)
      [] s.node = "Expr"   -> CompilesExpr(s.expr)
      [] s.node = "If"     -> /\ CompilesExpr(s.cond)
                              /\ CompilesStmts(s.then, inLoop) /\ CompilesStmts(s.else, inLoop)
      [] s.node = "While"  -> CompilesExpr(s.cond) /\ CompilesStmts(s.body, TRUE)
      [] s.node = "Loop"   -> CompilesExpr(s.iterable) /\ CompilesStmts(s.body, TRUE)
      [] s.node = "Return" -> CompilesExpr(s.value)
      [] s.node \in {"Break", "Continue"} -> inLoop
      [] OTHER -> FALSE
CompilesStmts(stmts, inLoop) == \A k \in DOMAIN stmts : CompilesStmt(stmts[k], inLoop)

-----------------------------------------------------------------------------
(* Expressions. *)

Literal(e) ==
    CASE e.node = "Number" -> Number(e.value)
      [] e.node = "String" -> Str(e.value)
      [] e.node = "Bool"   -> Boolean(e.value)
      [] e.node = "Null"   -> Null

ShortCircuit(op) ==
    CASE op = "&&" -> "AndJump" [] op = "||" -> "OrJump" [] op = "??" -> "NullishJump"

BinaryOp(op) ==
    CASE op = "+"  -> "Add" [] op = "-"  -> "Sub" [] op = "*" -> "Mul" [] op = "/" -> "Div" [] op = "%" -> "Mod"
      [] op = "==" -> "Eq"  [] op = "!=" -> "Neq" [] op = "<" -> "Lt"  [] op = ">" -> "Gt"
      [] op = "<=" -> "Lte" [] op = ">=" -> "Gte"

\* Code with the instructions of s after it, each made by C at its address.
Appending(C(_, _), code, at, s) ==
    FoldLeft(LAMBDA done, x : done \o C(x, at + Len(done)), code, s)

RECURSIVE ExprCode(_, _)
ExprCode(e, at) ==
    LET sub(x, k) == ExprCode(x, at + k)
        two(l, r) == LET a == sub(l, 0) IN a \o sub(r, Len(a))
    IN  CASE e.node \in Literals    -> <<Ins("Const", Literal(e))>>
          [] e.node = "Identifier"  -> <<Ins("LoadVar", e.name)>>
          [] e.node = "Unary"       -> sub(e.operand, 0) \o <<Ins(IF e.op = "-" THEN "Neg" ELSE "Not", 0)>>
          [] e.node = "Binary" /\ e.op \in {"&&", "||", "??"} ->
               LET a == sub(e.left, 0)
                   b == sub(e.right, Len(a) + 1)
               IN  a \o <<Ins(ShortCircuit(e.op), at + Len(a) + 1 + Len(b))>> \o b
          [] e.node = "Binary"      -> two(e.left, e.right) \o <<Ins(BinaryOp(e.op), 0)>>
          [] e.node = "Index"       -> two(e.object, e.index) \o <<Ins("GetIndex", 0)>>
          [] e.node = "Call"        -> Appending(ExprCode, sub(e.callee, 0), at, e.args)
                                         \o <<Ins("Call", Len(e.args))>>
          [] e.node = "Array"       -> Appending(ExprCode, <<>>, at, e.elements)
                                         \o <<Ins("MakeArray", Len(e.elements))>>
          [] e.node = "Object"      ->
               Appending(LAMBDA p, k : <<Ins("Const", Str(p.key))>> \o ExprCode(p.value, k + 1),
                         <<>>, at, e.pairs)
                 \o <<Ins("MakeObject", Len(e.pairs))>>
          [] e.node = "Member"      ->
               LET a == sub(e.object, 0)
               IN  a \o (IF e.optional THEN <<Ins("JumpIfNullKeep", at + Len(a) + 2)>> ELSE <<>>)
                     \o <<Ins("GetField", e.property)>>

-----------------------------------------------------------------------------
(* Statements. *)

\* The jumps a loop's body left to patch.
Patch(body, mark, target) ==
    [k \in DOMAIN body |-> IF body[k].op = "Jump" /\ body[k].arg = mark THEN Ins("Jump", target)
                                                                ELSE body[k]]

\* Mutant: continue jumps to the test of a loop, and skips the increment.
PatchToTest(body, breakTo, continueTo, test) ==
    Patch(Patch(body, ToBreak, breakTo), ToContinue, test)

PatchLoop(body, breakTo, continueTo, test) ==
    Patch(Patch(body, ToBreak, breakTo), ToContinue, continueTo)

RECURSIVE StmtsCode(_, _)

IfCode(s, at) ==
    LET cond == ExprCode(s.cond, at)
        then == StmtsCode(s.then, at + Len(cond) + 1)
        orElse == at + Len(cond) + 1 + Len(then) + 1
        else == StmtsCode(s.else, orElse)
    IN  cond \o <<Ins("JumpIfFalse", orElse)>> \o then \o <<Ins("Jump", orElse + Len(else))>> \o else

WhileCode(s, at) ==
    LET cond == ExprCode(s.cond, at)
        body == StmtsCode(s.body, at + Len(cond) + 1)
        end  == at + Len(cond) + 1 + Len(body) + 1
    IN  cond \o <<Ins("JumpIfFalse", end)>> \o PatchLoop(body, end, at, at) \o <<Ins("Jump", at)>>

\* Hidden variables hold the iterable, its length and the index; they are told
\* apart by the loop's address, where the program numbers the loops.
LoopCode(s, at) ==
    LET hidden(x) == "__loop_" \o x \o "_" \o ToString(at)
        iterable == ExprCode(s.iterable, at)
        setUp == iterable \o
                 << Ins("StoreVar", hidden("arr")), Ins("LoadVar", hidden("arr")), Ins("Length", 0),
                    Ins("StoreVar", hidden("len")), Ins("Const", Number(0)),
                    Ins("StoreVar", hidden("idx")) >>
        test == at + Len(setUp)
        bind == << Ins("LoadVar", hidden("arr")), Ins("LoadVar", hidden("idx")), Ins("GetIndex", 0),
                   Ins("StoreVar", s.var) >> \o
                (IF s.indexVar = "" THEN <<>>
                 ELSE <<Ins("LoadVar", hidden("idx")), Ins("StoreVar", s.indexVar)>>)
        body == StmtsCode(s.body, test + 4 + Len(bind))
        next == test + 4 + Len(bind) + Len(body)
        end  == next + 5
    IN  setUp \o << Ins("LoadVar", hidden("idx")), Ins("LoadVar", hidden("len")), Ins("Lt", 0),
                    Ins("JumpIfFalse", end) >>
              \o bind \o PatchLoop(body, end, next, test) \o
              << Ins("LoadVar", hidden("idx")), Ins("Const", Number(1)), Ins("Add", 0),
                 Ins("StoreVar", hidden("idx")), Ins("Jump", test) >>

\* Mutant: the value of an expression statement stays on the stack.
ExprStmtCodeKept(s, at) == ExprCode(s.expr, at)

ExprStmtCode(s, at) == ExprCode(s.expr, at) \o <<Ins("Pop", 0)>>

StmtCode(s, at) ==
    CASE s.node = "Let"      -> ExprCode(s.value, at) \o <<Ins("StoreVar", s.name)>>
      [] s.node = "Assign"   -> ExprCode(s.value, at) \o <<Ins("AssignVar", s.target.name)>>
      [] s.node = "Expr"     -> ExprStmtCode(s, at)
      [] s.node = "If"       -> IfCode(s, at)
      [] s.node = "While"    -> WhileCode(s, at)
      [] s.node = "Loop"     -> LoopCode(s, at)
      [] s.node = "Break"    -> <<Ins("Jump", ToBreak)>>
      [] s.node = "Continue" -> <<Ins("Jump", ToContinue)>>
      [] s.node = "Return"   -> ExprCode(s.value, at) \o <<Ins("Return", 0)>>

StmtsCode(stmts, at) == Appending(StmtCode, <<>>, at, stmts)

CompileExpr(e) == ExprCode(e, 0) \o <<Ins("Return", 0)>>
CompileBlock(stmts) == StmtsCode(stmts, 0) \o <<Ins("Return", 0)>>

-----------------------------------------------------------------------------
(* The stack of the code, by its instructions alone. *)

Pops(ins) ==
    CASE ins.op \in {"Const", "LoadVar", "Jump", "Return"} -> 0
      [] ins.op \in {"Add", "Sub", "Mul", "Div", "Mod", "Eq", "Neq", "Lt", "Gt", "Lte", "Gte", "GetIndex"} -> 2
      [] ins.op = "Call"       -> ins.arg + 1
      [] ins.op = "MakeArray"  -> ins.arg
      [] ins.op = "MakeObject" -> 2 * ins.arg
      [] OTHER -> 1

\* What the instruction leaves of d values, when it does not jump and when it does.
FallThrough(ins, d) ==
    CASE ins.op \in {"StoreVar", "AssignVar", "Pop", "JumpIfFalse"} -> d - 1
      [] ins.op \in {"AndJump", "OrJump", "NullishJump"} -> d - 1
      [] ins.op \in {"JumpIfNullKeep", "Not", "Neg", "GetField", "Length"} -> d
      [] OTHER -> d - Pops(ins) + 1

\* The places reached after the instruction at place p: an address and a depth.
After(code, p) ==
    LET ins == code[p[1] + 1]
        falls == IF ins.op \in {"Jump", "Return"} THEN {} ELSE {<<p[1] + 1, FallThrough(ins, p[2])>>}
        jumps == IF ins.op \notin Jumps THEN {}
                 ELSE {<<ins.arg, IF ins.op = "JumpIfFalse" THEN p[2] - 1 ELSE p[2]>>}
    IN  falls \cup jumps

\* A program that jumps outside its code, or pops more than there is, stops there.
Sound(code, p) == p[1] \in 0 .. Len(code) - 1 /\ p[2] >= Pops(code[p[1] + 1])

RECURSIVE PlacesFrom(_, _, _)
PlacesFrom(code, seen, new) ==
    LET next == UNION { After(code, p) : p \in { q \in new : Sound(code, q) /\ q[2] <= Len(code) } }
    IN  IF new \subseteq seen THEN seen ELSE PlacesFrom(code, seen \cup new, next \ seen)

Places(code) == PlacesFrom(code, {}, {<<0, 0>>})

\* Every place is inside the code with its operands on the stack, and an address
\* is always reached with the same depth.
WellStacked(code) ==
    \A p \in Places(code) : Sound(code, p) /\ \A q \in Places(code) : p[1] = q[1] => p[2] = q[2]
=============================================================================
