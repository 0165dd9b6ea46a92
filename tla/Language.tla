------------------------------ MODULE Language ------------------------------
(***************************************************************************)
(* The syntax trees of MX programs (src/parser/ast.go) and the values they *)
(* compute (src/interpreter/interpreter.go): kinds, truthiness, equality,  *)
(* display, and the scopes variables live in.                              *)
(*                                                                         *)
(* A store holds everything that is mutable: the scopes of the program     *)
(* (store.scopes[e] is an Env: its variables and its parent), the arrays   *)
(* and objects, which values refer to by their index in store.heap, and    *)
(* what print has written.  Numbers are the integers among the float64.    *)
(***************************************************************************)
EXTENDS Integers, SequencesExt

(* Expressions. *)

NumberLit(n)               == [node |-> "Number", value |-> n]
StringLit(s)               == [node |-> "String", value |-> s]
BoolLit(b)                 == [node |-> "Bool", value |-> b]
NullLit                    == [node |-> "Null"]
Identifier(x)              == [node |-> "Identifier", name |-> x]
UnaryExpr(op, e)           == [node |-> "Unary", op |-> op, operand |-> e]
BinaryExpr(op, l, r)       == [node |-> "Binary", op |-> op, left |-> l, right |-> r]
ArrayLit(es)               == [node |-> "Array", elements |-> es]
SpreadExpr(e)              == [node |-> "Spread", inner |-> e]
\* A pair with an empty key is a spread of its value.
ObjectLit(pairs)           == [node |-> "Object", pairs |-> pairs]
Pair(k, e)                 == [key |-> k, value |-> e]
CallExpr(f, args)          == [node |-> "Call", callee |-> f, args |-> args]
IndexExpr(e, i)            == [node |-> "Index", object |-> e, index |-> i]
MemberExpr(e, p)           == [node |-> "Member", object |-> e, property |-> p, optional |-> FALSE]
OptionalExpr(e, p)         == [node |-> "Member", object |-> e, property |-> p, optional |-> TRUE]
RangeExpr(a, b, inclusive) == [node |-> "Range", start |-> a, end |-> b, inclusive |-> inclusive]
FnLit(params, body)        == [node |-> "FnLit", params |-> params, body |-> body]
MatchExpr(e, arms)         == [node |-> "Match", subject |-> e, arms |-> arms]
\* An arm with default TRUE has no pattern.
Arm(p, e)                  == [default |-> FALSE, pattern |-> p, body |-> e]
DefaultArm(e)              == [default |-> TRUE, body |-> e]
TryExpr(try, x, catch)     == [node |-> "TryExpr", try |-> try, var |-> x, catch |-> catch]

(* Statements. *)

LetStmt(x, e)           == [node |-> "Let", name |-> x, value |-> e]
AssignStmt(target, e)   == [node |-> "Assign", target |-> target, value |-> e]
FnDecl(x, params, body) == [node |-> "Fn", name |-> x, params |-> params, body |-> body]
IfStmt(c, then, else)   == [node |-> "If", cond |-> c, then |-> then, else |-> else]
WhileStmt(c, body)      == [node |-> "While", cond |-> c, body |-> body]
\* i is the index variable, "" when there is none.
LoopStmt(e, x, i, body) == [node |-> "Loop", iterable |-> e, var |-> x, indexVar |-> i, body |-> body]
BreakStmt               == [node |-> "Break"]
ContinueStmt            == [node |-> "Continue"]
ReturnStmt(e)           == [node |-> "Return", value |-> e]
TryStmt(try, x, catch)  == [node |-> "Try", try |-> try, var |-> x, catch |-> catch]
ExprStmt(e)             == [node |-> "Expr", expr |-> e]
StatementNodes ==
    {"Let", "Assign", "Fn", "If", "While", "Loop", "Break", "Continue", "Return", "Expr", "Try"}

-----------------------------------------------------------------------------
(* Values. *)

Null      == [kind |-> "null"]
Boolean(b) == [kind |-> "bool", bool |-> b]
Number(n) == [kind |-> "number", number |-> n]
Str(s)    == [kind |-> "string", string |-> s]
Array(a)  == [kind |-> "array", at |-> a]
Object(o) == [kind |-> "object", at |-> o]
Closure(x, params, body, env) ==
    [kind |-> "function", name |-> x, native |-> FALSE, params |-> params, body |-> body, env |-> env]
\* The builtin print, the only one modelled.
PrintFn   == [kind |-> "function", name |-> "print", native |-> TRUE]

NoEnv   == 0
Globals == 1
\* The globals hold the builtins.
EmptyStore ==
    [ scopes |-> <<[parent |-> NoEnv, vars |-> "print" :> PrintFn]>>, heap |-> <<>>, out |-> <<>> ]

\* An OrderedMap: its keys in the order of their first Set.
NewOrderedMap == [keys |-> <<>>, values |-> <<>>]
MapSet(m, k, v) ==
    [ keys   |-> IF k \in DOMAIN m.values THEN m.keys ELSE Append(m.keys, k),
      values |-> (k :> v) @@ m.values ]
MapGet(m, k) == IF k \in DOMAIN m.values THEN m.values[k] ELSE Null

Alloc(store, cell) == [store EXCEPT !.heap = Append(@, cell)]
NewAt(store) == Len(store.heap) + 1

IsTruthy(v, store) ==
    CASE v.kind = "null"     -> FALSE
      [] v.kind = "bool"     -> v.bool
      [] v.kind = "number"   -> v.number # 0
      [] v.kind = "string"   -> v.string # ""
      [] v.kind = "array"    -> store.heap[v.at] # <<>>
      [] v.kind = "object"   -> store.heap[v.at].keys # <<>>
      [] v.kind = "function" -> TRUE

RECURSIVE ValuesEqual(_, _, _)
ValuesEqual(a, b, store) ==
    /\ a.kind = b.kind
    /\ CASE a.kind \in {"null", "bool", "number", "string"} -> a = b
         [] a.kind = "array" ->
              LET s == store.heap[a.at]
                  t == store.heap[b.at]
              IN  Len(s) = Len(t) /\ \A k \in DOMAIN s : ValuesEqual(s[k], t[k], store)
         [] a.kind = "object" ->
              LET s == store.heap[a.at]
                  t == store.heap[b.at]
              IN  /\ Len(s.keys) = Len(t.keys)
                  /\ \A k \in Range(s.keys) :
                       k \in DOMAIN t.values /\ ValuesEqual(s.values[k], t.values[k], store)
         [] OTHER -> FALSE

\* JSON of the elements of an array or of the pairs of an object.
RECURSIVE Display(_, _)
Display(v, store) ==
    LET quoted(e) == IF e.kind = "string" THEN "'" \o e.string \o "'" ELSE Display(e, store)
        comma(s, t) == IF s = "" THEN t ELSE s \o "," \o t
    IN  CASE v.kind = "null"     -> "null"
          [] v.kind = "bool"     -> IF v.bool THEN "true" ELSE "false"
          [] v.kind = "number"   -> ToString(v.number)
          [] v.kind = "string"   -> v.string
          [] v.kind = "function" -> IF v.name = "" THEN "<fn>" ELSE "<fn " \o v.name \o ">"
          [] v.kind = "array"    ->
               "[" \o FoldLeft(LAMBDA s, e : comma(s, quoted(e)), "", store.heap[v.at]) \o "]"
          [] v.kind = "object"   ->
               LET m == store.heap[v.at]
               IN  "{" \o FoldLeft(LAMBDA s, k : comma(s, k \o ":" \o quoted(m.values[k])), "", m.keys) \o "}"

-----------------------------------------------------------------------------
(* Scopes: Env.Get, Env.Set and Env.Assign, NewEnv. *)

\* The scopes from e to the globals.
RECURSIVE Chain(_, _)
Chain(store, e) == IF e = NoEnv THEN <<>> ELSE <<e>> \o Chain(store, store.scopes[e].parent)

\* The scopes of the chain that bind x, the innermost first.
Binding(store, e, x) == SelectSeq(Chain(store, e), LAMBDA s : x \in DOMAIN store.scopes[s].vars)

Bound(store, e, x) == Binding(store, e, x) # <<>>
EnvGet(store, e, x) == store.scopes[Head(Binding(store, e, x))].vars[x]
EnvSet(store, e, x, v) == [store EXCEPT !.scopes[e].vars = (x :> v) @@ @]
EnvAssign(store, e, x, v) ==
    EnvSet(store, IF Bound(store, e, x) THEN Head(Binding(store, e, x)) ELSE e, x, v)

NewEnv(store, parent) ==
    [store EXCEPT !.scopes = Append(@, [parent |-> parent, vars |-> <<>>])]
NewestEnv(store) == Len(store.scopes)
=============================================================================
