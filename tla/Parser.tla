------------------------------- MODULE Parser -------------------------------
(***************************************************************************)
(* The recursive-descent parser of MX (src/parser/parser.go): one operator *)
(* per parse function, from the tokens (the last one is EOF) and a         *)
(* position to a tree and the position after it, 0 after a syntax error.   *)
(* The parser never goes back: a rule is chosen by its first tokens.       *)
(*                                                                         *)
(* Type annotations, which only tools read, are parsed and dropped; a      *)
(* missing value is the literal null, as it runs.                          *)
(***************************************************************************)
EXTENDS Language, Lexer

\* The statements the evaluator's model leaves out.
PatternLet(isArray, items, e)     == [node |-> "PatternLet", isArray |-> isArray, items |-> items, value |-> e]
PatternItem(x, source, rest, default) == [name |-> x, source |-> source, rest |-> rest, default |-> default]
ServerBlock(settings)             == [node |-> "Server", settings |-> settings]
RouteDecl(method, path, body)     == [node |-> "Route", method |-> method, path |-> path, body |-> body]
MiddlewareDecl(x, params, body)   == [node |-> "Middleware", name |-> x, params |-> params, body |-> body]
UseStmt(x)                        == [node |-> "Use", name |-> x]
SpawnStmt(body)                   == [node |-> "Spawn", body |-> body]
GroupStmt(path, body)             == [node |-> "Group", path |-> path, body |-> body]
StaticStmt(dir, mount)            == [node |-> "Static", dir |-> dir, mount |-> mount]
ImportStmt(path, as)              == [node |-> "Import", path |-> path, as |-> as]
TestDecl(x, body)                 == [node |-> "Test", name |-> x, body |-> body]
BenchDecl(x, body)                == [node |-> "Bench", name |-> x, body |-> body]

Parsed(tree, at) == [tree |-> tree, at |-> at]
NoParse == Parsed(NullLit, 0)
Follow(r, Rest(_)) == IF r.at = 0 THEN NoParse ELSE Rest(r)

TypeAt(ts, i) == ts[IF i < Len(ts) THEN i ELSE Len(ts)].type
Peek(ts, i)   == TypeAt(ts, i + 1)
AtEnd(ts, i)  == TypeAt(ts, i) = "EOF"

Expect(type, ts, i) == IF TypeAt(ts, i) = type THEN Parsed(ts[i].lexeme, i + 1) ELSE NoParse
Match(type, ts, i)  == IF TypeAt(ts, i) = type THEN i + 1 ELSE i
\* A tree whose statement may end with a semicolon.
Ended(tree, ts, i)  == Parsed(tree, Match(";", ts, i))

\* The tree that rule reads at i.
RECURSIVE Parse(_, _, _)

-----------------------------------------------------------------------------
(* Lists. *)

\* Items of rule separated by commas up to close, after those in acc.  The rest
\* of an array pattern is its last item.
RECURSIVE CommaList(_, _, _, _, _, _)
CommaList(rule, close, trailing, acc, ts, i) ==
    Follow(Parse(rule, ts, i), LAMBDA r :
      LET all == Append(acc, r.tree)
          more == TypeAt(ts, r.at) = "," /\ ~(rule = "element pattern" /\ r.tree.rest)
      IN  IF more /\ ~(trailing /\ Peek(ts, r.at) = close)
          THEN CommaList(rule, close, trailing, all, ts, r.at + 1)
          ELSE Follow(Expect(close, ts, IF more THEN r.at + 1 ELSE r.at), LAMBDA e : Parsed(all, e.at)))

List(rule, close, trailing, ts, i) ==
    IF TypeAt(ts, i) = close THEN Parsed(<<>>, i + 1) ELSE CommaList(rule, close, trailing, <<>>, ts, i)

\* Statements up to the token type close; a lone semicolon is none.
RECURSIVE Statements(_, _, _, _)
Statements(close, acc, ts, i) ==
    CASE TypeAt(ts, i) = close -> Parsed(acc, i)
      [] AtEnd(ts, i)          -> NoParse
      [] TypeAt(ts, i) = ";"   -> Statements(close, acc, ts, i + 1)
      [] OTHER -> Follow(Parse("statement", ts, i), LAMBDA r : Statements(close, Append(acc, r.tree), ts, r.at))

ParseBlock(ts, i) ==
    Follow(Expect("{", ts, i), LAMBDA open :
    Follow(Statements("}", <<>>, ts, open.at), LAMBDA body : Parsed(body.tree, body.at + 1)))

\* `: T', dropped.
Annotation(ts, i) ==
    IF TypeAt(ts, i) # ":" THEN Parsed("", i) ELSE Expect("IDENT", ts, i + 1)

ParseParam(ts, i) ==
    Follow(Expect("IDENT", ts, i), LAMBDA x :
    Follow(Annotation(ts, x.at), LAMBDA t : Parsed(x.tree, t.at)))

ParseParams(ts, i) ==
    Follow(Expect("(", ts, i), LAMBDA open : List("param", ")", FALSE, ts, open.at))

-----------------------------------------------------------------------------
(* Statements. *)

\* The tokens of a path, joined.  It ends at the first other token.
PathTokens == {"/", ":", "-", ".", "*", "IDENT", "NUMBER"}
ParsePath(ts, i) ==
    LET past == {k \in i .. Len(ts) : TypeAt(ts, k) \notin PathTokens}
        end == CHOOSE k \in past : \A l \in past : k <= l
    IN  IF TypeAt(ts, i) # "/" THEN NoParse
        ELSE Parsed(FoldLeft(LAMBDA s, t : s \o t.lexeme, "", SubSeq(ts, i, end - 1)), end)

\* { a, b: c, d = e } and [a, b = e, ...rest].
ParseBinding(isArray, ts, i) ==
    IF isArray /\ TypeAt(ts, i) = "..."
    THEN Follow(Expect("IDENT", ts, i + 1), LAMBDA x : Parsed(PatternItem(x.tree, "", TRUE, NullLit), x.at))
    ELSE Follow(Expect("IDENT", ts, i), LAMBDA x :
         LET renamed == ~isArray /\ TypeAt(ts, x.at) = ":"
         IN  Follow(IF renamed THEN Expect("IDENT", ts, x.at + 1) ELSE x, LAMBDA y :
             LET source == IF renamed THEN x.tree ELSE ""
             IN  IF TypeAt(ts, y.at) = "="
                 THEN Follow(Parse("expr", ts, y.at + 1), LAMBDA d :
                        Parsed(PatternItem(y.tree, source, FALSE, d.tree), d.at))
                 ELSE Parsed(PatternItem(y.tree, source, FALSE, NullLit), y.at)))

ParseDestructurePattern(ts, i) ==
    IF TypeAt(ts, i) = "[" THEN List("element pattern", "]", TRUE, ts, i + 1)
    ELSE List("field pattern", "}", TRUE, ts, i + 1)

ParseLet(ts, i) ==
    IF TypeAt(ts, i + 1) \in {"{", "["}
    THEN Follow(ParseDestructurePattern(ts, i + 1), LAMBDA p :
         Follow(Expect("=", ts, p.at), LAMBDA eq :
         Follow(Parse("expr", ts, eq.at), LAMBDA e :
           Ended(PatternLet(TypeAt(ts, i + 1) = "[", p.tree, e.tree), ts, e.at))))
    ELSE Follow(ParseParam(ts, i + 1), LAMBDA x :
         Follow(Expect("=", ts, x.at), LAMBDA eq :
         Follow(Parse("expr", ts, eq.at), LAMBDA e : Ended(LetStmt(x.tree, e.tree), ts, e.at))))

ParseFn(ts, i) ==
    Follow(Expect("IDENT", ts, i + 1), LAMBDA x :
    Follow(ParseParams(ts, x.at), LAMBDA ps :
    Follow(Annotation(ts, ps.at), LAMBDA t :
    Follow(ParseBlock(ts, t.at), LAMBDA b : Parsed(FnDecl(x.tree, ps.tree, b.tree), b.at)))))

RECURSIVE Settings(_, _, _)
Settings(acc, ts, i) ==
    IF TypeAt(ts, i) = "}" THEN Parsed(acc, i + 1)
    ELSE Follow(Expect("IDENT", ts, i), LAMBDA k :
         Follow(Expect(":", ts, k.at), LAMBDA c :
         Follow(Parse("expr", ts, c.at), LAMBDA e :
           Settings(Append(acc, Pair(k.tree, e.tree)), ts, Match(";", ts, Match(",", ts, e.at))))))

ParseServer(ts, i) ==
    Follow(Expect("{", ts, i + 1), LAMBDA open :
    Follow(Settings(<<>>, ts, open.at), LAMBDA s : Parsed(ServerBlock(s.tree), s.at)))

Upper(method) ==
    CASE method = "get" -> "GET" [] method = "post" -> "POST" [] method = "put" -> "PUT"
      [] method = "delete" -> "DELETE" [] method = "patch" -> "PATCH" [] method = "head" -> "HEAD"
      [] method = "options" -> "OPTIONS" [] method = "sse" -> "SSE" [] method = "ws" -> "WS"

\* A path and a block, from i.
PathAndBlock(ts, i) ==
    Follow(ParsePath(ts, i), LAMBDA p :
    Follow(ParseBlock(ts, p.at), LAMBDA b : Parsed([path |-> p.tree, body |-> b.tree], b.at)))

ParseRoute(ts, i) ==
    Follow(Expect("IDENT", ts, i + 1), LAMBDA m :
    Follow(PathAndBlock(ts, m.at), LAMBDA r : Parsed(RouteDecl(m.tree, r.tree.path, r.tree.body), r.at)))
ParseShorthandRoute(ts, i) ==
    Follow(PathAndBlock(ts, i + 1), LAMBDA r : Parsed(RouteDecl(Upper(ts[i].lexeme), r.tree.path, r.tree.body), r.at))
ParseGroup(ts, i) ==
    Follow(PathAndBlock(ts, i + 1), LAMBDA r : Parsed(GroupStmt(r.tree.path, r.tree.body), r.at))

ParseMiddleware(ts, i) ==
    Follow(Expect("IDENT", ts, i + 1), LAMBDA x :
    Follow(IF TypeAt(ts, x.at) = "(" THEN ParseParams(ts, x.at) ELSE Parsed(<<>>, x.at), LAMBDA ps :
    Follow(ParseBlock(ts, ps.at), LAMBDA b : Parsed(MiddlewareDecl(x.tree, ps.tree, b.tree), b.at))))

ParseUse(ts, i) == Follow(Expect("IDENT", ts, i + 1), LAMBDA x : Ended(UseStmt(x.tree), ts, x.at))

\* A condition: a parenthesis that opens it closes it, whatever comes next.
Condition(ts, i) ==
    Follow(Parse("expr", ts, Match("(", ts, i)), LAMBDA c :
      IF TypeAt(ts, i) # "(" THEN c
      ELSE Follow(Expect(")", ts, c.at), LAMBDA close : Parsed(c.tree, close.at)))

ParseIf(ts, i) ==
    Follow(Condition(ts, i + 1), LAMBDA c :
    Follow(ParseBlock(ts, c.at), LAMBDA then :
      IF TypeAt(ts, then.at) # "else" THEN Parsed(IfStmt(c.tree, then.tree, <<>>), then.at)
      ELSE IF Peek(ts, then.at) = "if"
      THEN Follow(Parse("statement", ts, then.at + 1), LAMBDA e :
             Parsed(IfStmt(c.tree, then.tree, <<e.tree>>), e.at))
      ELSE Follow(ParseBlock(ts, then.at + 1), LAMBDA e : Parsed(IfStmt(c.tree, then.tree, e.tree), e.at))))

\* `loop xs as x' and `loop xs as i, x'.
ParseLoop(ts, i) ==
    Follow(Parse("expr", ts, i + 1), LAMBDA e :
    Follow(Expect("as", ts, e.at), LAMBDA as :
    Follow(Expect("IDENT", ts, as.at), LAMBDA x :
    Follow(IF TypeAt(ts, x.at) = "," THEN Expect("IDENT", ts, x.at + 1) ELSE x, LAMBDA y :
    Follow(ParseBlock(ts, y.at), LAMBDA b :
      Parsed(LoopStmt(e.tree, y.tree, IF y.at = x.at THEN "" ELSE x.tree, b.tree), b.at))))))

ParseWhile(ts, i) ==
    Follow(Condition(ts, i + 1), LAMBDA c :
    Follow(ParseBlock(ts, c.at), LAMBDA b : Parsed(WhileStmt(c.tree, b.tree), b.at)))

CatchVar(ts, i) ==
    CASE TypeAt(ts, i) = "("     -> Follow(Expect("IDENT", ts, i + 1), LAMBDA x :
                                    Follow(Expect(")", ts, x.at), LAMBDA c : Parsed(x.tree, c.at)))
      [] TypeAt(ts, i) = "IDENT" -> Expect("IDENT", ts, i)
      [] OTHER                   -> Parsed("", i)

\* A statement, and an expression, of the same shape.
ParseTry(ts, i) ==
    Follow(ParseBlock(ts, i + 1), LAMBDA try :
    Follow(Expect("catch", ts, try.at), LAMBDA c :
    Follow(CatchVar(ts, c.at), LAMBDA x :
    Follow(ParseBlock(ts, x.at), LAMBDA catch : Parsed(TryStmt(try.tree, x.tree, catch.tree), catch.at)))))

\* The tokens that end a `return' without a value.
ReturnEnders ==
    { "}", ";", "EOF", "let", "if", "loop", "while", "route", "server", "middleware", "use", "try",
      "return", "import", "break", "continue" }
ParseReturn(ts, i) ==
    IF TypeAt(ts, i + 1) \in ReturnEnders THEN Ended(ReturnStmt(NullLit), ts, i + 1)
    ELSE Follow(Parse("expr", ts, i + 1), LAMBDA e : Ended(ReturnStmt(e.tree), ts, e.at))

ParseStatic(ts, i) ==
    Follow(Expect("STRING", ts, i + 1), LAMBDA dir :
      IF TypeAt(ts, dir.at) = "IDENT" /\ ts[dir.at].lexeme = "at"
      THEN Follow(Expect("STRING", ts, dir.at + 1), LAMBDA m : Ended(StaticStmt(dir.tree, m.tree), ts, m.at))
      ELSE Ended(StaticStmt(dir.tree, "/"), ts, dir.at))

ParseImport(ts, i) ==
    Follow(Expect("STRING", ts, i + 1), LAMBDA path :
      IF TypeAt(ts, path.at) = "as"
      THEN Follow(Expect("IDENT", ts, path.at + 1), LAMBDA x : Ended(ImportStmt(path.tree, x.tree), ts, x.at))
      ELSE Ended(ImportStmt(path.tree, ""), ts, path.at))

\* test "name" { ... } and bench "name" { ... }.
ParseNamedBlock(ts, i) ==
    Follow(Expect("STRING", ts, i + 1), LAMBDA x :
    Follow(ParseBlock(ts, x.at), LAMBDA b : Parsed([name |-> x.tree, body |-> b.tree], b.at)))
ParseTest(ts, i)  == Follow(ParseNamedBlock(ts, i), LAMBDA r : Parsed(TestDecl(r.tree.name, r.tree.body), r.at))
ParseBench(ts, i) == Follow(ParseNamedBlock(ts, i), LAMBDA r : Parsed(BenchDecl(r.tree.name, r.tree.body), r.at))

CompoundOps == "+=" :> "+" @@ "-=" :> "-" @@ "*=" :> "*" @@ "/=" :> "/" @@ "??=" :> "??"

\* An expression, an assignment, or x op= e for x = x op e.
ParseExprStmt(ts, i) ==
    Follow(Parse("expr", ts, i), LAMBDA l :
      LET op == TypeAt(ts, l.at)
      IN  IF op \notin {"="} \cup DOMAIN CompoundOps THEN Ended(ExprStmt(l.tree), ts, l.at)
          ELSE Follow(Parse("expr", ts, l.at + 1), LAMBDA r :
                 Ended(AssignStmt(l.tree, IF op = "=" THEN r.tree
                                          ELSE BinaryExpr(CompoundOps[op], l.tree, r.tree)), ts, r.at)))

ParseStmt(ts, i) ==
    LET type == TypeAt(ts, i)
        word == ts[i].lexeme
    IN  CASE type = "let"        -> ParseLet(ts, i)
          [] type = "fn"         -> ParseFn(ts, i)
          [] type = "server"     -> ParseServer(ts, i)
          [] type = "route"      -> ParseRoute(ts, i)
          [] type = "middleware" -> ParseMiddleware(ts, i)
          [] type = "use"        -> ParseUse(ts, i)
          [] type = "if"         -> ParseIf(ts, i)
          [] type = "loop"       -> ParseLoop(ts, i)
          [] type = "while"      -> ParseWhile(ts, i)
          [] type = "break"      -> Ended(BreakStmt, ts, i + 1)
          [] type = "continue"   -> Ended(ContinueStmt, ts, i + 1)
          [] type = "try"        -> ParseTry(ts, i)
          [] type = "return"     -> ParseReturn(ts, i)
          [] type = "import"     -> ParseImport(ts, i)
          [] type = "static"     -> ParseStatic(ts, i)
          [] type = "spawn"      -> Follow(ParseBlock(ts, i + 1), LAMBDA b : Parsed(SpawnStmt(b.tree), b.at))
          [] type = "group"      -> ParseGroup(ts, i)
          [] type = "IDENT" /\ word \in RouteWords /\ Peek(ts, i) = "/" -> ParseShorthandRoute(ts, i)
          [] type = "IDENT" /\ word = "test" /\ Peek(ts, i) = "STRING"  -> ParseTest(ts, i)
          [] type = "IDENT" /\ word = "bench" /\ Peek(ts, i) = "STRING" -> ParseBench(ts, i)
          [] OTHER -> ParseExprStmt(ts, i)

-----------------------------------------------------------------------------
(* Expressions. *)

\* The binary operators that associate to the left, the loosest first: the rule
\* that reads them, and the rule of their operands.
Levels ==
    [ coalesce       |-> [ops |-> {"??"}, operand |-> "or"],
      or             |-> [ops |-> {"||"}, operand |-> "and"],
      and            |-> [ops |-> {"&&"}, operand |-> "equality"],
      equality       |-> [ops |-> {"==", "!="}, operand |-> "comparison"],
      comparison     |-> [ops |-> {"<", ">", "<=", ">="}, operand |-> "range"],
      addition       |-> [ops |-> {"+", "-"}, operand |-> "multiplication"],
      multiplication |-> [ops |-> {"*", "/", "%"}, operand |-> "unary"] ]

\* Mutant: operators of one level associate to the right.
RightAssoc(rule, left, ts, i) ==
    IF TypeAt(ts, i) \notin Levels[rule].ops THEN Parsed(left, i)
    ELSE Follow(Parse(rule, ts, i + 1), LAMBDA r : Parsed(BinaryExpr(TypeAt(ts, i), left, r.tree), r.at))

RECURSIVE LeftAssoc(_, _, _, _)
LeftAssoc(rule, left, ts, i) ==
    IF TypeAt(ts, i) \notin Levels[rule].ops THEN Parsed(left, i)
    ELSE Follow(Parse(Levels[rule].operand, ts, i + 1), LAMBDA r :
           LeftAssoc(rule, BinaryExpr(TypeAt(ts, i), left, r.tree), ts, r.at))

\* l |> f(b) is f(l, b), l |> f is f(l); nothing else can be piped into.
PipeRewrite(l, r, at) ==
    CASE r.node = "Call" -> Parsed(CallExpr(r.callee, <<l>> \o r.args), at)
      [] r.node \in {"Identifier", "Member"} -> Parsed(CallExpr(r, <<l>>), at)
      [] OTHER -> NoParse

RECURSIVE Pipes(_, _, _)
Pipes(left, ts, i) ==
    IF TypeAt(ts, i) # "|>" THEN Parsed(left, i)
    ELSE Follow(Parse("coalesce", ts, i + 1), LAMBDA r :
         Follow(PipeRewrite(left, r.tree, r.at), LAMBDA p : Pipes(p.tree, ts, p.at)))

\* One range, not a chain of them.
ParseRange(ts, i) ==
    Follow(Parse("addition", ts, i), LAMBDA l :
      IF TypeAt(ts, l.at) \notin {"..", "..="} THEN l
      ELSE Follow(Parse("addition", ts, l.at + 1), LAMBDA r :
             Parsed(RangeExpr(l.tree, r.tree, TypeAt(ts, l.at) = "..="), r.at)))

ParseUnary(ts, i) ==
    IF TypeAt(ts, i) \in {"!", "-"}
    THEN Follow(Parse("unary", ts, i + 1), LAMBDA e : Parsed(UnaryExpr(TypeAt(ts, i), e.tree), e.at))
    ELSE Parse("call", ts, i)

\* Calls, indexes and members of e, one after the other.
RECURSIVE Postfixes(_, _, _)
Postfixes(e, ts, i) ==
    CASE TypeAt(ts, i) = "("  -> Follow(List("argument", ")", FALSE, ts, i + 1), LAMBDA args :
                                   Postfixes(CallExpr(e, args.tree), ts, args.at))
      [] TypeAt(ts, i) = "["  -> Follow(Parse("expr", ts, i + 1), LAMBDA k :
                                 Follow(Expect("]", ts, k.at), LAMBDA c : Postfixes(IndexExpr(e, k.tree), ts, c.at)))
      [] TypeAt(ts, i) = "."  -> Follow(Expect("IDENT", ts, i + 1), LAMBDA x :
                                   Postfixes(MemberExpr(e, x.tree), ts, x.at))
      [] TypeAt(ts, i) = "?." -> Follow(Expect("IDENT", ts, i + 1), LAMBDA x :
                                   Postfixes(OptionalExpr(e, x.tree), ts, x.at))
      [] OTHER -> Parsed(e, i)

\* An element or an argument, with `...' or without.
ParseElement(ts, i) ==
    IF TypeAt(ts, i) = "..." THEN Follow(Parse("expr", ts, i + 1), LAMBDA e : Parsed(SpreadExpr(e.tree), e.at))
    ELSE Parse("expr", ts, i)

ParsePair(ts, i) ==
    CASE TypeAt(ts, i) = "..." -> Follow(Parse("expr", ts, i + 1), LAMBDA e : Parsed(Pair("", e.tree), e.at))
      [] TypeAt(ts, i) \in {"IDENT", "STRING"} ->
           Follow(Expect(":", ts, i + 1), LAMBDA c :
           Follow(Parse("expr", ts, c.at), LAMBDA e : Parsed(Pair(ts[i].lexeme, e.tree), e.at)))
      [] OTHER -> NoParse

ParseObjectLit(ts, i) ==
    Follow(List("pair", "}", TRUE, ts, i + 1), LAMBDA l : Parsed(ObjectLit(l.tree), l.at))
ParseArrayLit(ts, i) ==
    Follow(List("argument", "]", TRUE, ts, i + 1), LAMBDA l : Parsed(ArrayLit(l.tree), l.at))

ParseFnLit(ts, i) ==
    Follow(ParseParams(ts, i + 1), LAMBDA ps :
    Follow(ParseBlock(ts, ps.at), LAMBDA b : Parsed(FnLit(ps.tree, b.tree), b.at)))

\* Arms up to the closing brace, the commas between them optional.
RECURSIVE Arms(_, _, _)
Arms(acc, ts, i) ==
    IF TypeAt(ts, i) = "}" THEN Parsed(acc, i + 1)
    ELSE LET default == TypeAt(ts, i) = "IDENT" /\ ts[i].lexeme = "_"
         IN  Follow(IF default THEN Parsed(NullLit, i + 1) ELSE Parse("or", ts, i), LAMBDA p :
             Follow(Expect("=>", ts, p.at), LAMBDA arrow :
             Follow(Parse("expr", ts, arrow.at), LAMBDA e :
               Arms(Append(acc, IF default THEN DefaultArm(e.tree) ELSE Arm(p.tree, e.tree)),
                    ts, Match(",", ts, e.at)))))

ParseMatch(ts, i) ==
    Follow(Parse("or", ts, i + 1), LAMBDA e :
    Follow(Expect("{", ts, e.at), LAMBDA open :
    Follow(Arms(<<>>, ts, open.at), LAMBDA arms : Parsed(MatchExpr(e.tree, arms.tree), arms.at))))

\* The number a lexeme denotes, when it is an integer up to MaxLiteral.
MaxLiteral == 20
ParseFloat(lexeme) ==
    LET named == {n \in 0 .. MaxLiteral : ToString(n) = lexeme}
    IN  IF named = {} THEN lexeme ELSE CHOOSE n \in named : TRUE

ParsePrimary(ts, i) ==
    LET type == TypeAt(ts, i)
        leaf(e) == Parsed(e, i + 1)
    IN  CASE type = "NUMBER" -> leaf(NumberLit(ParseFloat(ts[i].lexeme)))
          [] type = "STRING" -> leaf(StringLit(ts[i].lexeme))
          [] type = "true"   -> leaf(BoolLit(TRUE))
          [] type = "false"  -> leaf(BoolLit(FALSE))
          [] type = "null"   -> leaf(NullLit)
          [] type = "IDENT"  -> leaf(Identifier(ts[i].lexeme))
          [] type = "("      -> Follow(Parse("expr", ts, i + 1), LAMBDA e :
                                Follow(Expect(")", ts, e.at), LAMBDA c : Parsed(e.tree, c.at)))
          [] type = "["      -> ParseArrayLit(ts, i)
          [] type = "{"      -> ParseObjectLit(ts, i)
          [] type = "fn"     -> ParseFnLit(ts, i)
          [] type = "match"  -> ParseMatch(ts, i)
          [] type = "try"    -> Follow(ParseTry(ts, i), LAMBDA r : Parsed([r.tree EXCEPT !.node = "TryExpr"], r.at))
          [] OTHER           -> NoParse

Parse(rule, ts, i) ==
    CASE rule = "statement"       -> ParseStmt(ts, i)
      [] rule = "expr"            -> Follow(Parse("coalesce", ts, i), LAMBDA e : Pipes(e.tree, ts, e.at))
      [] rule \in DOMAIN Levels   -> Follow(Parse(Levels[rule].operand, ts, i), LAMBDA e :
                                       LeftAssoc(rule, e.tree, ts, e.at))
      [] rule = "range"           -> ParseRange(ts, i)
      [] rule = "unary"           -> ParseUnary(ts, i)
      [] rule = "call"            -> Follow(ParsePrimary(ts, i), LAMBDA e : Postfixes(e.tree, ts, e.at))
      [] rule = "argument"        -> ParseElement(ts, i)
      [] rule = "pair"            -> ParsePair(ts, i)
      [] rule = "param"           -> ParseParam(ts, i)
      [] rule = "element pattern" -> ParseBinding(TRUE, ts, i)
      [] rule = "field pattern"   -> ParseBinding(FALSE, ts, i)

\* The program the tokens spell, and whether they spell one.
ParseTokens(toks) == Statements("EOF", <<>>, Append(toks, EOF), 1)
Reading(text) == LET lexed == Tokenize(text) IN IF lexed.ok THEN ParseTokens(lexed.tokens) ELSE NoParse
Parses(text)  == Reading(text).at # 0
Program(text) == Reading(text).tree
=============================================================================
