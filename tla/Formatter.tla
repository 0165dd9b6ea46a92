----------------------------- MODULE Formatter -----------------------------
(***************************************************************************)
(* The formatter of MX (src/formatter/formatter.go), which mx fmt -w and   *)
(* the language server put in the place of a source file.  It goes over    *)
(* the tokens, comments and line breaks included, and writes a text.       *)
(***************************************************************************)
EXTENDS Lexer

\* out: what is written; pathMode: inside a route path, whose tokens are glued,
\* pathFirst: before its first token; skipNextBlank: just after a block's brace;
\* braces: the kinds of the open braces.
StartState ==
    [ out |-> <<>>, indent |-> 0, atLineStart |-> TRUE, pathMode |-> FALSE, pathFirst |-> FALSE,
      skipNextBlank |-> FALSE, braces |-> <<>> ]

SpaceChars == {" ", "\t", "\n"}
Spaces(n) == [k \in 1 .. n |-> " "]

WriteRaw(f, chars) == [f EXCEPT !.out = @ \o chars, !.atLineStart = FALSE]
WriteIndent(f) == WriteRaw(f, IF f.indent > 0 THEN Spaces(2 * f.indent) ELSE <<>>)
WriteNewline(f) == [f EXCEPT !.out = Append(@, "\n"), !.atLineStart = TRUE]
WriteSpace(f) ==
    CASE f.atLineStart -> WriteIndent(f)
      [] ~f.atLineStart /\ f.out # <<>> /\ Last(f.out) \notin SpaceChars -> WriteRaw(f, <<" ">>)
      [] OTHER -> f
Indented(f) == IF f.atLineStart THEN WriteIndent(f) ELSE f
\* On both sides of a binary operator, and before a brace or a comment.
Spaced(f) == IF f.atLineStart THEN WriteIndent(f) ELSE WriteSpace(f)

PrevSignificant(toks, k) ==
    LET before == Significant(SubSeq(toks, 1, k - 1)) IN IF before = <<>> THEN "EOF" ELSE Last(before).type
PeekSignificant(toks, k) ==
    LET after == Significant(SubSeq(toks, k + 1, Len(toks))) IN IF after = <<>> THEN "EOF" ELSE Head(after).type

\* An object literal follows one of these; any other brace opens a block.
BeforeObject == {"=", ":", ",", "(", "[", "return", "=>", "...", "&&", "||", "??", "==", "!="}
BraceKind(toks, k) == IF PrevSignificant(toks, k) \in BeforeObject THEN "expr" ELSE "block"

\* A minus or a slash after one of these has one operand.
BeforeUnary ==
    { "EOF", "(", "[", "{", ",", ":", ";", "=", "==", "!=", "<", ">", "<=", ">=", "&&", "||", "??",
      "+", "-", "*", "/", "%", "!", "return", "=>" }
IsUnaryContext(toks, k) == PrevSignificant(toks, k) \in BeforeUnary

NeedSpaceBeforeWord(f, toks, k) ==
    /\ f.out # <<>>
    /\ Last(f.out) \notin SpaceChars \cup {"(", "[", "{", ".", ":"}
    /\ PrevSignificant(toks, k) # "!"
BeforeWord(f, toks, k) ==
    CASE f.atLineStart -> WriteIndent(f)
      [] ~f.atLineStart /\ NeedSpaceBeforeWord(f, toks, k) -> WriteSpace(f)
      [] OTHER -> f

\* The words after which a slash starts a path, wherever they stand.
PathWords ==
    { "get", "post", "put", "delete", "patch", "head", "options", "sse",
      "GET", "POST", "PUT", "DELETE", "PATCH", "HEAD", "OPTIONS" }
StartsRoutePath(toks, k) ==
    toks[k].type = "IDENT" /\ toks[k].lexeme \in PathWords /\ PeekSignificant(toks, k) = "/"

Escaped(c) ==
    CASE c = "\"" -> <<"\\", "\"">> [] c = "\\" -> <<"\\", "\\">> [] c = "\n" -> <<"\\", "n">>
      [] c = "\t" -> <<"\\", "t">>  [] c = "\r" -> <<"\\", "r">>  [] OTHER -> <<c>>
\* Mutant: the escapes are not written back.
QuotePlain(chars) == <<"\"">> \o chars \o <<"\"">>

QuoteString(chars) == FoldLeft(LAMBDA s, c : s \o Escaped(c), <<"\"">>, chars) \o <<"\"">>

BinaryTokens == {"=", "==", "!=", "<", ">", "<=", ">=", "&&", "||", "??", "=>", "+", "*", "%"}

\* A brace that opens a block ends its line, and swallows the next line break.
OpenBrace(f, toks, k) ==
    LET kind == BraceKind(toks, k)
        open == [WriteRaw(Spaced(f), <<"{">>) EXCEPT !.indent = @ + 1, !.braces = Append(@, kind)]
    IN  IF kind = "block" THEN WriteNewline(open) ELSE open

\* Mutant: the line break of the source is kept too.
EmitLBraceTwice(f, toks, k) == OpenBrace(f, toks, k)

EmitLBrace(f, toks, k) == [OpenBrace(f, toks, k) EXCEPT !.skipNextBlank = BraceKind(toks, k) = "block"]

EmitRBrace(f) ==
    LET closed == [f EXCEPT !.indent = @ - 1, !.braces = IF @ = <<>> THEN @ ELSE Front(@)]
        kind == IF f.braces = <<>> THEN "block" ELSE Last(f.braces)
        ready == IF kind = "block" THEN WriteIndent(IF f.atLineStart THEN closed ELSE WriteNewline(closed))
                 ELSE Indented(closed)
    IN  WriteRaw(ready, <<"}">>)

EmitToken(f, toks, k) ==
    LET t == toks[k]
        binary == BinaryTokens \cup (IF IsUnaryContext(toks, k) THEN {} ELSE {"-", "/"})
    IN  CASE t.type = "NEWLINE" -> WriteNewline(f)
          [] t.type = "COMMENT" -> WriteRaw(Spaced(f), t.chars)
          [] t.type = "{"       -> EmitLBrace(f, toks, k)
          [] t.type = "}"       -> EmitRBrace(f)
          [] t.type \in {"(", "["} -> WriteRaw(Indented(f), t.chars)
          [] t.type \in {")", "]", ";", ".", "?.", "..."} -> WriteRaw(f, t.chars)
          [] t.type = ","       ->
               LET w == WriteRaw(f, <<",">>)
               IN  IF PeekSignificant(toks, k) \in {"EOF", ")", "]"} THEN w ELSE WriteSpace(w)
          [] t.type = ":"       -> WriteSpace(WriteRaw(f, <<":">>))
          [] t.type \in binary -> WriteSpace(WriteRaw(Spaced(f), t.chars))
          [] t.type \in {"!", "-", "/"} \ binary -> WriteRaw(Indented(f), t.chars)
          [] t.type = "STRING"  -> WriteRaw(BeforeWord(f, toks, k), QuoteString(t.chars))
          [] OTHER              ->
               LET w == WriteRaw(BeforeWord(f, toks, k), t.chars)
               IN  IF StartsRoutePath(toks, k) THEN [w EXCEPT !.pathMode = TRUE, !.pathFirst = TRUE] ELSE w

\* A path goes on up to a brace; a comment leaves skipNextBlank as it is.
Emit(f, toks, k) ==
    LET type == toks[k].type
        layout == {"NEWLINE", "COMMENT"}
        left == IF type = "{" THEN [f EXCEPT !.pathMode = FALSE, !.pathFirst = FALSE] ELSE f
    IN  CASE f.pathMode /\ type \notin layout \cup {"{"} ->
               WriteRaw([(IF f.pathFirst THEN WriteSpace(f) ELSE f) EXCEPT !.pathFirst = FALSE], toks[k].chars)
          [] f.skipNextBlank /\ type = "NEWLINE" -> [f EXCEPT !.skipNextBlank = FALSE]
          [] OTHER ->
               EmitToken(IF type \in layout THEN left ELSE [left EXCEPT !.skipNextBlank = FALSE], toks, k)

\* The characters of text that keep marks.
Kept(text, keep) ==
    LET marked == SelectSeq([k \in DOMAIN text |-> <<text[k], keep[k]>>], LAMBDA p : p[2])
    IN  [k \in DOMAIN marked |-> marked[k][1]]

\* No blanks at the end of a line, one blank line at most, a line break last.
Tidy(out) ==
    LET trailing(k) == out[k] \in {" ", "\t"} /\ At(out, FirstFrom(out, k, LAMBDA c : c \notin {" ", "\t"})) \in {"\n", "EOF"}
        lines == Kept(out, [k \in DOMAIN out |-> ~trailing(k)])
        tight == Kept(lines, [k \in DOMAIN lines |-> k <= 2 \/ \E m \in k - 2 .. k : lines[m] # "\n"])
    IN  IF tight # <<>> /\ Last(tight) = "\n" THEN tight ELSE Append(tight, "\n")

\* The text mx fmt writes for a text that lexes.
FormatTokens(toks) == Tidy(FoldLeftDomain(LAMBDA f, k : Emit(f, toks, k), StartState, toks).out)
Format(text) == FormatTokens(TokenizeAll(text).tokens)
=============================================================================
