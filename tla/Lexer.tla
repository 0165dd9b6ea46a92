------------------------------- MODULE Lexer -------------------------------
(***************************************************************************)
(* The lexer of MX (src/lexer/lexer.go), a function from a text to its     *)
(* tokens.  A text is a sequence of characters; a run of letters that no   *)
(* rule of the lexer looks into may stand in it as one character, such as  *)
(* "get".  Two that touch still lex as one word.                           *)
(*                                                                         *)
(* The type of a keyword or of a symbol is its lexeme.  Lines and columns  *)
(* are left out.                                                           *)
(***************************************************************************)
EXTENDS Integers, SequencesExt

Glue(chars) == FoldLeft(LAMBDA s, c : s \o c, "", chars)

\* chars is the lexeme, by its characters where they matter.
Token(type, chars) == [type |-> type, lexeme |-> Glue(chars), chars |-> chars]
Fixed(s) == Token(s, <<s>>)
Symbol(chars) == Token(Glue(chars), chars)
EOF == Fixed("EOF")

Keywords ==
    { "let", "fn", "return", "if", "else", "loop", "as", "route", "server", "middleware", "use",
      "try", "catch", "true", "false", "null", "import", "export", "while", "break", "continue",
      "static", "match", "spawn", "group" }

\* The idents a route path can follow.
RouteWords == {"get", "post", "put", "delete", "patch", "head", "options", "sse", "ws"}

\* Symbols of three and of two characters, in the order they are tried.
LongSymbols ==
    << <<".", ".", ".">>, <<"?", "?", "=">>, <<".", ".", "=">>, <<".", ".">>,
       <<"?", ".">>, <<"?", "?">>, <<"=", "=">>, <<"=", ">">>, <<"!", "=">>, <<"<", "=">>,
       <<">", "=">>, <<"&", "&">>, <<"|", "|">>, <<"|", ">">>, <<"+", "=">>, <<"-", "=">>,
       <<"*", "=">>, <<"/", "=">> >>
ShortSymbols ==
    {"{", "}", "(", ")", "[", "]", ":", ",", ".", ";", "=", "<", ">", "+", "-", "*", "/", "%", "!"}
Symbols == ShortSymbols \cup { Glue(LongSymbols[k]) : k \in DOMAIN LongSymbols }

Digits == {"0", "1", "2", "3", "4", "5", "6", "7", "8", "9"}
HexLetters == {"a", "b", "c", "d", "e", "f"}
Blanks == {" ", "\t", "\r"}
Quotes == {"\"", "'"}
IsLetter(c) == c \notin ShortSymbols \cup Digits \cup Blanks \cup Quotes \cup {"\n", "#", "\\", "$", "&", "|", "?", "@"}
InWord(c) == IsLetter(c) \/ c \in Digits

At(text, i) == IF i \in DOMAIN text THEN text[i] ELSE "EOF"
Starts(text, i, chars) == \A k \in DOMAIN chars : At(text, i + k - 1) = chars[k]

\* The first position from i whose character passes, or the end.
FirstFrom(text, i, Test(_)) ==
    CHOOSE k \in i .. Len(text) + 1 :
      (k > Len(text) \/ Test(text[k])) /\ \A m \in i .. k - 1 : ~Test(text[m])

\* The first position after the word, the line or the block comment at i.
WordEnd(text, i) == FirstFrom(text, i, LAMBDA c : ~InWord(c))
LineEnd(text, i) == FirstFrom(text, i, LAMBDA c : c = "\n")
BlockEnd(text, i) ==
    LET closers == {k \in i + 2 .. Len(text) : Starts(text, k, <<"*", "/">>)}
    IN  IF closers = {} THEN Len(text) + 1 ELSE (CHOOSE k \in closers : \A l \in closers : k <= l) + 2

Significant(toks) == SelectSeq(toks, LAMBDA t : t.type \notin {"COMMENT", "NEWLINE"})

\* prevTokenIsRoutePrefix: `/*' may be the catch-all of a route, not a comment.
PrevTokenIsRoutePrefix(toks) ==
    LET before == Significant(toks)
    IN  /\ before # <<>>
        /\ \/ Last(before).type = "group"
           \/ Last(before).type = "IDENT" /\ Last(before).lexeme \in RouteWords

-----------------------------------------------------------------------------
(* Numbers. *)

DigitChars == <<"0", "1", "2", "3", "4", "5", "6", "7", "8", "9", "a", "b", "c", "d", "e", "f">>
DigitValue(c) == (CHOOSE k \in DOMAIN DigitChars : DigitChars[k] = c) - 1

\* The digits of n.
RECURSIVE Decimal(_)
Decimal(n) == (IF n < 10 THEN <<>> ELSE Decimal(n \div 10)) \o <<DigitChars[(n % 10) + 1]>>

\* The digits a base's prefix lets follow.
BaseOf(c)   == CASE c \in {"x", "X"} -> 16 [] c \in {"b", "B"} -> 2 [] c \in {"o", "O"} -> 8 [] OTHER -> 10
DigitsOf(b) == IF b = 16 THEN Digits \cup HexLetters ELSE {d \in Digits : DigitValue(d) < b}

NumberEnd(text, i) ==
    LET base == IF text[i] = "0" THEN BaseOf(At(text, i + 1)) ELSE 10
        digits == DigitsOf(base) \cup {"_"}
        run(k) == FirstFrom(text, k, LAMBDA c : c \notin digits)
        whole == run(i)
    IN  IF base # 10 THEN run(i + 2)
        ELSE IF At(text, whole) = "." /\ At(text, whole + 1) \in Digits THEN run(whole + 1) ELSE whole

\* emitNumber: no underscores, and other bases as decimals.
NumberToken(text, i) ==
    LET base == IF text[i] = "0" THEN BaseOf(At(text, i + 1)) ELSE 10
        clean == SelectSeq(SubSeq(text, i, NumberEnd(text, i) - 1), LAMBDA c : c # "_")
        digits == SubSeq(clean, 3, Len(clean))
    IN  Token("NUMBER",
              IF base = 10 THEN clean
              ELSE Decimal(FoldLeft(LAMBDA n, c : n * base + DigitValue(c), 0, digits)))

-----------------------------------------------------------------------------
(* Strings: literals and, between ${ and }, expressions. *)

Literal(s) == [isExpr |-> FALSE, text |-> s]
Embedded(src) == [isExpr |-> TRUE, text |-> src]

Unescaped(c) == CASE c = "n" -> "\n" [] c = "t" -> "\t" [] c = "r" -> "\r" [] OTHER -> c

\* The position of the } that closes the { before i: braces are counted, those
\* of a string inside the expression too.
ClosingBrace(text, i) ==
    LET depth(k) == 1 + Len(SelectSeq(SubSeq(text, i, k), LAMBDA c : c = "{"))
                      - Len(SelectSeq(SubSeq(text, i, k), LAMBDA c : c = "}"))
        closers == {k \in i .. Len(text) : depth(k) = 0}
    IN  IF closers = {} THEN Len(text) + 1 ELSE CHOOSE k \in closers : \A l \in closers : k <= l

\* The segments of the string whose body goes on at i, with lit read since the
\* last of them.  at = 0 when it does not end.
RECURSIVE Segments(_, _, _, _, _)
Segments(text, i, quote, lit, segs) ==
    IF i > Len(text) THEN [at |-> 0, segs |-> segs]
    ELSE CASE text[i] = quote -> [at |-> i + 1, segs |-> Append(segs, Literal(lit))]
           [] text[i] = "\\" /\ i < Len(text) ->
                Segments(text, i + 2, quote, lit \o <<Unescaped(text[i + 1])>>, segs)
           [] Starts(text, i, <<"$", "{">>) ->
                LET end == ClosingBrace(text, i + 2)
                IN  IF end > Len(text) THEN [at |-> 0, segs |-> segs]
                    ELSE Segments(text, end + 1, quote, <<>>,
                                  segs \o <<Literal(lit), Embedded(SubSeq(text, i + 2, end - 1))>>)
           [] OTHER -> Segments(text, i + 1, quote, Append(lit, text[i]), segs)

-----------------------------------------------------------------------------
(* The tokens. *)

Lexed(toks) == [ok |-> TRUE, tokens |-> toks]
LexError    == [ok |-> FALSE, tokens |-> <<>>]

\* The tokens of text from i after those in toks; with keep, the comments and
\* the line breaks are among them (CollectComments).
RECURSIVE Lex(_, _, _, _)

\* A string with expressions becomes ( lit + ( expr ) + lit ... ).
SegmentTokens(segs) ==
    LET one(s) == IF s.isExpr THEN Lex(s.text, 1, FALSE, <<>>) ELSE Lexed(<<Token("STRING", s.text)>>)
        wrap(k) == IF segs[k].isExpr THEN <<Fixed("(")>> \o one(segs[k]).tokens \o <<Fixed(")")>>
                   ELSE one(segs[k]).tokens
        joined == FoldLeft(LAMBDA acc, k : acc \o (IF k = 1 THEN <<>> ELSE <<Fixed("+")>>) \o wrap(k),
                           <<>>, [k \in DOMAIN segs |-> k])
    IN  IF \E k \in DOMAIN segs : ~one(segs[k]).ok THEN LexError
        ELSE IF Len(segs) = 1 THEN Lexed(joined)
        ELSE Lexed(<<Fixed("(")>> \o joined \o <<Fixed(")")>>)

LexString(text, i, keep, toks) ==
    LET str == Segments(text, i + 1, text[i], <<>>, <<>>)
        inner == SegmentTokens(str.segs)
    IN  IF str.at = 0 \/ ~inner.ok THEN LexError ELSE Lex(text, str.at, keep, toks \o inner.tokens)

\* The longest symbol at i: three characters are tried before two before one.
LexSymbol(text, i, keep, toks) ==
    LET k == SelectInSeq(LongSymbols, LAMBDA s : Starts(text, i, s))
    IN  IF k # 0 THEN Lex(text, i + Len(LongSymbols[k]), keep, Append(toks, Symbol(LongSymbols[k])))
        ELSE IF text[i] \in ShortSymbols THEN Lex(text, i + 1, keep, Append(toks, Fixed(text[i])))
        ELSE LexError

Lex(text, i, keep, toks) ==
    LET comment(end) ==
          Lex(text, end, keep, IF keep THEN Append(toks, Token("COMMENT", SubSeq(text, i, end - 1))) ELSE toks)
    IN  IF i > Len(text) THEN Lexed(toks)
        ELSE CASE text[i] \in Blanks -> Lex(text, i + 1, keep, toks)
               [] text[i] = "\n"     -> Lex(text, i + 1, keep, IF keep THEN Append(toks, Fixed("NEWLINE")) ELSE toks)
               [] text[i] = "#" \/ Starts(text, i, <<"/", "/">>) -> comment(LineEnd(text, i))
               [] Starts(text, i, <<"/", "*">>) /\ ~PrevTokenIsRoutePrefix(toks) -> comment(BlockEnd(text, i))
               [] IsLetter(text[i])  ->
                    LET end == WordEnd(text, i)
                        word == Glue(SubSeq(text, i, end - 1))
                    IN  Lex(text, end, keep,
                            Append(toks, IF word \in Keywords THEN Fixed(word) ELSE Token("IDENT", <<word>>)))
               [] text[i] \in Digits -> Lex(text, NumberEnd(text, i), keep, Append(toks, NumberToken(text, i)))
               [] text[i] \in Quotes -> LexString(text, i, keep, toks)
               [] OTHER              -> LexSymbol(text, i, keep, toks)

Tokenize(text)     == Lex(text, 1, FALSE, <<>>)
TokenizeAll(text)  == Lex(text, 1, TRUE, <<>>)
=============================================================================
