----------------------------- MODULE Toolchain -----------------------------
(***************************************************************************)
(* A source file in the hands of the mx commands (src/main.go): mx fmt -w  *)
(* rewrites it, mx check reports on it, mx run loads it.  What lexes and   *)
(* parses is decided by Lexer and Parser, what is written by Formatter,    *)
(* what is reported by Checker, and how the program ends by Evaluator.     *)
(***************************************************************************)
EXTENDS Formatter, Checker

CONSTANTS Sources,   \* [text, tree]: files, and the programs their authors meant
          Runnable   \* the programs among them that Evaluator's model covers

\* The tree of a source that is not written after one.
NoTree == << >>

VARIABLES file,      \* the text of the file
          written,   \* the program its author meant, or NoTree
          report,    \* the diagnostics of the last mx check
          outcome    \* how the last mx run ended

vars == <<file, written, report, outcome>>

E == INSTANCE Evaluator WITH Programs <- {}, program <- written, next <- 0, run <- outcome

Diagnostics(c) == [errors |-> c.errors, warnings |-> c.warnings]

Init ==
    /\ \E s \in Sources : file = s.text /\ written = s.tree
    /\ report = <<>>
    /\ outcome = "not run"

\* mx fmt -w: a file that does not lex is left alone.
CmdFmt ==
    /\ TokenizeAll(file).ok
    /\ file' = Format(file)
    /\ UNCHANGED <<written, report, outcome>>

\* mx check: a file that does not parse has no diagnostics but that.
CmdCheck ==
    /\ Parses(file)
    /\ report' = <<Diagnostics(Check(Program(file)))>>
    /\ UNCHANGED <<file, written, outcome>>

\* The statements of a file without routes, one after the other: Load.
RunAll(stmts) == FoldLeft(LAMBDA e, s : E!RunOn(e, s), E!Start(FALSE), stmts).sig

CmdRun ==
    /\ written \in Runnable
    /\ Parses(file)
    /\ outcome' = RunAll(Program(file))
    /\ UNCHANGED <<file, written, report>>

Next == CmdFmt \/ CmdCheck \/ CmdRun

Spec == Init /\ [][Next]_vars

-----------------------------------------------------------------------------
(* Properties. *)

\* The parser reads a program as its author wrote it: operators bind as the
\* grammar says, one statement does not run into the next, and none of it
\* changes when mx fmt has been there.
ReadsAsWritten ==
    written # NoTree => LET read == Reading(file) IN read.at # 0 /\ read.tree = written

\* Where the formatter is known to lose what it is given: a line comment just
\* after the brace of a block, which takes in the next line; a string with ${,
\* which becomes an expression; a route word that divides, whose line loses its
\* spaces.
LineComment(t) == t.type = "COMMENT" /\ Head(t.chars) \in {"/", "#"} /\ ~IsSuffix(<<"*", "/">>, t.chars)
HasDollarBrace(chars) == \E k \in 1 .. Len(chars) - 1 : chars[k] = "$" /\ chars[k + 1] = "{"
NotAPath(toks, k) ==
    LET rest == SubSeq(toks, k + 1, Len(toks))
        brace == SelectInSeq(rest, LAMBDA t : t.type = "{")
    IN  \E m \in 1 .. (IF brace = 0 THEN Len(rest) ELSE brace - 1) :
          rest[m].type \notin PathTokens \cup {"NEWLINE", "COMMENT"}
FmtTrips(toks) ==
    \/ \E k \in 2 .. Len(toks) :
         toks[k - 1].type = "{" /\ BraceKind(toks, k - 1) = "block" /\ LineComment(toks[k])
    \/ \E k \in DOMAIN toks : toks[k].type = "STRING" /\ HasDollarBrace(toks[k].chars)
    \/ \E k \in DOMAIN toks : StartsRoutePath(toks, k) /\ NotAPath(toks, k)

\* Everything but the line breaks and the blanks a line ends with.
Content(text) == SelectSeq(TokenizeAll(Tidy(text)).tokens, LAMBDA t : t.type # "NEWLINE")

\* mx fmt rewrites the layout and nothing else: every token and every comment
\* of the file is still there, in the same order, unless the file is one of those
\* the formatter trips over.
FmtKeepsContent ==
    [][file' # file /\ ~FmtTrips(TokenizeAll(file).tokens)
         => TokenizeAll(file').ok /\ Content(file') = Content(file)]_vars

\* A file that mx fmt has written is one that mx fmt --check accepts.
FmtSettles ==
    [][file' # file /\ ~FmtTrips(TokenizeAll(file).tokens) => Format(file') = file']_vars

\* The programs in which every name is declared before the statement that reads
\* it: mx check accepts them at each of their statements.
DeclaredInOrder(stmts) == \A n \in 1 .. Len(stmts) : Check(SubSeq(stmts, 1, n)).errors = {}

\* A program that mx check accepts, statement by statement, does not fail for
\* want of a name when it runs.
AcceptedRuns ==
    report # <<>> /\ outcome # "not run" /\ DeclaredInOrder(written) => outcome = "ok"
=============================================================================
