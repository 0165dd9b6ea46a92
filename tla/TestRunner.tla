----------------------------- MODULE TestRunner -----------------------------
(***************************************************************************)
(* mx test (main.go, cmdTest): the files found under a root, the tests of  *)
(* each by form and filter, a new interpreter for each test, the counts,   *)
(* the coverage of a file and the exit code.                               *)
(***************************************************************************)
EXTENDS Integers, Sequences, FiniteSets, FiniteSetsExt

CONSTANTS Suites,   \* sequences of files: [loads, decls]
          Filters   \* texts as sequences of symbols; <<>> is no filter

\* A file loads "whole", cannot be read or parsed ("broken"), or its top level fails
\* ("throws").  A declaration is [form, name, body, lines]: a function or a test block.
\* What a body does: it passes, it fails, it adds to a variable of the program and
\* asserts that it is 1 ("counts"), or it does so with a metric or another registry of
\* the process ("registers").
TestBodies == {"passes", "fails", "counts", "registers"}
Declarations == [form : {"fn", "test"}, name : Seq(STRING), body : TestBodies, lines : SUBSET Nat]
TestFiles == [loads : {"whole", "broken", "throws"}, decls : Seq(Declarations)]

ASSUME TestAssumption ==
    (\A s \in Suites : s \in Seq(TestFiles)) /\ (\A f \in Filters : f \in Seq(STRING))

VARIABLES suite, filter, cover,
          fileNo,     \* the file at hand
          todo,       \* its selected tests, in the order they run: numbers of declarations
          interp,     \* the test's interpreter: its program variable, its lines
          process,    \* what outlives an interpreter: the registries of the process
          covered,    \* fileCov
          reports,    \* [file, decl, status], in order
          passed, failed,
          exit        \* "running", or the exit code

testVars == <<suite, filter, cover, fileNo, todo, interp, process, covered, reports, passed, failed, exit>>

File == suite[fileNo]
NoInterpreter == [counter |-> 0, lines |-> {}, loaded |-> FALSE]

-----------------------------------------------------------------------------
(* Selection *)

HasPart(text, part) ==
    \E k \in 0 .. Len(text) - Len(part) : part = SubSeq(text, k + 1, k + Len(part))

\* Symbols of a name: "test_" stands for the prefix, "_" for an underscore.
HasPrefix(name) == name # <<>> /\ name[1] = "test_"
Pretty(name) ==
    LET stripped == IF HasPrefix(name) THEN Tail(name) ELSE name
    IN  [k \in DOMAIN stripped |-> IF stripped[k] = "_" THEN " " ELSE stripped[k]]

\* A function is found by its name or by the title it is reported with.
Selected(d) ==
    \/ d.form = "fn" /\ HasPrefix(d.name) /\ (filter = <<>> \/ HasPart(d.name, filter) \/ HasPart(Pretty(d.name), filter))
    \/ d.form = "test" /\ (filter = <<>> \/ HasPart(d.name, filter))

NumbersOf(file, form) ==
    LET upto[k \in 0 .. Len(file.decls)] ==
            IF k = 0 THEN <<>>
            ELSE IF file.decls[k].form = form /\ Selected(file.decls[k]) THEN Append(upto[k - 1], k)
            ELSE upto[k - 1]
    IN  upto[Len(file.decls)]

\* The functions first, then the blocks.
Discovered(file) == NumbersOf(file, "fn") \o NumbersOf(file, "test")

\* A function is called by its name, which its last declaration has.
Called(d) ==
    IF File.decls[d].form = "test" THEN File.decls[d]
    ELSE File.decls[Max({k \in DOMAIN File.decls : File.decls[k].form = "fn" /\ File.decls[k].name = File.decls[d].name})]

-----------------------------------------------------------------------------
(* The run *)

TestInit ==
    /\ suite \in Suites /\ filter \in Filters /\ cover \in BOOLEAN
    /\ fileNo = 0 /\ todo = <<>>
    /\ interp = NoInterpreter /\ process = 0 /\ covered = {}
    /\ reports = <<>> /\ passed = 0 /\ failed = 0
    /\ exit = "running"

\* The next file: one that cannot be read or parsed counts as one failure.
OpenFile ==
    /\ exit = "running" /\ todo = <<>> /\ fileNo < Len(suite)
    /\ fileNo' = fileNo + 1
    /\ LET file == suite[fileNo + 1]
       IN  IF file.loads = "broken"
           THEN failed' = failed + 1 /\ UNCHANGED todo
           ELSE todo' = Discovered(file) /\ UNCHANGED failed
    /\ covered' = {} /\ interp' = NoInterpreter
    /\ UNCHANGED <<suite, filter, cover, process, reports, passed, exit>>

Reported(status) ==
    /\ reports' = Append(reports, [file |-> fileNo, decl |-> Head(todo), status |-> status])
    /\ IF status = "pass" THEN passed' = passed + 1 /\ UNCHANGED failed
       ELSE failed' = failed + 1 /\ UNCHANGED passed

\* Mutant: one interpreter for the tests of a file.
LoadOnce ==
    /\ exit = "running" /\ todo # <<>> /\ ~interp.loaded
    /\ IF File.loads = "throws"
       THEN /\ Reported("fail")
            /\ todo' = Tail(todo)
            /\ UNCHANGED interp
       ELSE /\ interp' = [interp EXCEPT !.loaded = TRUE]
            /\ UNCHANGED <<todo, reports, passed, failed>>
    /\ covered' = IF cover /\ covered = {} THEN {0} ELSE covered
    /\ UNCHANGED <<suite, filter, cover, fileNo, process, exit>>

\* interpreter.New and the whole program, for each test: the top level runs each time.
\* The first interpreter's lines are those of the file.
LoadProgram ==
    /\ exit = "running" /\ todo # <<>> /\ ~interp.loaded
    /\ IF File.loads = "throws"
       THEN /\ Reported("fail")
            /\ todo' = Tail(todo)
            /\ UNCHANGED interp
       ELSE /\ interp' = [counter |-> 0, lines |-> {0}, loaded |-> TRUE]
            /\ UNCHANGED <<todo, reports, passed, failed>>
    /\ covered' = IF cover /\ covered = {} THEN {0} ELSE covered
    /\ UNCHANGED <<suite, filter, cover, fileNo, process, exit>>

Verdict(body, counter, registry) ==
    CASE body = "passes"    -> "pass"
      [] body = "fails"     -> "fail"
      [] body = "counts"    -> IF counter = 1 THEN "pass" ELSE "fail"
      [] body = "registers" -> IF registry = 1 THEN "pass" ELSE "fail"

\* CallByName or RunTest: a failed assertion ends the body, and the next test follows.
RunTest ==
    /\ exit = "running" /\ todo # <<>> /\ interp.loaded
    /\ LET d == Called(Head(todo))
           counter == interp.counter + (IF d.body = "counts" THEN 1 ELSE 0)
       IN  /\ process' = process + (IF d.body = "registers" THEN 1 ELSE 0)
           /\ Reported(Verdict(d.body, counter, process'))
           /\ covered' = IF cover THEN covered \cup d.lines ELSE covered
           /\ interp' = [interp EXCEPT !.counter = counter, !.loaded = FALSE]
    /\ todo' = Tail(todo)
    /\ UNCHANGED <<suite, filter, cover, fileNo, exit>>

Finish ==
    /\ exit = "running" /\ todo = <<>> /\ fileNo = Len(suite)
    /\ exit' = IF failed > 0 THEN "1" ELSE "0"
    /\ UNCHANGED <<suite, filter, cover, fileNo, todo, interp, process, covered, reports, passed, failed>>

TestNext == OpenFile \/ LoadProgram \/ RunTest \/ Finish

TestSpec == TestInit /\ [][TestNext]_testVars

-----------------------------------------------------------------------------
(* Properties *)

\* The declaration a report is about, and what it would be if its test were alone.
DeclOf(r)  == suite[r.file].decls[r.decl]
Runs(r) ==
    IF DeclOf(r).form = "test" THEN DeclOf(r)
    ELSE LET same == {k \in DOMAIN suite[r.file].decls : suite[r.file].decls[k].form = "fn" /\ suite[r.file].decls[k].name = DeclOf(r).name}
         IN  suite[r.file].decls[Max(same)]
Alone(r)   == IF suite[r.file].loads = "throws" THEN "fail" ELSE Verdict(Runs(r).body, 1, 1)

\* No test changes the verdict of another (main.go: "Each test gets a fresh interpreter
\* so state can't leak between tests").  It can through a registry of the process, which
\* all interpreters share: only the first test that uses one is sure of its verdict.
VerdictAlone ==
    \A k \in DOMAIN reports :
       \/ reports[k].status = Alone(reports[k])
       \/ Runs(reports[k]).body = "registers" /\ \E j \in 1 .. k - 1 : Runs(reports[j]).body = "registers"

\* The command reports every selected test of every file that loads, each once, and
\* fails exactly when something did.
Accounted ==
    exit # "running" =>
       LET broken == {f \in DOMAIN suite : suite[f].loads = "broken"}
       IN  /\ (exit = "1") = (\/ broken # {}
                              \/ \E k \in DOMAIN reports : reports[k].status = "fail")
           /\ passed + failed = Len(reports) + Cardinality(broken)
           /\ \A f \in DOMAIN suite \ broken : \A d \in DOMAIN suite[f].decls :
                 Cardinality({k \in DOMAIN reports : reports[k].file = f /\ reports[k].decl = d})
                    = (IF Selected(suite[f].decls[d]) THEN 1 ELSE 0)

\* The coverage of a file is that of all its tests together.
Covers ==
    cover /\ fileNo > 0 /\ todo = <<>> =>
       LET own == {k \in DOMAIN reports : reports[k].file = fileNo}
       IN  covered = (IF own = {} THEN {} ELSE {0}) \cup
                     (IF File.loads = "throws" THEN {} ELSE UNION {Runs(reports[k]).lines : k \in own})

TestsAreSound == VerdictAlone /\ Accounted /\ Covers
=============================================================================
