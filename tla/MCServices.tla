----------------------------- MODULE MCServices -----------------------------
(***************************************************************************)
(* What a program's code calls and what runs beside it: goroutines, rate   *)
(* limits and metrics, outgoing calls, credentials, schedules, arrays,     *)
(* templates, validation, and the processes that watch and test it.  They  *)
(* share nothing, so each behaviour is about one of them; the others stand *)
(* still in an initial state that asks nothing.                            *)
(***************************************************************************)
EXTENDS MCGoroutines, Limits, Calls, Tokens, Cron, Watch, TestRunner, MCValues

CONSTANT c1

VARIABLE part

(* Rate limits and metrics *)

TheBudgets == {[max |-> 1, window |-> 2], [max |-> 2, window |-> 2], [max |-> 2, window |-> 1]}
TheBounds == <<1, 2>>
Label(name, value) == [name |-> name, value |-> value]
\* The second and the third are written alike.
TheLabels == { <<>>, <<Label("a", <<"1", ",", "b", "=", "2">>)>>, <<Label("a", <<"1">>), Label("b", <<"2">>)>> }

(* Outgoing calls *)

All(entries, limit) == [name |-> "fetch_all", entries |-> entries, limit |-> limit, attempts |-> 1, delay |-> 1]
Again(name, attempts, delay) ==
    [name |-> name, entries |-> <<"url">>, limit |-> "none", attempts |-> attempts, delay |-> delay]
TheCalls ==
    { All(<<"url", "object", "url">>, limit) : limit \in {"none", "two", "default"} }
    \cup { All(<<"url", "other", "url">>, "two"), All(<<>>, "default") }
    \cup { Again(name, n, 1) : name \in {"fetch_retry", "retry"}, n \in {0, 1, 3} }
    \cup { Again("fetch_retry", 2, 0) }

(* Credentials *)

ThePayloads == { <<Symbol("a", <<>>), Dot, Symbol("a", <<>>)>> }
TheLives == { -1, 0, 2 }

(* Schedules: a day has two hours of two minutes; times are given as day and minute. *)

On(day, minute) == day * 4 + minute
Feb2024 == 365 + 31
AllDays == <<Star>>
Midnight(dom, month, dow) == << <<Item(0, 0, 1)>>, <<Item(0, 0, 1)>>, dom, month, dow >>
TheRules ==
    { << AllDays, AllDays, AllDays, AllDays, AllDays >>,
      << <<Item(-1, -1, 2)>>, <<Item(1, 1, 1)>>, AllDays, AllDays, <<Item(1, 5, 1)>> >>,
      Midnight(<<Item(31, 31, 1)>>, AllDays, AllDays),
      Midnight(<<Item(1, 1, 1), Item(13, 13, 1)>>, AllDays, <<Item(5, 5, 1)>>),
      Midnight(<<Item(-1, -1, 10)>>, <<Item(2, 12, 5)>>, AllDays),
      Midnight(<<Item(29, 29, 1)>>, <<Item(2, 2, 1)>>, AllDays),
      Midnight(<<Item(30, 30, 1)>>, <<Item(2, 2, 1)>>, AllDays),
      Midnight(<<Item(0, 0, 1)>>, AllDays, AllDays) }
TheStarts == { On(0, 0), On(Feb2024 + 26, 1), On(Feb2024 + 28, 1) }

(* Test files *)

Fn(name, body, line)    == [form |-> "fn", name |-> <<"test_">> \o name, body |-> body, lines |-> {line}]
Block(name, body, line) == [form |-> "test", name |-> name, body |-> body, lines |-> {line}]
TestFile(loads, decls) == [loads |-> loads, decls |-> decls]

Bodies == {"passes", "fails", "counts", "registers"}
Small == { TestFile("whole", <<Block(<<"a">>, y, 1), Fn(<<"a", "_", "b">>, x, 2), Fn(<<"a">>, "counts", 3)>>)
           : x \in Bodies, y \in Bodies }
Twice == TestFile("whole", <<Fn(<<"b">>, "fails", 1), Fn(<<"b">>, "counts", 2), Block(<<>>, "passes", 3)>>)
TheSuites ==
    { <<s, t>> : s \in Small, t \in Small \cup {Twice} } \cup { <<>>, <<TestFile("whole", <<>>), Twice>> }
    \cup { <<TestFile(l, s.decls), s>> : l \in {"broken", "throws"}, s \in Small }
TheFilters == { <<>>, <<"a", " ", "b">>, <<"test_">>, <<"b">> }

-----------------------------------------------------------------------------

ServicesInit ==
    /\ part \in {"goroutines", "buckets", "metrics", "calls", "tokens", "cron", "watch", "tests", "arrays", "templates", "schemas"}
    /\ Init /\ (part # "goroutines" => program = CHOOSE p \in Astray : TRUE)
    /\ LimitsInit
    /\ CallsInit /\ (part # "calls" => call = CHOOSE c \in CallCasts : TRUE)
    /\ TokensInit /\ (part # "tokens" => secret = CHOOSE s \in Secrets : TRUE)
    /\ CronInit /\ (part # "cron" => rule = CHOOSE r \in Rules : TRUE) /\ (part # "cron" => time = CHOOSE t \in Starts : TRUE)
    /\ WatchInit /\ (part # "watch" => mode = "wait" /\ disk = <<"hangs">>)
    /\ TestInit /\ (part # "tests" => suite = <<>> /\ filter = <<>> /\ ~cover)
    /\ (part # "arrays" => op = "map" /\ cells = <<>>) /\ Coll!CollectionsInit
    /\ (part # "templates" => template = <<>> /\ partials = "q" :> <<>> /\ names = CHOOSE n \in TheVars : TRUE) /\ Tmpl!TemplatesInit
    /\ (part # "schemas" => given = Num(1) /\ schema = CHOOSE s \in TheSchemas : TRUE) /\ Valid!ValidationInit

servicesVars == <<vars, limitVars, callVars, tokenVars, cronVars, watchVars, testVars>>
valueVars == <<collectionVars, templateVars, validationVars>>
allVars == <<part, servicesVars, valueVars>>

ServicesNext ==
    /\ UNCHANGED part
    /\ \/ part = "goroutines" /\ Next /\ UNCHANGED <<limitVars, callVars, tokenVars, cronVars, watchVars, testVars, valueVars>>
       \/ part = "buckets" /\ BucketsNext /\ UNCHANGED <<vars, callVars, tokenVars, cronVars, watchVars, testVars, valueVars>>
       \/ part = "metrics" /\ MetricsNext /\ UNCHANGED <<vars, callVars, tokenVars, cronVars, watchVars, testVars, valueVars>>
       \/ part = "calls" /\ CallsNext /\ UNCHANGED <<vars, limitVars, tokenVars, cronVars, watchVars, testVars, valueVars>>
       \/ part = "tokens" /\ TokensNext /\ UNCHANGED <<vars, limitVars, callVars, cronVars, watchVars, testVars, valueVars>>
       \/ part = "cron" /\ CronNext /\ UNCHANGED <<vars, limitVars, callVars, tokenVars, watchVars, testVars, valueVars>>
       \/ part = "watch" /\ WatchNext /\ UNCHANGED <<vars, limitVars, callVars, tokenVars, cronVars, testVars, valueVars>>
       \/ part = "tests" /\ TestNext /\ UNCHANGED <<vars, limitVars, callVars, tokenVars, cronVars, watchVars, valueVars>>
       \/ part = "arrays" /\ Coll!CollectionsNext /\ UNCHANGED <<servicesVars, templateVars, validationVars>>
       \/ part = "templates" /\ Tmpl!TemplatesNext /\ UNCHANGED <<servicesVars, collectionVars, validationVars>>
       \/ part = "schemas" /\ Valid!Validate /\ UNCHANGED <<servicesVars, collectionVars, templateVars>>

\* The Go scheduler runs every goroutine that can run; the operating system runs the
\* watcher, lets a killed child die, and a child that can end does.
ServicesSpec ==
    /\ ServicesInit /\ [][ServicesNext]_allVars
    /\ \A p \in Procs : WF_vars(part = "goroutines" /\ Step(p))
    /\ \A p, q \in Procs : WF_vars(part = "goroutines" /\ Meet(p, q))
    /\ WF_watchVars(part = "watch" /\ WatcherStep)
    /\ WF_watchVars(part = "watch" /\ ChildStep)

\* Each property of a value on its own part: see Collections, Templates, Validation.
CollectionsAgree == part = "arrays" => Coll!CollectionsAgree
RendersAsRead == part = "templates" => Tmpl!RendersAsRead
FaultsReported == part = "schemas" => Valid!FaultsReported
=============================================================================
