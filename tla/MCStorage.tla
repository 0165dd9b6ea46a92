----------------------------- MODULE MCStorage -----------------------------
(***************************************************************************)
(* What outlives a process: the file stores, the database with its         *)
(* migrations and helpers, and the packages.  They share nothing, so each  *)
(* behaviour is about one of them.                                         *)
(***************************************************************************)
EXTENDS FileStore, Migrations, Packages, TLC

CONSTANTS p1, p2, t1, t2, t3, k1, k2, v1, v2, s1, s2, create, alter, edited, broken,
          a, b, twin,
          c1, c2

VARIABLES part, driver, table, helper

tableVars == <<driver, table, helper>>

TheProcOf == t1 :> p1 @@ t2 :> p1 @@ t3 :> p2

TheStores ==
    { [kind |-> kind, threads |-> {t1, t2}, faults |-> n] : kind \in {"kv", "vault"}, n \in 0 .. 1 }
    \cup { [kind |-> kind, threads |-> {t1, t3}, faults |-> 0] : kind \in {"kv", "snapshot"} }
    \cup { [kind |-> "snapshot", threads |-> {t1}, faults |-> 1] }

TheReleases == {<<create>>, <<create, alter>>, <<edited, alter>>, <<create, alter, broken>>}

\* twin is a of another host.
ThePaths == <<a, b, twin>>
TwoPaths  == <<a, b>>
TheLocalPath == a :> "a" @@ b :> "b" @@ twin :> "a"

\* No property tells keys or values of the stores apart.
Symmetry == Permutations({k1, k2}) \cup Permutations({v1, v2})

\* Calls of the SQL helpers on the columns k and v: a name that is no identifier (1x), one
\* that is no column (w), missing and repeated keys, NULL, a boolean (3).
True == 3
Objects == { <<>>, "k" :> 1, "k" :> 2, "v" :> 2, "v" :> True, "k" :> Null @@ "v" :> 1, "k" :> 1 @@ "v" :> 2, "1x" :> 1, "w" :> 1 }
Wheres == { <<>>, "k" :> 1, "v" :> True, "v" :> Null, "v" :> 2 @@ "k" :> 2, "1x" :> 1, "w" :> 1 }
NoOpts == [columns |-> <<>>, order |-> <<>>, limit |-> -1, offset |-> -1]
AnyCall == [name |-> "find", rows |-> <<>>, where |-> <<>>, keys |-> <<>>, opts |-> NoOpts,
            handle |-> "connection"]
Pages == { [NoOpts EXCEPT !.columns = <<"v">>, !.order = <<"v", "desc">>, !.limit = 1, !.offset = 1],
           [NoOpts EXCEPT !.order = <<"k", "asc">>, !.limit = 1], [NoOpts EXCEPT !.offset = 1],
           [NoOpts EXCEPT !.limit = 1, !.offset = 0], [NoOpts EXCEPT !.order = <<"w", "asc">>], NoOpts }
TheCallsOf(t) ==
    IF t = c2 THEN {[AnyCall EXCEPT !.name = "update", !.rows = <<"v" :> 2>>, !.where = "k" :> 1]}
    ELSE { [AnyCall EXCEPT !.name = "insert", !.rows = rows] :
               rows \in { <<>> } \cup { <<o>> : o \in Objects } \cup { <<"k" :> 1 @@ "v" :> 2, o>> : o \in Objects } }
      \cup { [AnyCall EXCEPT !.name = "upsert", !.rows = <<o>>, !.keys = ks, !.handle = h] :
               o \in Objects, ks \in {<<"k">>, <<>>}, h \in {"connection", "transaction"} }
      \cup { [AnyCall EXCEPT !.name = "update", !.rows = <<o>>, !.where = w] :
               o \in Objects, w \in {<<>>, "k" :> 1, "v" :> 2 @@ "k" :> 2} }
      \cup { [AnyCall EXCEPT !.name = n, !.where = w] : n \in {"delete", "count", "exists"}, w \in Wheres }
      \cup { [AnyCall EXCEPT !.name = n, !.where = w, !.opts = o] :
               n \in {"find", "find_one"}, w \in {<<>>, "v" :> 2}, o \in Pages}

Sql == INSTANCE SqlHelpers WITH
    Callers <- {c1, c2}, CallsOf <- TheCallsOf, Names <- <<"1x", "k", "v", "w">>, BadNames <- {"1x"},
    Columns <- <<"k", "v">>, Key <- "k", Drivers <- {"sqlite", "mysql"}, MaxRows <- 2

\* The SQL helpers do to the table what their objects say (SqlHelpers.tla).
HelpersKeepTables == Sql!HelpersKeepTables

Init ==
    /\ part \in {"files", "migrations", "sql", "packages"}
    /\ StoreInit /\ MigrationsInit /\ PkgInit
    /\ Sql!SqlInit /\ (part # "sql" => driver = "sqlite")
    /\ part # "files" => store = CHOOSE s \in StoreCasts : TRUE

Next ==
    \/ part = "files" /\ StoreNext /\ UNCHANGED <<part, migrationVars, pkgVars, tableVars>>
    \/ part = "migrations" /\ MigrationsNext /\ UNCHANGED <<part, storeVars, pkgVars, tableVars>>
    \/ part = "packages" /\ PkgNext /\ UNCHANGED <<part, storeVars, migrationVars, tableVars>>
    \/ part = "sql" /\ Sql!SqlNext /\ UNCHANGED <<part, storeVars, migrationVars, pkgVars>>

Spec == Init /\ [][Next]_<<part, storeVars, migrationVars, pkgVars, tableVars>>
=============================================================================
