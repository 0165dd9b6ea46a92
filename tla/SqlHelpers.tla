----------------------------- MODULE SqlHelpers -----------------------------
(***************************************************************************)
(* sql.insert, upsert, update, delete, find, find_one, count and exists    *)
(* (sql_insert.go): each turns objects into one statement with ? in the    *)
(* place of values and a flat list of arguments, and hands both to the     *)
(* runner of the handle (sql.go).  The database (external) has one table   *)
(* with a unique column and executes statements one at a time.             *)
(***************************************************************************)
EXTENDS Integers, Sequences, FiniteSets, SequencesExt

CONSTANTS Callers, CallsOf(_),  \* the calls a caller may make
          Names,      \* names in the order of sort.Strings
          BadNames,   \* those that are no plain identifiers
          Columns,    \* columns of the table, in its order
          Key,        \* the unique one
          Drivers, True, Null, NoOp, Idle, Error,
          MaxRows

VARIABLES driver,
          table,   \* rows [columns -> values], in the order of insertion
          helper   \* [Callers -> [op, stmt, args, answer]]

sqlVars == <<driver, table, helper>>

\* A call is [name, rows, where, keys, opts, handle]: rows are objects (functions from
\* names), opts is [columns, order, limit, offset], a handle is of a connection or of
\* a transaction.
NoOpts == [columns |-> <<>>, order |-> <<>>, limit |-> -1, offset |-> -1]
Resting == [op |-> NoOp, stmt |-> NoOp, args |-> <<>>, answer |-> Idle]

SqlInit ==
    /\ driver \in Drivers
    /\ table = <<>>
    /\ helper = [t \in Callers |-> Resting]

-----------------------------------------------------------------------------
(* Building *)

Places(obj) == SelectSeq(Names, LAMBDA c : c \in DOMAIN obj)
Field(obj, c) == IF c \in DOMAIN obj THEN obj[c] ELSE Null
Fields(obj, cols) == [j \in DOMAIN cols |-> Field(obj, cols[j])]
Plain(names) == names \cap BadNames = {}

\* goArgs: a boolean is stored as a number.
Bound(v) == IF v = True THEN 1 ELSE v

\* What each helper refuses before it builds.  Rows after the first may have fewer
\* columns, never more.
Refuses(op) ==
    CASE op.name = "insert" -> /\ op.rows # <<>>
                               /\ \/ ~Plain(DOMAIN op.rows[1])
                                  \/ \E r \in ToSet(op.rows) : ~(DOMAIN r \subseteq DOMAIN op.rows[1])
      [] op.name = "upsert" -> ~Plain(DOMAIN op.rows[1] \cup ToSet(op.keys)) \/ op.keys = <<>>
      [] op.name = "update" -> \/ DOMAIN op.rows[1] = {} \/ DOMAIN op.where = {}
                               \/ ~Plain(DOMAIN op.rows[1] \cup DOMAIN op.where)
      [] op.name = "delete" -> DOMAIN op.where = {} \/ ~Plain(DOMAIN op.where)
      [] op.name \in {"count", "exists"} -> ~Plain(DOMAIN op.where)
      [] op.name \in {"find", "find_one"} ->
            ~Plain(DOMAIN op.where \cup ToSet(op.opts.columns) \cup (IF op.opts.order = <<>> THEN {} ELSE {op.opts.order[1]}))

\* strings.Repeat("?, ", -1).
Panics(op) == op.name \in {"insert", "upsert"} /\ op.rows # <<>> /\ DOMAIN op.rows[1] = {}

\* The dialect follows the handle, and the handle of a transaction has no driver.
Dialect(op) == IF driver = "mysql" /\ op.handle = "connection" THEN "duplicate key" ELSE "on conflict"
NoConflict == [dialect |-> "none", keys |-> <<>>, sets |-> <<>>]
Conflict(op) ==
    [dialect |-> Dialect(op), keys |-> op.keys,
     sets |-> SelectSeq(Places(op.rows[1]), LAMBDA c : c \notin ToSet(op.keys))]

Statement(verb, cols, tuples, conflict, where, opts) ==
    [verb |-> verb, cols |-> cols, tuples |-> tuples, conflict |-> conflict, where |-> where, opts |-> opts]

StatementOf(op) ==
    LET cols  == Places(op.rows[1])
        where == Places(op.where)
    IN  CASE op.name = "insert" -> Statement("insert", cols, Len(op.rows), NoConflict, <<>>, NoOpts)
          [] op.name = "upsert" -> Statement("insert", cols, 1, Conflict(op), <<>>, NoOpts)
          [] op.name = "update" -> Statement("update", cols, 0, NoConflict, where, NoOpts)
          [] op.name = "delete" -> Statement("delete", <<>>, 0, NoConflict, where, NoOpts)
          [] op.name = "count"  -> Statement("count", <<>>, 0, NoConflict, where, NoOpts)
          [] op.name = "exists" -> Statement("select", <<>>, 0, NoConflict, where, [NoOpts EXCEPT !.limit = 1])
          [] op.name = "find"   -> Statement("select", <<>>, 0, NoConflict, where, op.opts)
          [] op.name = "find_one" -> Statement("select", <<>>, 0, NoConflict, where, [op.opts EXCEPT !.limit = 1])

\* Mutant: each row gives the columns it has.
ArgumentsAsGiven(op) ==
    CASE op.name \in {"insert", "upsert"} -> FlattenSeq([i \in DOMAIN op.rows |-> Fields(op.rows[i], Places(op.rows[i]))])
      [] op.name = "update" -> Fields(op.rows[1], Places(op.rows[1])) \o Fields(op.where, Places(op.where))
      [] OTHER -> Fields(op.where, Places(op.where))

\* In the order of the places: the rows by the columns of the first, SET before WHERE.
Arguments(op) ==
    CASE op.name \in {"insert", "upsert"} -> FlattenSeq([i \in DOMAIN op.rows |-> Fields(op.rows[i], Places(op.rows[1]))])
      [] op.name = "update" -> Fields(op.rows[1], Places(op.rows[1])) \o Fields(op.where, Places(op.where))
      [] OTHER -> Fields(op.where, Places(op.where))

-----------------------------------------------------------------------------
(* The database: places are filled by position. *)

Cols == ToSet(Columns)
PlaceCount(stmt) == (IF stmt.verb = "insert" THEN Len(stmt.cols) * stmt.tuples ELSE Len(stmt.cols)) + Len(stmt.where)

Understood(stmt, args) ==
    /\ Len(args) = PlaceCount(stmt)
    /\ ToSet(stmt.cols) \cup ToSet(stmt.where) \cup ToSet(stmt.opts.columns) \subseteq Cols
    /\ stmt.opts.order # <<>> => stmt.opts.order[1] \in Cols
    /\ stmt.opts.offset >= 0 => stmt.opts.limit >= 0
    /\ CASE stmt.conflict.dialect = "none" -> TRUE
         [] stmt.conflict.dialect = "on conflict" -> driver = "sqlite" /\ ToSet(stmt.conflict.keys) = {Key}
         [] stmt.conflict.dialect = "duplicate key" -> driver = "mysql"

Tuple(stmt, args, i) ==
    [c \in Cols |-> IF c \in ToSet(stmt.cols)
                    THEN Bound(args[(i - 1) * Len(stmt.cols) + CHOOSE j \in DOMAIN stmt.cols : stmt.cols[j] = c])
                    ELSE Null]
Holds(row, stmt, args) ==
    LET first == Len(args) - Len(stmt.where)
    IN  \A j \in DOMAIN stmt.where : args[first + j] # Null /\ row[stmt.where[j]] = Bound(args[first + j])

\* NULL is like no other value, and no keys repeat.
Unique(rows) == \A i, j \in DOMAIN rows : i # j => rows[i][Key] = Null \/ rows[i][Key] # rows[j][Key]
Twin(rows, new) == {i \in DOMAIN rows : new[Key] # Null /\ rows[i][Key] = new[Key]}

\* The table after a statement that writes; Error when the database refuses it.
\* With nothing to set, MySQL's statement has no clause for a conflict.
Written(stmt, args) ==
    LET tuples == [i \in 1 .. stmt.tuples |-> Tuple(stmt, args, i)]
        set(row, new, cols) == [c \in Cols |-> IF c \in ToSet(cols) THEN new[c] ELSE row[c]]
        merges == stmt.conflict.sets # <<>> \/ stmt.conflict.dialect = "on conflict"
        rows ==
          CASE stmt.verb = "insert" /\ merges /\ Twin(table, tuples[1]) # {} ->
                 [i \in DOMAIN table |-> IF i \in Twin(table, tuples[1]) THEN set(table[i], tuples[1], stmt.conflict.sets)
                                         ELSE table[i]]
            [] stmt.verb = "insert" /\ ~(merges /\ Twin(table, tuples[1]) # {}) -> table \o tuples
            [] stmt.verb = "update" ->
                 [i \in DOMAIN table |-> IF Holds(table[i], stmt, args)
                                         THEN set(table[i], Tuple(stmt, args, 1), stmt.cols) ELSE table[i]]
            [] stmt.verb = "delete" -> SelectSeq(table, LAMBDA r : ~Holds(r, stmt, args))
    IN  IF Unique(rows) THEN rows ELSE Error

\* ORDER BY of equal values keeps the order of the rows, NULL comes first.
Weight(v) == IF v = Null THEN 0 ELSE v
Ordered(rows, order) ==
    IF order = <<>> THEN rows
    ELSE LET asc == SortSeq(rows, LAMBDA r, s : Weight(r[order[1]]) < Weight(s[order[1]]))
             desc == SortSeq(rows, LAMBDA r, s : Weight(r[order[1]]) > Weight(s[order[1]]))
         IN  IF order[2] = "asc" THEN asc ELSE desc

Selected(stmt, args) ==
    LET found == Ordered(SelectSeq(table, LAMBDA r : Holds(r, stmt, args)), stmt.opts.order)
        skip  == IF stmt.opts.offset < 0 THEN 0 ELSE stmt.opts.offset
        upto  == IF stmt.opts.limit < 0 \/ skip + stmt.opts.limit > Len(found) THEN Len(found) ELSE skip + stmt.opts.limit
        shown == IF stmt.opts.columns = <<>> THEN Cols ELSE ToSet(stmt.opts.columns)
        page  == SubSeq(found, skip + 1, upto)
    IN  [i \in DOMAIN page |-> [c \in shown |-> page[i][c]]]

-----------------------------------------------------------------------------
(* The helpers *)

Call(t) ==
    /\ helper[t] = Resting
    /\ \E op \in CallsOf(t) :
         /\ op.name \in {"insert", "upsert"} => Len(table) + Len(op.rows) <= MaxRows
         /\ helper' = [helper EXCEPT ![t].op = op]
    /\ UNCHANGED <<driver, table>>

\* No rows: nothing to run.
Build(t) ==
    LET op == helper[t].op
    IN  /\ op # NoOp /\ helper[t].stmt = NoOp /\ helper[t].answer = Idle
        /\ helper' = [helper EXCEPT ![t] =
             IF Refuses(op) \/ Panics(op) THEN [@ EXCEPT !.answer = Error]
             ELSE IF op.name = "insert" /\ op.rows = <<>> THEN [@ EXCEPT !.answer = 0]
             ELSE [@ EXCEPT !.stmt = StatementOf(op), !.args = Arguments(op)]]
        /\ UNCHANGED <<driver, table>>

Built(t) == helper[t].stmt # NoOp /\ helper[t].answer = Idle

\* What the helper makes of the rows or of the result.
Shaped(op, rows) ==
    CASE op.name = "find"     -> rows
      [] op.name = "find_one" -> IF rows = <<>> THEN Null ELSE rows[1]
      [] op.name = "exists"   -> rows # <<>>
      [] op.name = "count"    -> Len(rows)

\* Exec: the affected rows of an update or an upsert depend on the driver.
Exec(t) ==
    LET stmt == helper[t].stmt
        rows == IF Understood(stmt, helper[t].args) THEN Written(stmt, helper[t].args) ELSE Error
        affected == CASE stmt.verb = "delete" -> Len(table) - Len(rows)
                      [] helper[t].op.name = "insert" -> stmt.tuples
                      [] OTHER -> 1
    IN  /\ Built(t) /\ stmt.verb \in {"insert", "update", "delete"}
        /\ table' = IF rows = Error THEN table ELSE rows
        /\ helper' = [helper EXCEPT ![t].answer = IF rows = Error THEN Error ELSE affected]
        /\ UNCHANGED driver

Query(t) ==
    LET stmt == helper[t].stmt
    IN  /\ Built(t) /\ stmt.verb \in {"select", "count"}
        /\ helper' = [helper EXCEPT ![t].answer = IF Understood(stmt, helper[t].args)
                                                  THEN Shaped(helper[t].op, Selected(stmt, helper[t].args)) ELSE Error]
        /\ UNCHANGED <<driver, table>>

Return(t) ==
    /\ helper[t].answer # Idle
    /\ helper' = [helper EXCEPT ![t] = Resting]
    /\ UNCHANGED <<driver, table>>

SqlNext == \E t \in Callers : Call(t) \/ Build(t) \/ Exec(t) \/ Query(t) \/ Return(t)

-----------------------------------------------------------------------------
(* What the helpers promise, of objects and by name *)

RowOf(obj) == [c \in Cols |-> Bound(Field(obj, c))]
Like(row, where) == \A c \in DOMAIN where : c \in Cols /\ where[c] # Null /\ row[c] = Bound(where[c])
Over(row, obj) == [c \in Cols |-> IF c \in DOMAIN obj THEN Bound(obj[c]) ELSE row[c]]

RowsAfter(op, rows) ==
    CASE op.name = "insert" -> rows \o [i \in DOMAIN op.rows |-> RowOf(op.rows[i])]
      [] op.name = "upsert" ->
            LET same == {i \in DOMAIN rows : rows[i][Key] # Null /\ rows[i][Key] = RowOf(op.rows[1])[Key]}
            IN  IF same = {} THEN Append(rows, RowOf(op.rows[1]))
                ELSE [i \in DOMAIN rows |-> IF i \in same THEN Over(rows[i], op.rows[1]) ELSE rows[i]]
      [] op.name = "update" -> [i \in DOMAIN rows |-> IF Like(rows[i], op.where) THEN Over(rows[i], op.rows[1]) ELSE rows[i]]
      [] op.name = "delete" -> SelectSeq(rows, LAMBDA r : ~Like(r, op.where))
      [] OTHER -> rows

NamesOf(op) ==
    UNION {DOMAIN op.rows[i] : i \in DOMAIN op.rows} \cup DOMAIN op.where
       \cup ToSet(op.keys) \cup ToSet(op.opts.columns) \cup (IF op.opts.order = <<>> THEN {} ELSE {op.opts.order[1]})

Asked(op, rows) ==
    LET like == Ordered(SelectSeq(rows, LAMBDA r : Like(r, op.where)), op.opts.order)
        rest == IF op.opts.offset > Len(like) THEN <<>> ELSE SubSeq(like, 1 + LET o == op.opts.offset IN (IF o < 0 THEN 0 ELSE o), Len(like))
        cut  == IF op.opts.limit < 0 \/ op.opts.limit > Len(rest) THEN rest ELSE SubSeq(rest, 1, op.opts.limit)
        only(row) == [c \in (IF op.opts.columns = <<>> THEN Cols ELSE ToSet(op.opts.columns)) |-> row[c]]
    IN  CASE ~(NamesOf(op) \subseteq Cols) -> Error
          [] op.name = "find"     -> [i \in DOMAIN cut |-> only(cut[i])]
          [] op.name = "find_one" -> IF rest = <<>> THEN Null ELSE only(rest[1])
          [] op.name = "count"    -> Cardinality({i \in DOMAIN rows : Like(rows[i], op.where)})
          [] op.name = "exists"   -> \E i \in DOMAIN rows : Like(rows[i], op.where)
          [] op.name = "insert"   -> Len(op.rows)
          [] op.name = "delete"   -> Cardinality({i \in DOMAIN rows : Like(rows[i], op.where)})
          [] OTHER -> 1

Operations == UNION {CallsOf(t) : t \in Callers}
Calls == [t \in Callers |-> [op |-> helper[t].op, answer |-> helper[t].answer]]

Table == INSTANCE AtomicStore WITH
    Effect <- RowsAfter, Answer <- Asked, Empty <- <<>>, map <- table, call <- Calls

\* A call that a helper or the database refuses is one that names what is not there,
\* would repeat a key, or is malformed.  MySQL also refuses an upsert of keys alone
\* whose row exists, and every upsert on the handle of a transaction, in which
\* sql.transaction leaves the driver empty.
Faulty(op) ==
    \/ ~(NamesOf(op) \subseteq Cols)
    \/ op.name = "insert" /\ op.rows # <<>> /\ \E r \in ToSet(op.rows) : ~(DOMAIN r \subseteq DOMAIN op.rows[1])
    \/ op.name \in {"insert", "upsert", "update"} /\ op.rows # <<>> /\ DOMAIN op.rows[1] = {}
    \/ op.name \in {"update", "delete"} /\ DOMAIN op.where = {}
    \/ op.name = "upsert" /\ ToSet(op.keys) # {Key}
    \/ op.opts.offset >= 0 /\ op.opts.limit < 0
Declined(op, rows) ==
    \/ Faulty(op)
    \/ ~Unique(RowsAfter(op, rows))
    \/ /\ op.name = "upsert" /\ driver = "mysql"
       /\ \/ op.handle = "transaction"
          \/ DOMAIN op.rows[1] = {Key} /\ Twin(rows, RowOf(op.rows[1])) # {}
RefusesRightly ==
    \A t \in Callers :
       helper[t].answer = Idle /\ helper'[t].answer = Error => Declined(helper'[t].op, table)

\* Objects become statements and nothing is lost on the way: every helper does to the
\* table, in one step, what its objects say by name, answers accordingly, and refuses
\* only what it should.
HelpersKeepTables == Table!Spec /\ [][RefusesRightly]_sqlVars
=============================================================================
