----------------------------- MODULE Migrations -----------------------------
(***************************************************************************)
(* sql.migrate (sql.go): the table mx_migrations records which texts of a  *)
(* release's list have been run, by position and hash.  Servers of         *)
(* different releases start, crash and start again; a release may call     *)
(* sql.migrate on the handle of sql.transaction.  The database (external)  *)
(* executes statements one at a time; a transaction works on the state it  *)
(* began with, and commits if nobody has written since.                    *)
(***************************************************************************)
EXTENDS Integers, Sequences, FiniteSets, Functions

CONSTANTS Servers,
          Releases,    \* sequences of texts
          Repeatable,  \* texts that may be run again (IF NOT EXISTS)
          Broken,      \* texts the database refuses
          MaxStarts    \* starts of all servers together

Texts == UNION {Range(list) : list \in Releases}
ASSUME MigrationsAssumption == Releases \subseteq Seq(Texts)

VARIABLES db,       \* [done, recorded]: the texts executed, in order, with their
                    \* position, and mx_migrations as a set of [id, hash]
          server,   \* [Servers -> [at, list, k, applied, tx, base, view]]
          starts,
          apart    \* history: outside a transaction a server stopped between a
                    \* text and its record, or two servers migrated at once

migrationVars == <<db, server, starts, apart>>

NewDb == [done |-> <<>>, recorded |-> {}]
Off == [at |-> "off", list |-> <<>>, k |-> 1, applied |-> {}, tx |-> FALSE, base |-> NewDb, view |-> NewDb]

MigrationsInit ==
    /\ db = NewDb
    /\ server = [s \in Servers |-> Off]
    /\ starts = 0 /\ apart = FALSE

\* What runner() works on: the transaction, or the database.
Runner(s) == IF server[s].tx THEN server[s].view ELSE db
ToRunner(s, new, at, k) ==
    /\ db' = IF server[s].tx THEN db ELSE new
    /\ server' = [server EXCEPT ![s].view = IF server[s].tx THEN new ELSE @, ![s].at = at, ![s].k = k]

\* The texts are told apart by their hash.
Text(s) == server[s].list[server[s].k]
HasId(records, k) == \E r \in records : r.id = k

Start(s) ==
    /\ server[s].at = "off" /\ starts < MaxStarts
    /\ \E list \in Releases, tx \in BOOLEAN :
         /\ server' = [server EXCEPT ![s] = [Off EXCEPT !.at = "query", !.list = list, !.tx = tx,
                                                        !.base = db, !.view = db]]
         /\ apart' = (apart \/ \E o \in Servers \ {s} : server[o].at # "off" /\ ~(tx /\ server[o].tx))
    /\ starts' = starts + 1
    /\ UNCHANGED db

\* CREATE TABLE IF NOT EXISTS, and the rows of the table.
Query(s) ==
    /\ server[s].at = "query"
    /\ server' = [server EXCEPT ![s].applied = Runner(s).recorded, ![s].at = "next"]
    /\ UNCHANGED <<db, starts, apart>>

AtText(s) == server[s].at = "next" /\ server[s].k <= Len(server[s].list)
Skip(s) ==
    /\ AtText(s) /\ [id |-> server[s].k, hash |-> Text(s)] \in server[s].applied
    /\ server' = [server EXCEPT ![s].k = @ + 1]
    /\ UNCHANGED <<db, starts, apart>>

CanRun(s) == Text(s) \notin Broken /\
             (Text(s) \in Repeatable \/ \A i \in DOMAIN Runner(s).done : Runner(s).done[i].text # Text(s))
\* Mutant: the record comes before the text.
ExecRecordedFirst(s) ==
    /\ AtText(s) /\ ~HasId(server[s].applied, server[s].k) /\ CanRun(s)
    /\ ToRunner(s, [Runner(s) EXCEPT !.recorded = @ \cup {[id |-> server[s].k, hash |-> Text(s)]}],
                "record", server[s].k)
    /\ UNCHANGED <<starts, apart>>

Exec(s) ==
    /\ AtText(s) /\ ~HasId(server[s].applied, server[s].k) /\ CanRun(s)
    /\ ToRunner(s, [Runner(s) EXCEPT !.done = Append(@, [at |-> server[s].k, text |-> Text(s)])],
                "record", server[s].k)
    /\ UNCHANGED <<starts, apart>>

\* id is the primary key.
Record(s) ==
    /\ server[s].at = "record" /\ ~HasId(Runner(s).recorded, server[s].k)
    /\ ToRunner(s, [Runner(s) EXCEPT !.recorded = @ \cup {[id |-> server[s].k, hash |-> Text(s)]}],
                "next", server[s].k + 1)
    /\ UNCHANGED <<starts, apart>>

\* Commit; without a transaction there is nothing left to do.
Complete(s) ==
    /\ server[s].at = "next" /\ server[s].k > Len(server[s].list)
    /\ db' = IF server[s].tx /\ server[s].base = db THEN server[s].view ELSE db
    /\ server' = [server EXCEPT ![s] = Off]
    /\ UNCHANGED <<starts, apart>>

\* The first error returns: an edited text, a text the database refuses, a record
\* that is there, a statement that fails for a reason of its own; a transaction is
\* rolled back.  A crash has the same effect.
Stop(s) ==
    /\ server[s].at # "off"
    /\ apart' = (apart \/ (server[s].at = "record" /\ ~server[s].tx))
    /\ server' = [server EXCEPT ![s] = Off]
    /\ UNCHANGED <<db, starts>>

MigrationsNext ==
    \E s \in Servers : Start(s) \/ Query(s) \/ Skip(s) \/ Exec(s) \/ Record(s) \/ Complete(s) \/ Stop(s)

MigrationsSpec == MigrationsInit /\ [][MigrationsNext]_migrationVars

\* sql.migrate promises to bring a database forward: what is recorded has been
\* executed under that position, a text runs only when all before it are recorded,
\* whatever the releases, crashes and edits, and none is run twice for one position
\* unless a server stopped between a text and its record, or two migrated at once
\* (sql.go:293: the two are separate statements).  In sql.transaction neither
\* exception is one.
Migrated ==
    /\ \A r \in db.recorded : [at |-> r.id, text |-> r.hash] \in Range(db.done)
    /\ \A d \in Range(db.done) : \A j \in 1 .. d.at - 1 : HasId(db.recorded, j)
    /\ ~apart => IsInjective(db.done)
=============================================================================
