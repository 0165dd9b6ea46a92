-------------------------- MODULE MigrationsProofs --------------------------
(***************************************************************************)
(* Proofs about Migrations, for any servers, releases and number of        *)
(* starts, whatever the releases contain.                                  *)
(***************************************************************************)
EXTENDS Migrations, TLAPS

Entries == [at : Nat, text : Texts]
Records == [id : Nat, hash : Texts]
Dbs == [done : Seq(Entries), recorded : SUBSET Records]

ServerStates ==
    [ at : {"off", "query", "next", "record"}, list : Releases \cup {<<>>}, k : Nat \ {0},
      applied : SUBSET Records, tx : BOOLEAN, base : Dbs, view : Dbs ]

MigrationsTypeOK == db \in Dbs /\ apart \in BOOLEAN /\ server \in [Servers -> ServerStates]

\* What is recorded has been executed, and a text only when all before it are recorded.
WellRun(d) ==
    /\ \A r \in d.recorded : [at |-> r.id, text |-> r.hash] \in Range(d.done)
    /\ \A e \in Range(d.done) : \A j \in 1 .. e.at - 1 : HasId(d.recorded, j)

Extends(d, base) == Range(base.done) \subseteq Range(d.done) /\ base.recorded \subseteq d.recorded
Unrecorded(d) == {e \in Range(d.done) : ~HasId(d.recorded, e.at)}

\* How far a server in state x has come with the migration of d.
Reached(x, d) ==
    /\ x.at = "query" => x.k = 1
    /\ x.at # "query" => x.applied \subseteq d.recorded /\ \A j \in 1 .. x.k - 1 : HasId(d.recorded, j)
    /\ x.at = "record" => [at |-> x.k, text |-> x.list[x.k]] \in Range(d.done) /\ x.k <= Len(x.list)

On(s) == server[s].at # "off"
Underway ==
    \A s \in Servers : On(s) =>
        /\ Reached(server[s], Runner(s))
        /\ server[s].tx => WellRun(server[s].view) /\ Extends(server[s].view, server[s].base)

\* Nothing is executed and not recorded but what the server is about to record, and what
\* it did not see recorded when it asked it has recorded itself.
InStep(x, d) ==
    /\ IsInjective(d.done)
    /\ \A e \in Unrecorded(d) : x.at = "record" /\ e.at = x.k
    /\ x.at # "query" => \A r \in d.recorded : r \in x.applied \/ r.id < x.k

\* Without a stop between a text and its record, or two servers at once.
Orderly ==
    ~apart =>
        /\ \A s, o \in Servers : s # o /\ On(s) /\ On(o) => server[s].tx /\ server[o].tx
        /\ IsInjective(db.done)
        /\ (\A s \in Servers : On(s) => server[s].tx) => Unrecorded(db) = {}
        /\ \A s \in Servers : On(s) => InStep(server[s], Runner(s))

IInv == MigrationsTypeOK /\ WellRun(db) /\ Underway /\ Orderly

-----------------------------------------------------------------------------
(* Databases *)

\* A text is executed.
LEMMA Executed ==
  ASSUME NEW d \in Dbs, NEW e \in Entries, NEW new, new = [d EXCEPT !.done = Append(@, e)]
  PROVE  /\ new \in Dbs /\ new.recorded = d.recorded
         /\ Range(new.done) = Range(d.done) \cup {e}
<1>1. d.done \in Seq(Entries)
  BY DEF Dbs
<1>2. new.done = Append(d.done, e) /\ new.recorded = d.recorded /\ new \in Dbs
  <2>1. Append(d.done, e) \in Seq(Entries)
    BY <1>1
  <2>2. d.recorded \in SUBSET Records
    BY DEF Dbs
  <2>3. new = [done |-> Append(d.done, e), recorded |-> d.recorded]
    BY DEF Dbs
  <2> QED
    BY <2>1, <2>2, <2>3 DEF Dbs
<1> DEFINE n == Len(d.done)
<1>3. /\ n \in Nat /\ DOMAIN d.done = 1 .. n /\ DOMAIN new.done = 1 .. n + 1
      /\ new.done[n + 1] = e /\ \A i \in 1 .. n : new.done[i] = d.done[i]
  BY <1>1, <1>2
<1>4. Range(new.done) = Range(d.done) \cup {e}
  BY <1>3 DEF Range
<1> QED
  BY <1>2, <1>4

LEMMA AppendInjective ==
  ASSUME NEW q \in Seq(Entries), NEW e \in Entries, IsInjective(q), e \notin Range(q)
  PROVE  IsInjective(Append(q, e))
BY DEF IsInjective, Range

\* A record is written.
LEMMA Noted ==
  ASSUME NEW d \in Dbs, NEW r \in Records, NEW new, new = [d EXCEPT !.recorded = @ \cup {r}]
  PROVE  /\ new \in Dbs /\ new.done = d.done /\ new.recorded = d.recorded \cup {r}
         /\ \A j : HasId(new.recorded, j) <=> HasId(d.recorded, j) \/ j = r.id
BY DEF Dbs, HasId

LEMMA ExecutedWellRun ==
  ASSUME NEW d \in Dbs, NEW e \in Entries, NEW new, new = [d EXCEPT !.done = Append(@, e)],
         WellRun(d), \A j \in 1 .. e.at - 1 : HasId(d.recorded, j)
  PROVE  WellRun(new) /\ Extends(new, d)
<1>1. new.recorded = d.recorded /\ Range(new.done) = Range(d.done) \cup {e}
  BY Executed
<1>2. \A r \in d.recorded : [at |-> r.id, text |-> r.hash] \in Range(d.done)
  BY DEF WellRun
<1>3. \A x \in Range(d.done) : \A j \in 1 .. x.at - 1 : HasId(d.recorded, j)
  BY DEF WellRun
<1>4. \A r \in new.recorded : [at |-> r.id, text |-> r.hash] \in Range(new.done)
  BY <1>1, <1>2
<1>5. \A x \in Range(new.done) : \A j \in 1 .. x.at - 1 : HasId(new.recorded, j)
  BY <1>1, <1>3
<1> QED
  BY <1>1, <1>4, <1>5 DEF WellRun, Extends

LEMMA NotedWellRun ==
  ASSUME NEW d \in Dbs, NEW r \in Records, NEW new, new = [d EXCEPT !.recorded = @ \cup {r}],
         WellRun(d), [at |-> r.id, text |-> r.hash] \in Range(d.done)
  PROVE  WellRun(new) /\ Extends(new, d)
<1>1. new.done = d.done /\ new.recorded = d.recorded \cup {r} /\ \A j : HasId(d.recorded, j) => HasId(new.recorded, j)
  <2>1. new.done = d.done /\ new.recorded = d.recorded \cup {r}
    BY Noted
  <2> QED
    BY <2>1 DEF HasId
<1>2. \A x \in d.recorded : [at |-> x.id, text |-> x.hash] \in Range(d.done)
  BY DEF WellRun
<1>3. \A x \in Range(d.done) : \A j \in 1 .. x.at - 1 : HasId(d.recorded, j)
  BY DEF WellRun
<1>4. \A x \in new.recorded : [at |-> x.id, text |-> x.hash] \in Range(new.done)
  BY <1>1, <1>2
<1>5. \A x \in Range(new.done) : \A j \in 1 .. x.at - 1 : HasId(new.recorded, j)
  BY <1>1, <1>3
<1> QED
  BY <1>1, <1>4, <1>5 DEF WellRun, Extends

LEMMA ExtendsTrans ==
  ASSUME NEW a, NEW b, NEW c, Extends(a, b), Extends(b, c) PROVE Extends(a, c)
BY DEF Extends

LEMMA ExtendsHasId ==
  ASSUME NEW a, NEW b, Extends(a, b), NEW j, HasId(b.recorded, j) PROVE HasId(a.recorded, j)
BY DEF Extends, HasId

-----------------------------------------------------------------------------
(* The invariant *)

LEMMA InitIInv == MigrationsInit => IInv
<1> SUFFICES ASSUME MigrationsInit PROVE IInv
  OBVIOUS
<1>1. NewDb \in Dbs /\ Range(NewDb.done) = {} /\ NewDb.recorded = {}
  BY DEF NewDb, Dbs, Range
<1>2. MigrationsTypeOK
  <2>1. Off \in ServerStates
    BY <1>1 DEF Off, ServerStates
  <2> QED
    BY <1>1, <2>1 DEF MigrationsInit, MigrationsTypeOK
<1>3. WellRun(db)
  BY <1>1 DEF MigrationsInit, WellRun
<1>4. \A s \in Servers : ~On(s)
  BY DEF MigrationsInit, On, Off
<1>5. IsInjective(db.done)
  BY DEF MigrationsInit, NewDb, IsInjective
<1>6. Unrecorded(db) = {}
  BY <1>1 DEF MigrationsInit, Unrecorded
<1>7. Underway
  BY <1>4 DEF Underway
<1>8. Orderly
  BY <1>4, <1>5, <1>6 DEF Orderly
<1> QED
  BY <1>2, <1>3, <1>7, <1>8 DEF IInv


LEMMA ReachedGrows ==
  ASSUME NEW x, NEW d, NEW new, Reached(x, d), Extends(new, d) PROVE Reached(x, new)
<1>1. \A j : HasId(d.recorded, j) => HasId(new.recorded, j)
  BY ExtendsHasId
<1> QED
  BY <1>1 DEF Reached, Extends

\* What a server's step leaves of the others.
LEMMA Others ==
  ASSUME IInv, NEW s \in Servers, NEW x, server' = [server EXCEPT ![s] = x], Extends(db', db),
         NEW o \in Servers, o # s, On(o)
  PROVE  /\ server'[o] = server[o] /\ On(o)'
         /\ Reached(server[o], Runner(o)')
         /\ server[o].tx => WellRun(server[o].view) /\ Extends(server[o].view, server[o].base)
         /\ (~apart /\ On(s)) => server[o].tx /\ Runner(o)' = Runner(o) /\ InStep(server[o], Runner(o))
<1>1. server'[o] = server[o] /\ On(o)'
  BY DEF IInv, MigrationsTypeOK, On
<1>2. Runner(o)' = IF server[o].tx THEN server[o].view ELSE db'
  BY <1>1 DEF Runner
<1>3. Extends(Runner(o)', Runner(o))
  BY <1>2 DEF Runner, Extends
<1>4. Reached(server[o], Runner(o)')
  BY <1>3, ReachedGrows DEF IInv, Underway
<1>5. ASSUME ~apart, On(s) PROVE server[o].tx /\ Runner(o)' = Runner(o) /\ InStep(server[o], Runner(o))
  BY <1>2, <1>5 DEF IInv, Orderly, Runner
<1> QED
  BY <1>1, <1>4, <1>5 DEF IInv, Underway

\* A server goes on: it is in state x, and has made d of what it works on.
LEMMA GoesOn ==
  ASSUME IInv, NEW s \in Servers, On(s), NEW d \in Dbs, NEW x \in ServerStates,
         server' = [server EXCEPT ![s] = x], apart' = apart,
         x.at # "off", x.tx = server[s].tx, x.base = server[s].base,
         x.view = (IF x.tx THEN d ELSE server[s].view), db' = (IF x.tx THEN db ELSE d),
         WellRun(d), Extends(d, Runner(s)), Reached(x, d),
         ~apart => InStep(x, d)
  PROVE  IInv'
<1>1. server \in [Servers -> ServerStates] /\ server'[s] = x /\ db \in Dbs /\ x.tx \in BOOLEAN
  BY DEF IInv, MigrationsTypeOK, ServerStates
<1>2. MigrationsTypeOK' /\ WellRun(db')
  BY <1>1 DEF IInv, MigrationsTypeOK
<1>3. Runner(s)' = d /\ Runner(s) = IF x.tx THEN server[s].view ELSE db
  BY <1>1 DEF Runner
<1>4. Extends(db', db)
  BY <1>3 DEF Extends
<1>5. x.tx => Extends(x.view, x.base)
  BY <1>3, ExtendsTrans DEF IInv, Underway
<1>6. Underway'
  <2> SUFFICES ASSUME NEW o \in Servers, On(o)'
               PROVE  /\ Reached(server'[o], Runner(o)')
                      /\ server'[o].tx => WellRun(server'[o].view) /\ Extends(server'[o].view, server'[o].base)
    BY DEF Underway
  <2>1. CASE o = s
    BY <1>1, <1>3, <1>5, <2>1
  <2>2. CASE o # s
    <3>1. On(o)
      BY <1>1, <2>2 DEF On
    <3> QED
      BY <1>4, <2>2, <3>1, Others
  <2> QED
    BY <2>1, <2>2
<1>7. ASSUME ~apart' PROVE Orderly'
  <2>1. \A o \in Servers : o # s => server'[o] = server[o]
    BY <1>1
  <2>2. \A o, q \in Servers : o # q /\ On(o)' /\ On(q)' => server'[o].tx /\ server'[q].tx
    BY <1>1, <1>7, <2>1 DEF IInv, Orderly, On
  <2>3. IsInjective(db'.done)
    BY <1>7 DEF IInv, Orderly, InStep
  <2>4. (\A o \in Servers : On(o)' => server'[o].tx) => Unrecorded(db') = {}
    <3> SUFFICES ASSUME \A o \in Servers : On(o)' => server'[o].tx PROVE Unrecorded(db') = {}
      OBVIOUS
    <3>1. x.tx
      BY <1>1 DEF On
    <3>2. \A o \in Servers : On(o) => server[o].tx
      BY <1>1, <2>1, <3>1 DEF On
    <3> QED
      BY <1>7, <3>1, <3>2 DEF IInv, Orderly
  <2>5. ASSUME NEW o \in Servers, On(o)' PROVE InStep(server'[o], Runner(o)')
    <3>1. CASE o = s
      BY <1>1, <1>3, <1>7, <3>1
    <3>2. CASE o # s
      <4>1. On(o)
        BY <2>1, <2>5, <3>2 DEF On
      <4> QED
        BY <1>4, <1>7, <3>2, <4>1, Others
    <3> QED
      BY <3>1, <3>2
  <2> QED
    BY <2>2, <2>3, <2>4, <2>5 DEF Orderly
<1> QED
  BY <1>2, <1>6, <1>7 DEF IInv, Orderly


\* A server is done, and has left d in the database.
LEMMA Leaves ==
  ASSUME IInv, NEW s \in Servers, On(s), server' = [server EXCEPT ![s] = Off],
         db' \in Dbs, WellRun(db'), Extends(db', db), apart' \in BOOLEAN,
         ~apart' => /\ ~apart /\ IsInjective(db'.done)
                    /\ (\A o \in Servers \ {s} : On(o) => server[o].tx) => Unrecorded(db') = {}
  PROVE  IInv'
<1>1. server \in [Servers -> ServerStates] /\ Off \in ServerStates /\ server'[s] = Off /\ ~On(s)'
  <2>1. NewDb \in Dbs
    BY DEF NewDb, Dbs
  <2> QED
    BY <2>1 DEF IInv, MigrationsTypeOK, Off, ServerStates, On
<1>2. MigrationsTypeOK' /\ WellRun(db')
  BY <1>1 DEF MigrationsTypeOK
<1>3. \A o \in Servers : On(o)' => o # s /\ On(o)
  BY <1>1 DEF On
<1>4. Underway'
  BY <1>3, Others DEF Underway
<1>5. Orderly'
  <2> SUFFICES ASSUME ~apart' PROVE Orderly'
    BY DEF Orderly
  <2>1. \A o, q \in Servers : o # q /\ On(o)' /\ On(q)' => server'[o].tx /\ server'[q].tx
    BY <1>3, Others DEF IInv, Orderly
  <2>2. (\A o \in Servers : On(o)' => server'[o].tx) => Unrecorded(db') = {}
    BY Others
  <2>3. \A o \in Servers : On(o)' => InStep(server'[o], Runner(o)')
    BY <1>3, Others
  <2> QED
    BY <2>1, <2>2, <2>3 DEF Orderly
<1> QED
  BY <1>2, <1>4, <1>5 DEF IInv

LEMMA StepStart == ASSUME IInv, NEW s \in Servers, Start(s) PROVE IInv'
<1>1. PICK list \in Releases, tx \in BOOLEAN :
         /\ server' = [server EXCEPT ![s] = [Off EXCEPT !.at = "query", !.list = list, !.tx = tx, !.base = db, !.view = db]]
         /\ apart' = (apart \/ \E o \in Servers \ {s} : server[o].at # "off" /\ ~(tx /\ server[o].tx))
  BY DEF Start
<1> DEFINE x == [Off EXCEPT !.at = "query", !.list = list, !.tx = tx, !.base = db, !.view = db]
<1>2. /\ x \in ServerStates /\ x.at = "query" /\ x.k = 1 /\ x.tx = tx /\ x.base = db /\ x.view = db
  <2>1. db \in Dbs
    BY DEF IInv, MigrationsTypeOK
  <2>2. Off \in ServerStates /\ Off.k = 1
    <3>1. NewDb \in Dbs
      BY DEF NewDb, Dbs
    <3> QED
      BY <3>1 DEF Off, ServerStates
  <2>3. list \in Releases \cup {<<>>}
    OBVIOUS
  <2> QED
    BY <2>1, <2>2, <2>3 DEF ServerStates
<1> HIDE DEF x
<1>3. server' = [server EXCEPT ![s] = x] /\ db' = db /\ server[s].at = "off"
  BY <1>1 DEF Start, x
<1>4. server \in [Servers -> ServerStates] /\ server'[s] = x /\ apart' \in BOOLEAN /\ db \in Dbs
  BY <1>1, <1>3 DEF IInv, MigrationsTypeOK
<1>5. MigrationsTypeOK' /\ WellRun(db') /\ Extends(db', db)
  BY <1>2, <1>3, <1>4 DEF IInv, MigrationsTypeOK, Extends
<1>6. \A o \in Servers : o # s /\ On(o)' => On(o)
  BY <1>3, <1>4 DEF On
<1>7. Runner(s)' = db
  BY <1>2, <1>3, <1>4 DEF Runner
<1>8. Reached(x, db)
  BY <1>2 DEF Reached
<1>9. Underway'
  <2>1. x.tx => WellRun(x.view) /\ Extends(x.view, x.base)
    BY <1>2 DEF IInv, Extends
  <2> QED
    BY <1>3, <1>4, <1>5, <1>6, <1>7, <1>8, <2>1, Others DEF Underway
<1>10. ASSUME ~apart' PROVE Orderly'
  <2>1. ~apart /\ \A o \in Servers \ {s} : On(o) => tx /\ server[o].tx
    BY <1>1, <1>10 DEF On
  <2>2. \A o \in Servers : o # s /\ On(o)' => server'[o] = server[o] /\ On(o) /\ Runner(o)' = Runner(o)
    BY <1>3, <1>4, <1>6 DEF Runner
  <2>3. \A o, q \in Servers : o # q /\ On(o)' /\ On(q)' => server'[o].tx /\ server'[q].tx
    BY <1>2, <1>4, <2>1, <2>2
  <2>4. Unrecorded(db) = {}
    BY <1>3, <2>1 DEF IInv, Orderly, On
  <2>5. InStep(x, db)
    BY <1>2, <2>1, <2>4 DEF IInv, Orderly, InStep
  <2>6. \A o \in Servers : On(o)' => InStep(server'[o], Runner(o)')
    <3>1. ASSUME NEW o \in Servers, On(o)', o # s PROVE InStep(server'[o], Runner(o)')
      BY <2>1, <2>2, <3>1 DEF IInv, Orderly
    <3> QED
      BY <1>4, <1>7, <2>5, <3>1
  <2> QED
    BY <1>3, <2>1, <2>3, <2>4, <2>6 DEF IInv, Orderly
<1> QED
  BY <1>5, <1>9, <1>10 DEF IInv, Orderly

\* What a server that is under way works on.
LEMMA Here ==
  ASSUME IInv, NEW s \in Servers, On(s)
  PROVE  /\ server[s] \in ServerStates /\ Runner(s) \in Dbs /\ WellRun(Runner(s))
         /\ Reached(server[s], Runner(s)) /\ (~apart => InStep(server[s], Runner(s)))
         /\ server[s].k \in Nat \ {0}
<1>1. server[s] \in ServerStates /\ server[s].tx \in BOOLEAN /\ server[s].view \in Dbs /\ server[s].k \in Nat \ {0}
  BY DEF IInv, MigrationsTypeOK, ServerStates
<1> QED
  BY <1>1 DEF IInv, MigrationsTypeOK, Runner, Underway, Orderly

LEMMA ExtendsSelf == ASSUME NEW d PROVE Extends(d, d)
BY DEF Extends

LEMMA StepQuery == ASSUME IInv, NEW s \in Servers, Query(s) PROVE IInv'
<1>1. server[s].at = "query" /\ On(s)
  BY DEF Query, On
<1> DEFINE x == [server[s] EXCEPT !.applied = Runner(s).recorded, !.at = "next"]
<1>2. server' = [server EXCEPT ![s] = x] /\ UNCHANGED <<db, apart>>
  BY DEF Query
<1>3. /\ x \in ServerStates /\ x.at = "next" /\ x.applied = Runner(s).recorded /\ x.k = server[s].k
      /\ x.tx = server[s].tx /\ x.base = server[s].base /\ x.view = server[s].view
  BY <1>1, Here DEF ServerStates, Dbs
<1> HIDE DEF x
<1>4. x.view = (IF x.tx THEN Runner(s) ELSE server[s].view) /\ db' = (IF x.tx THEN db ELSE Runner(s))
  BY <1>2, <1>3 DEF Runner
<1>5. server[s].k = 1
  BY <1>1, Here DEF Reached
<1>6. Reached(x, Runner(s))
  BY <1>3, <1>5 DEF Reached
<1>7. ~apart => InStep(x, Runner(s))
  BY <1>1, <1>3, Here DEF InStep
<1> QED
  BY <1>1, <1>2, <1>3, <1>4, <1>6, <1>7, Here, ExtendsSelf, GoesOn

LEMMA StepSkip == ASSUME IInv, NEW s \in Servers, Skip(s) PROVE IInv'
<1>1. /\ server[s].at = "next" /\ On(s) /\ server[s].k <= Len(server[s].list)
      /\ [id |-> server[s].k, hash |-> Text(s)] \in server[s].applied
  BY DEF Skip, AtText, On
<1> DEFINE x == [server[s] EXCEPT !.k = @ + 1]
<1>2. server' = [server EXCEPT ![s] = x] /\ UNCHANGED <<db, apart>>
  BY DEF Skip
<1>3. /\ x \in ServerStates /\ x.at = "next" /\ x.applied = server[s].applied /\ x.k = server[s].k + 1
      /\ x.tx = server[s].tx /\ x.base = server[s].base /\ x.view = server[s].view
  BY <1>1, Here DEF ServerStates
<1> HIDE DEF x
<1>4. x.view = (IF x.tx THEN Runner(s) ELSE server[s].view) /\ db' = (IF x.tx THEN db ELSE Runner(s))
  BY <1>2, <1>3 DEF Runner
<1>5. HasId(Runner(s).recorded, server[s].k)
  <2>1. server[s].applied \subseteq Runner(s).recorded
    BY <1>1, Here DEF Reached
  <2> QED
    BY <1>1, <2>1 DEF HasId
<1>6. Reached(x, Runner(s))
  <2>1. \A j \in 1 .. server[s].k - 1 : HasId(Runner(s).recorded, j)
    BY <1>1, Here DEF Reached
  <2>2. server[s].k \in Nat
    BY <1>1, Here
  <2>3. \A j \in 1 .. x.k - 1 : HasId(Runner(s).recorded, j)
    BY <1>3, <1>5, <2>1, <2>2
  <2> QED
    BY <1>1, <1>3, <2>3, Here DEF Reached
<1>7. ~apart => InStep(x, Runner(s))
  <2> SUFFICES ASSUME ~apart PROVE InStep(x, Runner(s))
    OBVIOUS
  <2>1. InStep(server[s], Runner(s)) /\ Runner(s).recorded \in SUBSET Records /\ server[s].k \in Nat
    BY <1>1, Here DEF Dbs
  <2>2. \A r \in Runner(s).recorded : r.id \in Nat /\ (r \in server[s].applied \/ r.id < server[s].k)
    BY <1>1, <2>1 DEF InStep, Records
  <2>3. \A r \in Runner(s).recorded : r \in x.applied \/ r.id < x.k
    BY <1>3, <2>1, <2>2
  <2> QED
    BY <1>1, <1>3, <2>1, <2>3 DEF InStep
<1> QED
  BY <1>1, <1>2, <1>3, <1>4, <1>6, <1>7, Here, ExtendsSelf, GoesOn


\* A change of what the server works on.
LEMMA Changed ==
  ASSUME NEW s \in Servers, server[s] \in ServerStates, NEW new, NEW at, NEW k, ToRunner(s, new, at, k),
         at \in {"next", "record"}, k \in Nat \ {0}, new \in Dbs
  PROVE  \E x \in ServerStates :
            /\ server' = [server EXCEPT ![s] = x]
            /\ x.at = at /\ x.k = k /\ x.applied = server[s].applied /\ x.list = server[s].list
            /\ x.tx = server[s].tx /\ x.base = server[s].base
            /\ x.view = (IF x.tx THEN new ELSE server[s].view) /\ db' = (IF x.tx THEN db ELSE new)
<1> DEFINE x == [server[s] EXCEPT !.view = IF server[s].tx THEN new ELSE @, !.at = at, !.k = k]
<1>1. x \in ServerStates
  BY DEF ServerStates
<1>2. server' = [server EXCEPT ![s] = x] /\ db' = (IF server[s].tx THEN db ELSE new)
  BY DEF ToRunner
<1>3. /\ x.at = at /\ x.k = k /\ x.applied = server[s].applied /\ x.list = server[s].list
      /\ x.tx = server[s].tx /\ x.base = server[s].base
      /\ x.view = (IF x.tx THEN new ELSE server[s].view)
  BY DEF ServerStates
<1> QED
  BY <1>1, <1>2, <1>3

\* The text that is up, with its position.
LEMMA UpText ==
  ASSUME IInv, NEW s \in Servers, On(s), server[s].k <= Len(server[s].list)
  PROVE  /\ Text(s) \in Texts
         /\ [at |-> server[s].k, text |-> Text(s)] \in Entries
         /\ [id |-> server[s].k, hash |-> Text(s)] \in Records
<1>1. server[s].k \in Nat \ {0} /\ server[s].list \in Releases \cup {<<>>}
  BY Here DEF ServerStates
<1>2. server[s].list \in Releases /\ server[s].list \in Seq(Texts)
  BY <1>1, MigrationsAssumption
<1>3. Text(s) \in Texts
  BY <1>1, <1>2 DEF Text
<1> QED
  BY <1>1, <1>3 DEF Entries, Records

LEMMA StepExec == ASSUME IInv, NEW s \in Servers, Exec(s) PROVE IInv'
<1> DEFINE entry == [at |-> server[s].k, text |-> Text(s)]
           new == [Runner(s) EXCEPT !.done = Append(@, entry)]
<1>1. /\ server[s].at = "next" /\ On(s) /\ server[s].k <= Len(server[s].list)
      /\ ~HasId(server[s].applied, server[s].k) /\ ToRunner(s, new, "record", server[s].k) /\ apart' = apart
  BY DEF Exec, AtText, On
<1>2. entry \in Entries /\ entry.at = server[s].k /\ Runner(s) \in Dbs /\ server[s].k \in Nat \ {0}
  BY <1>1, UpText, Here
<1>3. new \in Dbs /\ new.recorded = Runner(s).recorded /\ Range(new.done) = Range(Runner(s).done) \cup {entry}
  BY <1>2, Executed
<1>4. Reached(server[s], Runner(s)) /\ WellRun(Runner(s)) /\ server[s] \in ServerStates
  BY <1>1, Here
<1>5. \A j \in 1 .. server[s].k - 1 : HasId(Runner(s).recorded, j)
  BY <1>1, <1>4 DEF Reached
<1>6. WellRun(new) /\ Extends(new, Runner(s))
  <2> HIDE DEF entry
  <2> QED
    BY <1>2, <1>4, <1>5, ExecutedWellRun
<1>7. PICK x \in ServerStates :
            /\ server' = [server EXCEPT ![s] = x]
            /\ x.at = "record" /\ x.k = server[s].k /\ x.applied = server[s].applied /\ x.list = server[s].list
            /\ x.tx = server[s].tx /\ x.base = server[s].base
            /\ x.view = (IF x.tx THEN new ELSE server[s].view) /\ db' = (IF x.tx THEN db ELSE new)
  <2> HIDE DEF new
  <2> QED
    BY <1>1, <1>2, <1>3, <1>4, Changed
<1>8. Reached(x, new)
  BY <1>1, <1>3, <1>4, <1>5, <1>7 DEF Reached, Text
<1>9. ASSUME ~apart PROVE InStep(x, new)
  <2>1. InStep(server[s], Runner(s))
    BY <1>1, <1>9, Here
  \* A text that is executed already would have been seen in the table.
  <2>2. entry \notin Range(Runner(s).done)
    <3> SUFFICES ASSUME entry \in Range(Runner(s).done) PROVE FALSE
      OBVIOUS
    <3>1. HasId(Runner(s).recorded, server[s].k)
      BY <1>1, <1>2, <2>1 DEF InStep, Unrecorded
    <3>2. PICK r \in Runner(s).recorded : r.id = server[s].k
      BY <3>1 DEF HasId
    <3>3. r \in server[s].applied
      BY <1>1, <1>2, <2>1, <3>2 DEF InStep
    <3> QED
      BY <1>1, <3>2, <3>3 DEF HasId
  <2>3. IsInjective(new.done)
    <3>1. IsInjective(Runner(s).done)
      BY <2>1 DEF InStep
    <3>2. new.done = Append(Runner(s).done, entry) /\ Runner(s).done \in Seq(Entries)
      BY <1>2 DEF Dbs
    <3> HIDE DEF entry, new
    <3> QED
      BY <1>2, <2>2, <3>1, <3>2, AppendInjective
  <2>4. \A e \in Unrecorded(new) : e.at = server[s].k
    <3>1. Unrecorded(Runner(s)) = {}
      BY <1>1, <2>1 DEF InStep
    <3> QED
      BY <1>2, <1>3, <3>1 DEF Unrecorded
  <2> HIDE DEF new, entry
  <2> QED
    BY <1>1, <1>3, <1>7, <2>1, <2>3, <2>4 DEF InStep
<1> HIDE DEF new, entry
<1> QED
  BY <1>1, <1>3, <1>6, <1>7, <1>8, <1>9, GoesOn

LEMMA StepRecord == ASSUME IInv, NEW s \in Servers, Record(s) PROVE IInv'
<1> DEFINE row == [id |-> server[s].k, hash |-> Text(s)]
           new == [Runner(s) EXCEPT !.recorded = @ \cup {row}]
<1>1. /\ server[s].at = "record" /\ On(s) /\ ToRunner(s, new, "next", server[s].k + 1) /\ apart' = apart
  BY DEF Record, On
<1>2. Reached(server[s], Runner(s)) /\ WellRun(Runner(s)) /\ server[s] \in ServerStates /\ Runner(s) \in Dbs
      /\ server[s].k \in Nat \ {0} /\ server[s].k + 1 \in Nat \ {0}
  BY <1>1, Here
<1>3. /\ server[s].k <= Len(server[s].list) /\ [at |-> server[s].k, text |-> Text(s)] \in Range(Runner(s).done)
      /\ server[s].applied \subseteq Runner(s).recorded
      /\ \A j \in 1 .. server[s].k - 1 : HasId(Runner(s).recorded, j)
  BY <1>1, <1>2 DEF Reached, Text
<1>4. row \in Records /\ row.id = server[s].k /\ row.hash = Text(s)
  BY <1>1, <1>3, UpText
<1>5. new \in Dbs /\ new.done = Runner(s).done /\ new.recorded = Runner(s).recorded \cup {row}
  BY <1>2, <1>4, Noted
<1>6. WellRun(new) /\ Extends(new, Runner(s))
  <2> HIDE DEF row
  <2> QED
    BY <1>2, <1>3, <1>4, NotedWellRun
<1>7. PICK x \in ServerStates :
            /\ server' = [server EXCEPT ![s] = x]
            /\ x.at = "next" /\ x.k = server[s].k + 1 /\ x.applied = server[s].applied /\ x.list = server[s].list
            /\ x.tx = server[s].tx /\ x.base = server[s].base
            /\ x.view = (IF x.tx THEN new ELSE server[s].view) /\ db' = (IF x.tx THEN db ELSE new)
  <2> HIDE DEF new
  <2> QED
    BY <1>1, <1>2, <1>5, Changed
<1>8. \A j : HasId(new.recorded, j) <=> HasId(Runner(s).recorded, j) \/ j = server[s].k
  BY <1>4, <1>5 DEF HasId
<1>9. Reached(x, new)
  <2> HIDE DEF new, row
  <2>1. ASSUME NEW j \in 1 .. x.k - 1 PROVE HasId(new.recorded, j)
    <3>1. j = server[s].k \/ j \in 1 .. server[s].k - 1
      BY <1>2, <1>7
    <3> QED
      BY <1>3, <1>8, <3>1
  <2> QED
    BY <1>3, <1>5, <1>7, <2>1 DEF Reached
<1>10. ASSUME ~apart PROVE InStep(x, new)
  <2>1. InStep(server[s], Runner(s))
    BY <1>1, <1>10, Here
  <2>2. Unrecorded(new) = {}
    BY <1>5, <1>8, <2>1 DEF InStep, Unrecorded
  <2>3. \A r \in Runner(s).recorded : r.id \in Nat /\ (r \in server[s].applied \/ r.id < server[s].k)
    BY <1>1, <1>2, <2>1 DEF InStep, Dbs, Records
  <2>4. \A r \in new.recorded : r \in x.applied \/ r.id < x.k
    BY <1>2, <1>4, <1>5, <1>7, <2>3
  <2> QED
    BY <1>5, <2>1, <2>2, <2>4 DEF InStep
<1> HIDE DEF new, row
<1> QED
  BY <1>1, <1>5, <1>6, <1>7, <1>9, <1>10, GoesOn

LEMMA StepComplete == ASSUME IInv, NEW s \in Servers, Complete(s) PROVE IInv'
<1>1. /\ server[s].at = "next" /\ On(s) /\ server' = [server EXCEPT ![s] = Off] /\ apart' = apart
      /\ db' = IF server[s].tx /\ server[s].base = db THEN server[s].view ELSE db
  BY DEF Complete, On
<1>2. ~apart => InStep(server[s], Runner(s)) /\ Unrecorded(Runner(s)) = {}
  BY <1>1, Here DEF InStep
<1>3. apart \in BOOLEAN /\ db \in Dbs /\ WellRun(db) /\ Extends(db, db)
  BY ExtendsSelf DEF IInv, MigrationsTypeOK
<1>4. CASE server[s].tx /\ server[s].base = db
  <2>1. db' = Runner(s) /\ Extends(db', db)
    BY <1>1, <1>4 DEF Runner, IInv, Underway
  <2> QED
    BY <1>1, <1>2, <1>3, <2>1, Here, Leaves DEF InStep
<1>5. CASE server[s].tx /\ server[s].base # db
  BY <1>1, <1>3, <1>5, Leaves DEF IInv, Orderly
<1>6. CASE ~server[s].tx
  <2>1. db' = db /\ Runner(s) = db
    BY <1>1, <1>6 DEF Runner
  <2> QED
    BY <1>1, <1>2, <1>3, <2>1, Leaves DEF InStep
<1> QED
  BY <1>4, <1>5, <1>6

LEMMA StepStop == ASSUME IInv, NEW s \in Servers, Stop(s) PROVE IInv'
<1>1. /\ On(s) /\ server' = [server EXCEPT ![s] = Off] /\ db' = db
      /\ apart' = (apart \/ (server[s].at = "record" /\ ~server[s].tx))
  BY DEF Stop, On
<1>2. apart' \in BOOLEAN /\ db \in Dbs /\ WellRun(db) /\ Extends(db, db)
  BY <1>1, ExtendsSelf DEF IInv, MigrationsTypeOK
<1>3. ASSUME ~apart', \A o \in Servers \ {s} : On(o) => server[o].tx PROVE Unrecorded(db) = {}
  <2>1. CASE server[s].tx
    BY <1>1, <1>3, <2>1 DEF IInv, Orderly
  <2>2. CASE ~server[s].tx
    BY <1>1, <1>3, <2>2, Here DEF InStep, Runner
  <2> QED
    BY <2>1, <2>2
<1>4. ~apart' => ~apart /\ IsInjective(db.done)
  BY <1>1 DEF IInv, Orderly
<1> QED
  BY <1>1, <1>2, <1>3, <1>4, Leaves

LEMMA StepIInv == IInv /\ [MigrationsNext]_migrationVars => IInv'
<1> SUFFICES ASSUME IInv, [MigrationsNext]_migrationVars PROVE IInv'
  OBVIOUS
<1>1. CASE UNCHANGED migrationVars
  BY <1>1 DEF migrationVars, IInv, MigrationsTypeOK, WellRun, Underway, Orderly, On, Runner
<1> QED
  BY <1>1, StepStart, StepQuery, StepSkip, StepExec, StepRecord, StepComplete, StepStop DEF MigrationsNext

\* Whatever releases migrate, crash, are edited or run in transactions, the table of
\* migrations and the servers under way are as IInv says.
THEOREM Invariance == MigrationsSpec => []IInv
BY InitIInv, StepIInv, PTL DEF MigrationsSpec

\* sql.migrate records only what it has executed, executes a text only when all before it
\* are recorded, and none twice at one position, unless a server stopped between a text
\* and its record outside a transaction, or two migrated at once.
THEOREM AlwaysMigrated == MigrationsSpec => []Migrated
<1>1. IInv => Migrated
  BY DEF IInv, WellRun, Orderly, Migrated
<1> QED
  BY <1>1, Invariance, PTL
=============================================================================
