--------------------------- MODULE FileStoreProofs ---------------------------
(***************************************************************************)
(* Proofs about FileStore, for any number of processes, threads, keys and  *)
(* values, and any number of crashes and full disks.                       *)
(***************************************************************************)
EXTENDS FileStore, TLAPS

Maps == [Keys -> Values \cup {Null}]
Contents == [state : {"none", "empty", "torn", "whole"}, map : Maps]
Critical == {"loaded", "truncated", "written"}
Answers  == Values \cup {Null, Idle, Error, TRUE, FALSE} \cup SUBSET Keys

StoreTypeOK ==
    /\ store \in StoreCasts
    /\ file \in Contents /\ tmp \in Contents
    /\ mutex \in [Procs -> Threads \cup {Null}]
    /\ pc \in [Threads -> {"idle", "called", "done"} \cup Critical]
    /\ op \in [Threads -> OperationsOf(Kind) \cup {NoOp}]
    /\ loaded \in [Threads -> Maps]
    /\ answer \in [Threads -> Answers]
    /\ faults \in Nat /\ harmed \in BOOLEAN

\* A call that has begun and not answered is one of the store's operations.
CallsOK ==
    \A t \in Threads :
        /\ IF pc[t] = "idle" THEN op[t] = NoOp ELSE op[t] \in OperationsOf(Kind) /\ t \in store.threads
        /\ answer[t] = Idle <=> pc[t] # "done"
        /\ pc[t] \in Critical => op[t].name \notin {"get", "keys"}

\* Between its load and its save a thread of kv or the vault has its process's lock.
Excluded == \A t \in Threads : Locks /\ pc[t] \in Critical => mutex[ProcOf[t]] = t

\* The file that is written: the tmp file, or the file in place.
Target == IF Renames THEN tmp ELSE file

\* The inductive form of Legible: one save at a time, of a file that is whole in the end.
SavesAlone ==
    ~harmed =>
        /\ \A s, t \in Saving : s = t
        /\ \A t \in Threads : pc[t] = "truncated" => Target = Truncated
        /\ \A t \in Threads : pc[t] = "written" => Renames /\ tmp = Whole(Effect(op[t], loaded[t]))
        /\ file.state \in {"none", "whole"} \/ (~Renames /\ \E t \in Threads : pc[t] = "truncated")

\* What a thread has loaded is still in the file, as long as it has not cut it.
LoadedIsStored ==
    Promised => \A t \in Threads :
        pc[t] \in {"loaded", "written"} \/ (pc[t] = "truncated" /\ Renames) => loaded[t] = file.map

IInv == StoreTypeOK /\ CallsOK /\ Excluded /\ SavesAlone /\ (Promised => ~harmed) /\ LoadedIsStored

-----------------------------------------------------------------------------
(* Types *)

LEMMA Kinds ==
  ASSUME store \in StoreCasts
  PROVE  /\ Kind \in {"kv", "vault", "snapshot"} /\ store.threads \subseteq Threads /\ store.faults \in Nat
         /\ Renames <=> Kind # "vault"
         /\ Locks <=> Kind # "snapshot"
BY StoreAssumption DEF Kind, Renames, Locks

LEMMA OpNames ==
  ASSUME store \in StoreCasts, NEW o \in OperationsOf(Kind)
  PROVE  /\ o = Op(o.name, o.key, o.value)
         /\ o.name \in Names[Kind]
         /\ HasKey(o.name) => o.key \in Keys
         /\ HasValue(o.name) => o.value \in Values
<1>1. CASE \E name \in {n \in Names[Kind] : HasKey(n) /\ HasValue(n)}, k \in Keys, v \in Values : o = Op(name, k, v)
  BY <1>1 DEF Op
<1>2. CASE \E name \in {n \in Names[Kind] : HasKey(n) /\ ~HasValue(n)}, k \in Keys : o = Op(name, k, Null)
  BY <1>2 DEF Op
<1>3. CASE \E name \in {n \in Names[Kind] : ~HasKey(n)} : o = Op(name, Null, Null)
  <2>1. PICK name \in {n \in Names[Kind] : ~HasKey(n)} : o = Op(name, Null, Null)
    BY <1>3
  <2>2. ~HasValue(name)
    BY <2>1 DEF HasKey, HasValue
  <2> QED
    BY <2>1, <2>2 DEF Op
<1> QED
  BY <1>1, <1>2, <1>3 DEF OperationsOf

LEMMA EffectType ==
  ASSUME store \in StoreCasts, NEW o \in OperationsOf(Kind), NEW map \in Maps
  PROVE  Effect(o, map) \in Maps
<1>1. CASE o.name \in {"set", "update"}
  BY <1>1, OpNames DEF Effect, Maps, HasKey, HasValue
<1>2. CASE o.name = "assert"
  BY <1>2, OpNames DEF Effect, Maps, HasKey, HasValue
<1>3. CASE o.name = "delete"
  BY <1>3, OpNames DEF Effect, Maps, HasKey, HasValue
<1>4. CASE o.name \notin {"set", "update", "assert", "delete"}
  BY <1>4 DEF Effect, Maps, EmptyMap
<1> QED
  BY <1>1, <1>2, <1>3, <1>4

\* An answer is never the mark of a call that has none.
LEMMA AnswerType ==
  ASSUME store \in StoreCasts, NEW o \in OperationsOf(Kind), NEW map \in Maps
  PROVE  Answer(o, map) \in Answers \ {Idle}
<1>1. CASE o.name = "get"
  BY <1>1, OpNames, StoreAssumption DEF Answer, Maps, HasKey, Answers
<1>2. CASE o.name = "keys"
  <2>1. Answer(o, map) \in SUBSET Keys
    BY <1>2 DEF Answer
  <2> QED
    BY <2>1, StoreAssumption DEF Answers
<1>3. CASE o.name \in {"delete", "assert"}
  <2>1. Answer(o, map) \in BOOLEAN
    <3>1. CASE o.name = "delete"
      BY <3>1 DEF Answer
    <3>2. CASE o.name = "assert"
      BY <3>2 DEF Answer
    <3> QED
      BY <1>3, <3>1, <3>2
  <2> QED
    BY <2>1, StoreAssumption DEF Answers
<1>4. CASE o.name \notin {"get", "keys", "delete", "assert"}
  <2>1. Answer(o, map) = o.value
    BY <1>4 DEF Answer
  <2>2. o.value \in Values \cup {Null}
    BY DEF OperationsOf, Op
  <2> QED
    BY <2>1, <2>2, StoreAssumption DEF Answers
<1> QED
  BY <1>1, <1>2, <1>3, <1>4

-----------------------------------------------------------------------------
(* The invariant *)

LEMMA InitIInv == StoreInit => IInv
<1> SUFFICES ASSUME StoreInit PROVE IInv
  OBVIOUS
<1> USE DEF StoreInit
<1>1. EmptyMap \in Maps
  BY DEF EmptyMap, Maps
<1>2. NoFile \in Contents /\ NoFile.state = "none" /\ NoFile.map = EmptyMap
  BY <1>1 DEF NoFile, Content, Contents
<1>3. StoreTypeOK
  BY <1>1, <1>2 DEF StoreTypeOK, Answers
<1>4. CallsOK /\ Excluded
  BY DEF CallsOK, Excluded, Critical
<1>5. SavesAlone /\ LoadedIsStored
  BY <1>2 DEF SavesAlone, Saving, LoadedIsStored
<1> QED
  BY <1>3, <1>4, <1>5 DEF IInv

\* What an operation leaves in the file it saves.
LEMMA Saved ==
  ASSUME StoreTypeOK, NEW t \in Threads, op[t] \in OperationsOf(Kind)
  PROVE  /\ Whole(Effect(op[t], loaded[t])) \in Contents
         /\ Whole(Effect(op[t], loaded[t])).state = "whole"
         /\ Whole(Effect(op[t], loaded[t])).map = Effect(op[t], loaded[t])
         /\ Torn \in Contents /\ Truncated \in Contents /\ NoFile \in Contents
         /\ Truncated.state = "empty"
<1>1. loaded[t] \in Maps /\ store \in StoreCasts
  BY DEF StoreTypeOK
<1>2. Effect(op[t], loaded[t]) \in Maps
  BY <1>1, EffectType
<1>3. EmptyMap \in Maps
  BY DEF EmptyMap, Maps
<1> QED
  BY <1>2, <1>3 DEF Whole, Torn, Truncated, NoFile, Content, Contents

\* Letting the lock go.
LEMMA UnlockType ==
  ASSUME StoreTypeOK, NEW t \in Threads, Unlock(t)
  PROVE  /\ mutex' \in [Procs -> Threads \cup {Null}]
         /\ \A p \in Procs : mutex[p] # t => mutex'[p] = mutex[p]
BY StoreAssumption DEF StoreTypeOK, Unlock

LEMMA StepTypes == IInv /\ [StoreNext]_storeVars => StoreTypeOK' /\ CallsOK'
<1> SUFFICES ASSUME IInv, [StoreNext]_storeVars PROVE StoreTypeOK' /\ CallsOK'
  OBVIOUS
<1>1. StoreTypeOK /\ CallsOK
  BY DEF IInv
<1>2. store' = store
  BY DEF StoreNext, storeVars, Call, Load, Truncate, Write, WriteFails, Rename, Return, Crash
<1>3. Kind' = Kind /\ OperationsOf(Kind)' = OperationsOf(Kind) /\ (Renames' <=> Renames)
  BY <1>2 DEF Kind, OperationsOf, Renames
<1>4. EmptyMap \in Maps /\ store \in StoreCasts
  BY <1>1 DEF EmptyMap, Maps, StoreTypeOK
<1>5. \A t \in Threads : /\ loaded[t] \in Maps /\ file.map \in Maps /\ ProcOf[t] \in Procs
                         /\ pc[t] # "idle" => op[t] \in OperationsOf(Kind) /\ t \in store.threads
  BY <1>1, StoreAssumption DEF StoreTypeOK, Contents, CallsOK
<1>6. ASSUME NEW t \in Threads, Call(t) PROVE StoreTypeOK' /\ CallsOK'
  <2>1. PICK o \in OperationsOf(Kind) : op' = [op EXCEPT ![t] = o]
    BY <1>6 DEF Call
  <2>2. StoreTypeOK'
    BY <1>1, <1>2, <1>3, <1>6, <2>1 DEF StoreTypeOK, Call, Goto
  <2>3. CallsOK'
    BY <1>1, <1>2, <1>3, <1>6, <2>1 DEF CallsOK, Call, Goto, Critical, StoreTypeOK
  <2> QED
    BY <2>2, <2>3
<1>7. ASSUME NEW t \in Threads, NEW a \in Answers \ {Idle}, pc[t] # "idle", Finish(t, a),
             UNCHANGED <<op, loaded, store>>, file' \in Contents, tmp' \in Contents, faults' \in Nat, harmed' \in BOOLEAN
      PROVE  StoreTypeOK' /\ CallsOK'
  <2>1. StoreTypeOK'
    BY <1>1, <1>3, <1>7, UnlockType DEF StoreTypeOK, Finish, Goto
  <2>2. CallsOK'
    BY <1>1, <1>3, <1>7 DEF CallsOK, Finish, Goto, Critical, StoreTypeOK
  <2> QED
    BY <2>1, <2>2
<1>8. Error \in Answers \ {Idle}
  BY StoreAssumption DEF Answers
<1>9. ASSUME NEW t \in Threads, Load(t) PROVE StoreTypeOK' /\ CallsOK'
  <2>1. pc[t] = "called" /\ op[t] \in OperationsOf(Kind) /\ UNCHANGED <<store, file, tmp, op, faults, harmed>>
    BY <1>5, <1>9 DEF Load
  <2>2. file' \in Contents /\ tmp' \in Contents /\ faults' \in Nat /\ harmed' \in BOOLEAN
    BY <1>1, <2>1 DEF StoreTypeOK
  <2>3. Answer(op[t], file.map) \in Answers \ {Idle}
    BY <1>4, <1>5, <2>1, AnswerType
  <2>4. CASE Finish(t, Error) /\ UNCHANGED loaded
    BY <1>7, <1>8, <2>1, <2>2, <2>4
  <2>5. CASE Finish(t, Answer(op[t], file.map)) /\ UNCHANGED loaded
    BY <1>7, <2>1, <2>2, <2>3, <2>5
  <2>6. CASE /\ Saves(op[t], file.map)
             /\ loaded' = [loaded EXCEPT ![t] = file.map]
             /\ mutex' = [mutex EXCEPT ![ProcOf[t]] = IF Locks THEN t ELSE @]
             /\ Goto(t, "loaded") /\ UNCHANGED answer
    <3>1. StoreTypeOK'
      BY <1>1, <1>3, <1>5, <2>1, <2>2, <2>6 DEF StoreTypeOK, Goto, Critical
    <3>2. op[t].name \notin {"get", "keys"}
      BY <2>6 DEF Saves
    <3>3. CallsOK'
      BY <1>1, <1>3, <2>1, <2>6, <3>2 DEF CallsOK, Goto, Critical, StoreTypeOK
    <3> QED
      BY <3>1, <3>3
  <2> QED
    BY <1>9, <2>4, <2>5, <2>6 DEF Load
<1>10. ASSUME NEW t \in Threads, Truncate(t) PROVE StoreTypeOK' /\ CallsOK'
  <2>1. Truncated \in Contents
    BY <1>4 DEF Truncated, Content, Contents
  <2>2. file' \in Contents /\ tmp' \in Contents /\ harmed' \in BOOLEAN
    BY <1>1, <1>10, <2>1 DEF Truncate, StoreTypeOK
  <2>3. StoreTypeOK'
    BY <1>1, <1>3, <1>10, <2>2 DEF StoreTypeOK, Truncate, Goto, Critical
  <2>4. CallsOK'
    BY <1>1, <1>3, <1>10 DEF CallsOK, Truncate, Goto, Critical, StoreTypeOK
  <2> QED
    BY <2>3, <2>4
<1>11. ASSUME NEW t \in Threads, Write(t) PROVE StoreTypeOK' /\ CallsOK'
  <2> DEFINE new == Whole(Effect(op[t], loaded[t]))
  <2>1. pc[t] = "truncated" /\ op[t] \in OperationsOf(Kind) /\ UNCHANGED <<store, op, loaded, faults, harmed>>
    BY <1>5, <1>11 DEF Write
  <2>2. new \in Contents /\ Torn \in Contents
    BY <1>1, <2>1, Saved
  <2>3. Over(tmp, new) \subseteq Contents /\ Over(file, new) \subseteq Contents
    BY <2>2 DEF Over
  <2>4. Answer(op[t], loaded[t]) \in Answers \ {Idle}
    BY <1>4, <1>5, <2>1, AnswerType
  <2>5. file' \in Contents /\ tmp' \in Contents /\ faults' \in Nat /\ harmed' \in BOOLEAN
    <3>1. CASE Renames
      BY <1>1, <1>11, <2>1, <2>3, <3>1 DEF Write, StoreTypeOK
    <3>2. CASE ~Renames
      BY <1>1, <1>11, <2>1, <2>3, <3>2 DEF Write, StoreTypeOK
    <3> QED
      BY <3>1, <3>2
  <2>6. CASE Renames
    <3>1. Goto(t, "written") /\ UNCHANGED <<answer, mutex>>
      BY <1>11, <2>6 DEF Write
    <3>2. StoreTypeOK'
      BY <1>1, <1>3, <2>1, <2>5, <3>1 DEF StoreTypeOK, Goto, Critical
    <3>3. CallsOK'
      BY <1>1, <1>3, <2>1, <3>1 DEF CallsOK, Goto, Critical, StoreTypeOK
    <3> QED
      BY <3>2, <3>3
  <2>7. CASE ~Renames
    <3>1. Finish(t, Answer(op[t], loaded[t]))
      BY <1>11, <2>7 DEF Write
    <3> QED
      BY <1>7, <2>1, <2>4, <2>5, <3>1
  <2> QED
    BY <2>6, <2>7
<1>12. ASSUME NEW t \in Threads, WriteFails(t) PROVE StoreTypeOK' /\ CallsOK'
  <2>1. Torn \in Contents /\ pc[t] # "idle"
    BY <1>4, <1>12 DEF Torn, Content, Contents, WriteFails
  <2>2. file' \in Contents /\ tmp' \in Contents /\ harmed' \in BOOLEAN /\ faults' \in Nat
    BY <1>1, <1>12, <2>1 DEF WriteFails, StoreTypeOK
  <2> QED
    BY <1>7, <1>8, <1>12, <2>1, <2>2 DEF WriteFails
<1>13. ASSUME NEW t \in Threads, Rename(t) PROVE StoreTypeOK' /\ CallsOK'
  <2>1. pc[t] = "written" /\ op[t] \in OperationsOf(Kind) /\ UNCHANGED <<store, op, loaded, faults, harmed>>
    BY <1>5, <1>13 DEF Rename
  <2>2. NoFile \in Contents
    BY <1>4 DEF NoFile, Content, Contents
  <2>3. file' \in Contents /\ tmp' \in Contents /\ faults' \in Nat /\ harmed' \in BOOLEAN
    BY <1>1, <1>13, <2>1, <2>2 DEF Rename, StoreTypeOK
  <2>4. Answer(op[t], loaded[t]) \in Answers \ {Idle}
    BY <1>4, <1>5, <2>1, AnswerType
  <2>5. Finish(t, Error) \/ Finish(t, Answer(op[t], loaded[t]))
    BY <1>13 DEF Rename
  <2> QED
    BY <1>7, <1>8, <2>1, <2>3, <2>4, <2>5
<1>14. ASSUME NEW t \in Threads, Return(t) PROVE StoreTypeOK' /\ CallsOK'
  <2>1. StoreTypeOK'
    BY <1>1, <1>3, <1>4, <1>14 DEF StoreTypeOK, Return, Goto, Answers
  <2>2. CallsOK'
    BY <1>1, <1>3, <1>14 DEF CallsOK, Return, Goto, Critical, StoreTypeOK
  <2> QED
    BY <2>1, <2>2
<1>15. ASSUME NEW p \in Procs, Crash(p) PROVE StoreTypeOK' /\ CallsOK'
  <2>1. /\ pc' = [t \in Threads |-> IF ProcOf[t] = p THEN "idle" ELSE pc[t]]
        /\ op' = [t \in Threads |-> IF ProcOf[t] = p THEN NoOp ELSE op[t]]
        /\ loaded' = [t \in Threads |-> IF ProcOf[t] = p THEN EmptyMap ELSE loaded[t]]
        /\ answer' = [t \in Threads |-> IF ProcOf[t] = p THEN Idle ELSE answer[t]]
        /\ mutex' = [mutex EXCEPT ![p] = Null] /\ faults' = faults + 1 /\ harmed' \in BOOLEAN
        /\ UNCHANGED <<store, file, tmp>>
    BY <1>1, <1>15 DEF Crash, StoreTypeOK
  <2>2. StoreTypeOK'
    <3>1. pc' \in [Threads -> {"idle", "called", "done"} \cup Critical]
      BY <1>1, <2>1 DEF StoreTypeOK
    <3>2. op' \in [Threads -> OperationsOf(Kind) \cup {NoOp}]
      BY <1>1, <2>1 DEF StoreTypeOK
    <3>3. loaded' \in [Threads -> Maps]
      BY <1>1, <1>4, <2>1 DEF StoreTypeOK
    <3>4. answer' \in [Threads -> Answers]
      BY <1>1, <2>1 DEF StoreTypeOK, Answers
    <3>5. mutex' \in [Procs -> Threads \cup {Null}] /\ faults' \in Nat
      BY <1>1, <2>1 DEF StoreTypeOK
    <3> QED
      BY <1>1, <1>3, <2>1, <3>1, <3>2, <3>3, <3>4, <3>5 DEF StoreTypeOK
  <2>3. CallsOK'
    BY <1>1, <1>3, <2>1 DEF CallsOK, Critical, StoreTypeOK
  <2> QED
    BY <2>2, <2>3
<1>16. CASE UNCHANGED storeVars
  BY <1>1, <1>3, <1>16 DEF storeVars, StoreTypeOK, CallsOK
<1> QED
  BY <1>6, <1>9, <1>10, <1>11, <1>12, <1>13, <1>14, <1>15, <1>16 DEF StoreNext

-----------------------------------------------------------------------------
(* The locks *)

LEMMA StepExcluded == IInv /\ [StoreNext]_storeVars => Excluded'
<1> SUFFICES ASSUME IInv, [StoreNext]_storeVars PROVE Excluded'
  OBVIOUS
<1>1. /\ pc \in [Threads -> {"idle", "called", "done"} \cup Critical]
      /\ mutex \in [Procs -> Threads \cup {Null}]
      /\ \A t \in Threads : ProcOf[t] \in Procs
      /\ Null \notin Threads
      /\ Excluded
  BY StoreAssumption DEF IInv, StoreTypeOK
<1>2. Locks' <=> Locks
  BY DEF Locks, Kind, StoreNext, storeVars, Call, Load, Truncate, Write, WriteFails, Rename, Return, Crash
<1>3. ASSUME NEW t \in Threads, UNCHANGED mutex,
             \/ Goto(t, "called") \/ Goto(t, "idle")
             \/ (Goto(t, "truncated") \/ Goto(t, "written")) /\ pc[t] \in Critical
      PROVE  Excluded'
  BY <1>1, <1>2, <1>3 DEF Excluded, Goto, Critical
<1>4. ASSUME NEW t \in Threads, NEW a, Finish(t, a) PROVE Excluded'
  <2>1. \A p \in Procs : mutex[p] # t => mutex'[p] = mutex[p]
    BY <1>1, <1>4 DEF Finish, Unlock
  <2>2. \A u \in Threads \ {t} : pc'[u] = pc[u]
    BY <1>1, <1>4 DEF Finish, Goto
  <2>3. pc'[t] = "done"
    BY <1>1, <1>4 DEF Finish, Goto
  <2> QED
    BY <1>1, <1>2, <2>1, <2>2, <2>3 DEF Excluded, Critical
<1>5. ASSUME NEW t \in Threads, Load(t) PROVE Excluded'
  <2>1. CASE /\ mutex' = [mutex EXCEPT ![ProcOf[t]] = IF Locks THEN t ELSE @]
             /\ Goto(t, "loaded")
    <3>1. ASSUME NEW u \in Threads \ {t}, Locks, pc'[u] \in Critical PROVE mutex'[ProcOf[u]] = u
      <4>1. pc[u] \in Critical /\ mutex[ProcOf[u]] = u
        BY <1>1, <2>1, <3>1 DEF Goto, Excluded
      <4>2. mutex[ProcOf[t]] = Null
        BY <1>5, <3>1 DEF Load
      <4> QED
        BY <1>1, <2>1, <4>1, <4>2
    <3>2. Locks => mutex'[ProcOf[t]] = t
      BY <1>1, <2>1
    <3> QED
      BY <1>2, <3>1, <3>2 DEF Excluded
  <2>2. CASE Finish(t, Error) \/ Finish(t, Answer(op[t], file.map))
    BY <1>4, <2>2
  <2> QED
    BY <1>5, <2>1, <2>2 DEF Load
<1>6. ASSUME NEW p \in Procs, Crash(p) PROVE Excluded'
  <2>1. pc' = [t \in Threads |-> IF ProcOf[t] = p THEN "idle" ELSE pc[t]] /\ mutex' = [mutex EXCEPT ![p] = Null]
    BY <1>1, <1>6 DEF Crash
  <2> QED
    BY <1>1, <1>2, <2>1 DEF Excluded, Critical
<1>7. ASSUME NEW t \in Threads, Write(t) PROVE Excluded'
  <2>1. pc[t] \in Critical
    BY <1>7 DEF Write, Critical
  <2>2. \/ Goto(t, "written") /\ UNCHANGED mutex
        \/ Finish(t, Answer(op[t], loaded[t]))
    BY <1>7 DEF Write
  <2> QED
    BY <1>3, <1>4, <2>1, <2>2
<1>8. CASE UNCHANGED storeVars
  BY <1>1, <1>2, <1>8 DEF storeVars, Excluded
<1>9. ASSUME NEW t \in Threads, Truncate(t) PROVE Excluded'
  BY <1>3, <1>9 DEF Truncate, Critical
<1>10. ASSUME NEW t \in Threads, Call(t) \/ Return(t) PROVE Excluded'
  BY <1>3, <1>10 DEF Call, Return
<1>11. ASSUME NEW t \in Threads, WriteFails(t) \/ Rename(t) PROVE Excluded'
  BY <1>4, <1>11 DEF WriteFails, Rename
<1> QED
  BY <1>5, <1>6, <1>7, <1>8, <1>9, <1>10, <1>11 DEF StoreNext

\* In one process with a lock, one thread at a time is between its load and its save.
LEMMA OneAtATime ==
  ASSUME IInv, Promised
  PROVE  /\ Locks
         /\ \A s, t \in Threads : pc[s] # "idle" /\ pc[t] # "idle" => ProcOf[s] = ProcOf[t]
         /\ \A s, t \in Threads : pc[s] \in Critical /\ pc[t] \in Critical => s = t
<1>1. Locks
  BY DEF Promised, Locks
<1>2. \A s, t \in Threads : pc[s] # "idle" /\ pc[t] # "idle" => ProcOf[s] = ProcOf[t]
  BY DEF IInv, CallsOK, Promised, Alone
<1>3. \A s, t \in Threads : pc[s] \in Critical /\ pc[t] \in Critical => s = t
  BY <1>1, <1>2 DEF IInv, Excluded, Critical
<1> QED
  BY <1>1, <1>2, <1>3

-----------------------------------------------------------------------------
(* The files *)

\* Where nobody else saves and nothing fails in place, nothing is harmed.
LEMMA StepUnharmed == IInv /\ [StoreNext]_storeVars => (Promised => ~harmed)'
<1> SUFFICES ASSUME IInv, [StoreNext]_storeVars, Promised' PROVE ~harmed'
  OBVIOUS
<1>1. store' = store
  BY DEF StoreNext, storeVars, Call, Load, Truncate, Write, WriteFails, Rename, Return, Crash
<1>2. Promised /\ ~harmed
  BY <1>1 DEF Promised, Alone, Kind, IInv
<1>3. ~Renames => ~(faults < store.faults)
  BY <1>2 DEF Promised, Renames, IInv, StoreTypeOK
<1>4. ASSUME NEW t \in Threads, Truncate(t) PROVE ~harmed'
  <2>1. Saving = {}
    BY <1>2, <1>4, OneAtATime DEF Truncate, Saving, Critical
  <2> QED
    BY <1>2, <1>4, <2>1 DEF Truncate
<1>5. ASSUME NEW t \in Threads, WriteFails(t) PROVE ~harmed'
  BY <1>2, <1>3, <1>5 DEF WriteFails
<1>6. ASSUME NEW p \in Procs, Crash(p) PROVE ~harmed'
  BY <1>2, <1>3, <1>6 DEF Crash
<1> QED
  BY <1>2, <1>4, <1>5, <1>6 DEF StoreNext, storeVars, Call, Load, Write, Rename, Return

LEMMA StepSavesAlone == IInv /\ [StoreNext]_storeVars => SavesAlone'
<1> SUFFICES ASSUME IInv, [StoreNext]_storeVars, ~harmed' PROVE SavesAlone'
  BY DEF SavesAlone
<1>1. store' = store /\ ~harmed
  <2>1. store' = store
    BY DEF StoreNext, storeVars, Call, Load, Truncate, Write, WriteFails, Rename, Return, Crash
  <2>2. ~harmed
    <3>1. ASSUME NEW t \in Threads, Truncate(t) \/ WriteFails(t) PROVE ~harmed
      BY <3>1 DEF Truncate, WriteFails
    <3>2. ASSUME NEW p \in Procs, Crash(p) PROVE ~harmed
      BY <3>2 DEF Crash
    <3>3. ASSUME NEW t \in Threads, Call(t) \/ Load(t) \/ Write(t) \/ Rename(t) \/ Return(t) PROVE ~harmed
      BY <3>3 DEF Call, Load, Write, Rename, Return
    <3>4. CASE UNCHANGED storeVars
      BY <3>4 DEF storeVars
    <3> QED
      BY <3>1, <3>2, <3>3, <3>4 DEF StoreNext
  <2> QED
    BY <2>1, <2>2
<1>2. Kind' = Kind /\ (Renames' <=> Renames)
  BY <1>1 DEF Kind, Renames
<1>3. /\ \A s, t \in Threads : pc[s] \in {"truncated", "written"} /\ pc[t] \in {"truncated", "written"} => s = t
      /\ \A t \in Threads : pc[t] = "truncated" => Target = Truncated
      /\ \A t \in Threads : pc[t] = "written" => Renames /\ tmp = Whole(Effect(op[t], loaded[t]))
      /\ file.state \in {"none", "whole"} \/ (~Renames /\ \E t \in Threads : pc[t] = "truncated")
  BY <1>1 DEF IInv, SavesAlone, Saving
<1>4. /\ pc \in [Threads -> {"idle", "called", "done"} \cup Critical]
      /\ DOMAIN op = Threads /\ DOMAIN loaded = Threads
  BY DEF IInv, StoreTypeOK
\* Nobody comes to save, and the files stay.
<1>5. ASSUME UNCHANGED <<file, tmp>>,
             \A t \in Threads : pc'[t] \in {"truncated", "written"} =>
                pc'[t] = pc[t] /\ op'[t] = op[t] /\ loaded'[t] = loaded[t],
             ~Renames => \A t \in Threads : pc[t] = "truncated" => pc'[t] = "truncated"
      PROVE  SavesAlone'
  <2>1. \A s, t \in Saving' : s = t
    BY <1>3, <1>5 DEF Saving
  <2>2. \A t \in Threads : pc'[t] = "truncated" => Target' = Truncated
    BY <1>2, <1>3, <1>5 DEF Target
  <2>3. \A t \in Threads : pc'[t] = "written" => Renames' /\ tmp' = Whole(Effect(op'[t], loaded'[t]))
    BY <1>2, <1>3, <1>5
  <2>4. file'.state \in {"none", "whole"} \/ (~Renames' /\ \E t \in Threads : pc'[t] = "truncated")
    BY <1>2, <1>3, <1>5
  <2> QED
    BY <2>1, <2>2, <2>3, <2>4 DEF SavesAlone
\* Nobody is saving any more, and the file is whole.
<1>6. ASSUME \A t \in Threads : pc'[t] \notin {"truncated", "written"}, file'.state \in {"none", "whole"}
      PROVE  SavesAlone'
  BY <1>6 DEF SavesAlone, Saving
<1>7. ASSUME NEW t \in Threads, Call(t) \/ Load(t) \/ Return(t) PROVE SavesAlone'
  <2>1. pc[t] \in {"idle", "called", "done"} /\ UNCHANGED <<file, tmp>>
    BY <1>7 DEF Call, Load, Return
  <2>2. \E x \in {"idle", "called", "loaded", "done"} : pc' = [pc EXCEPT ![t] = x]
    BY <1>7 DEF Call, Load, Return, Finish, Goto
  <2>3. \A u \in Threads \ {t} : op'[u] = op[u] /\ loaded'[u] = loaded[u]
    BY <1>4, <1>7 DEF Call, Load, Return
  <2> QED
    BY <1>4, <1>5, <2>1, <2>2, <2>3
<1>8. ASSUME NEW t \in Threads, Truncate(t) PROVE SavesAlone'
  <2>1. \A u \in Threads : pc[u] \notin {"truncated", "written"}
    BY <1>1, <1>8 DEF Truncate, Saving
  <2>2. pc' = [pc EXCEPT ![t] = "truncated"]
    BY <1>8 DEF Truncate, Goto
  <2>3. Target' = Truncated /\ (Renames => file' = file)
    BY <1>2, <1>8 DEF Truncate, Target
  <2>4. \A u \in Threads : u # t => pc'[u] \notin {"truncated", "written"}
    BY <1>4, <2>1, <2>2
  <2>5. pc'[t] = "truncated"
    BY <1>4, <2>2
  <2>6. \A s, u \in Saving' : s = u
    BY <2>4 DEF Saving
  <2>7. file'.state \in {"none", "whole"} \/ (~Renames' /\ \E u \in Threads : pc'[u] = "truncated")
    BY <1>2, <1>3, <2>1, <2>3, <2>5
  <2>8. \A u \in Threads : pc'[u] # "written"
    BY <2>4, <2>5
  <2> QED
    BY <2>3, <2>6, <2>7, <2>8 DEF SavesAlone
<1>9. ASSUME NEW t \in Threads, Write(t) PROVE SavesAlone'
  <2> DEFINE new == Whole(Effect(op[t], loaded[t]))
  <2>1. /\ pc[t] = "truncated" /\ Target = Truncated
        /\ \A u \in Threads \ {t} : pc[u] \notin {"truncated", "written"}
        /\ UNCHANGED <<op, loaded>>
    BY <1>3, <1>9 DEF Write
  <2>2. new.state = "whole"
    BY DEF Whole, Content
  <2>3. Over(Truncated, new) = {new}
    BY DEF Over, Truncated, Content
  <2>4. CASE Renames
    <3>1. tmp' = new /\ pc' = [pc EXCEPT ![t] = "written"] /\ file' = file
      BY <1>9, <2>1, <2>3, <2>4 DEF Write, Target, Goto
    <3>2. pc'[t] = "written" /\ \A u \in Threads \ {t} : pc'[u] \notin {"truncated", "written"}
      BY <1>4, <2>1, <3>1
    <3>3. \A s, u \in Saving' : s = u
      BY <3>2 DEF Saving
    <3> QED
      BY <1>2, <1>3, <2>1, <2>4, <3>1, <3>2, <3>3 DEF SavesAlone
  <2>5. CASE ~Renames
    <3>1. file' = new /\ pc' = [pc EXCEPT ![t] = "done"]
      BY <1>9, <2>1, <2>3, <2>5 DEF Write, Target, Finish, Goto
    <3>2. \A u \in Threads : pc'[u] \notin {"truncated", "written"}
      BY <1>4, <2>1, <3>1
    <3> QED
      BY <1>6, <2>2, <3>1, <3>2
  <2> QED
    BY <2>4, <2>5
<1>10. ASSUME NEW t \in Threads, WriteFails(t) PROVE SavesAlone'
  <2>1. Renames /\ file' = file /\ pc' = [pc EXCEPT ![t] = "done"] /\ pc[t] = "truncated"
    BY <1>10 DEF WriteFails, Finish, Goto
  <2>2. \A u \in Threads : pc'[u] \notin {"truncated", "written"}
    BY <1>3, <1>4, <2>1
  <2> QED
    BY <1>3, <1>6, <2>1, <2>2
<1>11. ASSUME NEW t \in Threads, Rename(t) PROVE SavesAlone'
  <2>1. /\ pc[t] = "written" /\ pc' = [pc EXCEPT ![t] = "done"]
        /\ file' = file \/ file' = tmp
    BY <1>11 DEF Rename, Finish, Goto
  <2>2. Renames /\ tmp.state = "whole"
    BY <1>3, <2>1 DEF Whole, Content
  <2>3. \A u \in Threads : pc'[u] \notin {"truncated", "written"}
    BY <1>3, <1>4, <2>1
  <2> QED
    BY <1>3, <1>6, <2>1, <2>2, <2>3
<1>12. ASSUME NEW p \in Procs, Crash(p) PROVE SavesAlone'
  <2>1. /\ pc' = [t \in Threads |-> IF ProcOf[t] = p THEN "idle" ELSE pc[t]]
        /\ op' = [t \in Threads |-> IF ProcOf[t] = p THEN NoOp ELSE op[t]]
        /\ loaded' = [t \in Threads |-> IF ProcOf[t] = p THEN EmptyMap ELSE loaded[t]]
        /\ UNCHANGED <<file, tmp>>
        /\ ~Renames => \A t \in Threads : ProcOf[t] = p => pc[t] # "truncated"
    BY <1>12 DEF Crash
  <2> QED
    BY <1>5, <2>1
<1>13. CASE UNCHANGED storeVars
  BY <1>5, <1>13 DEF storeVars
<1> QED
  BY <1>7, <1>8, <1>9, <1>10, <1>11, <1>12, <1>13 DEF StoreNext

LEMMA StepLoadedIsStored == IInv /\ [StoreNext]_storeVars => LoadedIsStored'
<1> SUFFICES ASSUME IInv, [StoreNext]_storeVars, Promised' PROVE LoadedIsStored'
  BY DEF LoadedIsStored
<1>1. store' = store
  BY DEF StoreNext, storeVars, Call, Load, Truncate, Write, WriteFails, Rename, Return, Crash
<1>2. Promised /\ (Renames' <=> Renames)
  BY <1>1 DEF Promised, Alone, Kind, Renames
<1>3. \A t \in Threads : pc[t] \in {"loaded", "written"} \/ (pc[t] = "truncated" /\ Renames) => loaded[t] = file.map
  BY <1>2 DEF IInv, LoadedIsStored
<1>4. /\ pc \in [Threads -> {"idle", "called", "done"} \cup Critical]
      /\ DOMAIN op = Threads /\ DOMAIN loaded = Threads
      /\ \A s, t \in Threads : pc[s] \in Critical /\ pc[t] \in Critical => s = t
  BY <1>2, OneAtATime DEF IInv, StoreTypeOK
<1> DEFINE Has(t) == pc[t] \in {"loaded", "written"} \/ (pc[t] = "truncated" /\ Renames)
\* The file stays, and nobody comes to have it loaded.
<1>5. ASSUME file' = file, \A t \in Threads : Has(t)' => Has(t) /\ loaded'[t] = loaded[t]
      PROVE  LoadedIsStored'
  BY <1>2, <1>3, <1>5 DEF LoadedIsStored
\* Nobody has it loaded any more.
<1>6. ASSUME NEW t \in Threads, pc[t] \in Critical, NEW x \in {"done", "truncated"}, pc' = [pc EXCEPT ![t] = x],
             x = "truncated" => ~Renames
      PROVE  LoadedIsStored'
  BY <1>2, <1>4, <1>6 DEF LoadedIsStored, Critical
<1>7. ASSUME NEW t \in Threads, Load(t) PROVE LoadedIsStored'
  <2>1. CASE Goto(t, "loaded") /\ loaded' = [loaded EXCEPT ![t] = file.map]
    BY <1>2, <1>3, <1>4, <1>7, <2>1 DEF Load, Goto, LoadedIsStored
  <2>2. CASE Goto(t, "done") /\ UNCHANGED loaded
    <3>1. file' = file /\ \A u \in Threads : Has(u)' => Has(u)
      BY <1>2, <1>4, <1>7, <2>2 DEF Load, Goto
    <3> QED
      BY <1>5, <2>2, <3>1
  <2> QED
    BY <1>7, <2>1, <2>2 DEF Load, Finish
<1>8. ASSUME NEW t \in Threads, Call(t) \/ Return(t) PROVE LoadedIsStored'
  <2>1. file' = file /\ \E x \in {"called", "idle"} : pc' = [pc EXCEPT ![t] = x]
    BY <1>8 DEF Call, Return, Goto
  <2>2. \A u \in Threads \ {t} : loaded'[u] = loaded[u]
    BY <1>4, <1>8 DEF Call, Return
  <2> QED
    BY <1>2, <1>4, <1>5, <2>1, <2>2
<1>9. ASSUME NEW t \in Threads, Truncate(t) PROVE LoadedIsStored'
  <2>1. pc[t] = "loaded" /\ pc' = [pc EXCEPT ![t] = "truncated"] /\ UNCHANGED loaded /\ (Renames => file' = file)
    BY <1>9 DEF Truncate, Goto
  <2>2. CASE Renames
    BY <1>2, <1>4, <1>5, <2>1, <2>2
  <2>3. CASE ~Renames
    BY <1>6, <2>1, <2>3 DEF Critical
  <2> QED
    BY <2>2, <2>3
<1>10. ASSUME NEW t \in Threads, Write(t) PROVE LoadedIsStored'
  <2>1. CASE Renames
    <3>1. pc[t] = "truncated" /\ pc' = [pc EXCEPT ![t] = "written"] /\ UNCHANGED <<file, loaded>>
      BY <1>10, <2>1 DEF Write, Goto
    <3> QED
      BY <1>2, <1>4, <1>5, <2>1, <3>1
  <2>2. CASE ~Renames
    BY <1>6, <1>10, <2>2 DEF Write, Finish, Goto, Critical
  <2> QED
    BY <2>1, <2>2
<1>11. ASSUME NEW t \in Threads, WriteFails(t) \/ Rename(t) PROVE LoadedIsStored'
  BY <1>6, <1>11 DEF WriteFails, Rename, Finish, Goto, Critical
<1>12. ASSUME NEW p \in Procs, Crash(p) PROVE LoadedIsStored'
  <2>1. /\ pc' = [t \in Threads |-> IF ProcOf[t] = p THEN "idle" ELSE pc[t]]
        /\ loaded' = [t \in Threads |-> IF ProcOf[t] = p THEN EmptyMap ELSE loaded[t]]
        /\ file' = file
    BY <1>12 DEF Crash
  <2> QED
    BY <1>2, <1>5, <2>1
<1>13. CASE UNCHANGED storeVars
  BY <1>2, <1>5, <1>13 DEF storeVars
<1> QED
  BY <1>7, <1>8, <1>9, <1>10, <1>11, <1>12, <1>13 DEF StoreNext

LEMMA StepIInv == IInv /\ [StoreNext]_storeVars => IInv'
BY StepTypes, StepExcluded, StepUnharmed, StepSavesAlone, StepLoadedIsStored DEF IInv

\* Whatever processes and threads use the store, types, locks and files are as IInv says.
THEOREM Invariance == StoreSpec => []IInv
BY InitIInv, StepIInv, PTL DEF StoreSpec

\* A crash or a full disk never makes kv or the snapshots of one process at a time
\* unreadable, and the vault only while it is being cut; whatever the number of
\* processes, as long as no two save at once.
THEOREM AlwaysLegible == StoreSpec => []Legible
<1>1. IInv => Legible
  BY DEF IInv, SavesAlone, Legible, Readable
<1> QED
  BY <1>1, Invariance, PTL


-----------------------------------------------------------------------------
(* The atomic store *)

AbstractMap == IF Promised THEN StoredMap ELSE EmptyMap
CallOf(t) ==
    IF ~Promised \/ pc[t] = "idle" THEN [op |-> NoOp, answer |-> Idle] ELSE [op |-> op[t], answer |-> answer[t]]
AbstractCall == [t \in Threads |-> CallOf(t)]
AbstractStep(t) == Abstract!Invoke(t) \/ Abstract!Apply(t) \/ Abstract!Fail(t) \/ Abstract!Return(t)

\* The one thread that has cut the vault still holds what was in it.
Holds == /\ \A t \in Threads : pc[t] = "truncated" /\ ~Renames => StoredMap = loaded[t]
         /\ (\A t \in Threads : pc[t] = "truncated" => Renames) => StoredMap = file.map
LEMMA Stored == IInv /\ Promised => Holds
<1> SUFFICES ASSUME IInv, Promised PROVE Holds
  OBVIOUS
<1>1. ASSUME NEW t \in Threads, pc[t] = "truncated", ~Renames PROVE StoredMap = loaded[t]
  <2>1. \A u \in Threads : pc[u] = "truncated" => u = t
    BY <1>1, OneAtATime DEF Critical
  <2>2. (CHOOSE u \in Threads : pc[u] = "truncated") = t
    BY <1>1, <2>1
  <2> QED
    BY <1>1, <2>2 DEF StoredMap
<1>2. (\A t \in Threads : pc[t] = "truncated" => Renames) => StoredMap = file.map
  BY DEF StoredMap
<1> QED
  BY <1>1, <1>2 DEF Holds

LEMMA StoredNext == (IInv /\ Promised)' => Holds'
BY Stored, PTL

\* The steps of AtomicStore, in the terms of the file store.
LEMMA AbstractSteps ==
  ASSUME NEW t \in Threads, AbstractCall' = [AbstractCall EXCEPT ![t] = CallOf(t)'],
         NEW o, NEW a, CallOf(t) = [op |-> o, answer |-> a]
  PROVE  /\ /\ o = NoOp /\ a = Idle /\ AbstractMap' = AbstractMap
            /\ \E n \in OperationsOf("kv") : CallOf(t)' = [op |-> n, answer |-> Idle]
            => AbstractStep(t)
         /\ /\ o # NoOp /\ a = Idle /\ AbstractMap' = Effect(o, AbstractMap)
            /\ CallOf(t)' = [op |-> o, answer |-> Answer(o, AbstractMap)]
            => AbstractStep(t)
         /\ /\ o # NoOp /\ a = Idle /\ AbstractMap' = AbstractMap
            /\ CallOf(t)' = [op |-> o, answer |-> Error]
            => AbstractStep(t)
         /\ /\ a # Idle /\ AbstractMap' = AbstractMap
            /\ CallOf(t)' = [op |-> NoOp, answer |-> Idle]
            => AbstractStep(t)
<1> USE DEF AbstractMap, AbstractStep, CallOf, AbstractCall
<1>1. ASSUME o = NoOp, a = Idle, AbstractMap' = AbstractMap,
             NEW n \in OperationsOf("kv"), CallOf(t)' = [op |-> n, answer |-> Idle]
      PROVE  Abstract!Invoke(t)
  BY <1>1 DEF Abstract!Invoke, Abstract!Nothing, Abstract!Called
<1>2. ASSUME o # NoOp, a = Idle, AbstractMap' = Effect(o, AbstractMap),
             CallOf(t)' = [op |-> o, answer |-> Answer(o, AbstractMap)]
      PROVE  Abstract!Apply(t)
  BY <1>2 DEF Abstract!Apply, Abstract!Pending, Abstract!Nothing, Abstract!Called, Abstract!Answered
<1>3. ASSUME o # NoOp, a = Idle, AbstractMap' = AbstractMap, CallOf(t)' = [op |-> o, answer |-> Error]
      PROVE  Abstract!Fail(t)
  BY <1>3 DEF Abstract!Fail, Abstract!Pending, Abstract!Nothing, Abstract!Called, Abstract!Answered
<1>4. ASSUME a # Idle, AbstractMap' = AbstractMap, CallOf(t)' = [op |-> NoOp, answer |-> Idle]
      PROVE  Abstract!Return(t)
  BY <1>4 DEF Abstract!Return, Abstract!Nothing, Abstract!Called
<1> QED
  BY <1>1, <1>2, <1>3, <1>4


\* An operation that does not save leaves the map as it is.
LEMMA SavesOrNot ==
  ASSUME store \in StoreCasts, NEW o \in OperationsOf(Kind), NEW m \in Maps, ~Saves(o, m)
  PROVE  Effect(o, m) = m
<1>1. CASE o.name \in {"get", "keys"}
  BY <1>1 DEF Effect
<1>2. CASE o.name = "assert"
  BY <1>2, OpNames DEF Saves, Effect, Maps, HasKey
<1>3. CASE o.name = "delete"
  BY <1>3, OpNames DEF Saves, Effect, Maps, HasKey
<1>4. CASE o.name \notin {"get", "keys", "assert", "delete"}
  BY <1>4 DEF Saves
<1> QED
  BY <1>1, <1>2, <1>3, <1>4

LEMMA NotNoOp == ASSUME store \in StoreCasts, NEW o \in OperationsOf(Kind) PROVE o # NoOp
<1>1. o.name \in {"get", "set", "delete", "keys", "clear", "assert", "update"}
  BY OpNames, Kinds DEF Names
<1>2. NoOp.name = "none"
  BY DEF NoOp, Op
<1> QED
  BY <1>1, <1>2

\* The vault's operations are kv's.
LEMMA PromisedOperations ==
  ASSUME Promised, NEW o \in OperationsOf(Kind) PROVE o \in OperationsOf("kv")
<1>1. Kind = "kv" \/ Kind = "vault"
  BY DEF Promised
<1>2. CASE Kind = "vault"
  BY <1>2 DEF OperationsOf, Names
<1> QED
  BY <1>1, <1>2

\* A step of one thread, as it is seen in the abstract calls.
LEMMA OneCall ==
  ASSUME IInv, store' = store, NEW t \in Threads, NEW x, pc' = [pc EXCEPT ![t] = x],
         \A u \in Threads \ {t} : op'[u] = op[u] /\ answer'[u] = answer[u]
  PROVE  AbstractCall' = [AbstractCall EXCEPT ![t] = CallOf(t)']
<1>1. Promised' <=> Promised
  BY DEF Promised, Alone, Kind
<1>2. pc \in [Threads -> {"idle", "called", "done"} \cup Critical]
  BY DEF IInv, StoreTypeOK
<1>3. \A u \in Threads \ {t} : CallOf(u)' = CallOf(u)
  BY <1>1, <1>2 DEF CallOf
<1> QED
  BY <1>3 DEF AbstractCall


LEMMA StepAbstract ==
  IInv /\ IInv' /\ [StoreNext]_storeVars => [Abstract!Next]_Abstract!vars
<1> SUFFICES ASSUME IInv, IInv', [StoreNext]_storeVars
             PROVE  \/ UNCHANGED <<AbstractMap, AbstractCall>> \/ Abstract!Crash
                    \/ \E t \in Threads : AbstractStep(t)
  BY DEF Abstract!vars, Abstract!Next, AbstractStep, AbstractMap, AbstractCall, CallOf
<1>1. store' = store
  BY DEF StoreNext, storeVars, Call, Load, Truncate, Write, WriteFails, Rename, Return, Crash
<1>2. (Promised' <=> Promised) /\ (Renames' <=> Renames) /\ store \in StoreCasts
  BY <1>1 DEF Promised, Alone, Kind, Renames, IInv, StoreTypeOK
<1>3. CASE ~Promised
  BY <1>2, <1>3 DEF AbstractMap, AbstractCall, CallOf
<1>4. CASE UNCHANGED storeVars
  <2>1. UNCHANGED <<Kind, Renames, Alone, StoredMap>>
    BY <1>4 DEF storeVars, Kind, Renames, Alone, StoredMap
  <2> QED
    BY <1>2, <1>4, <2>1 DEF storeVars, AbstractMap, AbstractCall, CallOf
<1>5. CASE Promised /\ StoreNext
  <2>1. Holds /\ Holds' /\ AbstractMap = StoredMap /\ AbstractMap' = StoredMap'
    BY <1>2, <1>5, Stored, StoredNext DEF AbstractMap
  <2>2. /\ pc \in [Threads -> {"idle", "called", "done"} \cup Critical]
        /\ DOMAIN op = Threads /\ loaded \in [Threads -> Maps] /\ DOMAIN answer = Threads
        /\ file \in Contents /\ file.map \in Maps
        /\ \A t \in Threads : answer[t] = Idle <=> pc[t] # "done"
        /\ \A t \in Threads : pc[t] = "idle" => op[t] = NoOp
        /\ \A t \in Threads : pc[t] # "idle" => op[t] \in OperationsOf(Kind) /\ op[t] # NoOp
    BY <1>2, NotNoOp DEF IInv, StoreTypeOK, CallsOK, Contents
  <2>3. \A s, t \in Threads : pc[s] \in Critical /\ pc[t] \in Critical => s = t
    BY <1>5, OneAtATime
  <2>4. /\ ~harmed
        /\ \A t \in Threads : pc[t] = "truncated" => Target = Truncated
        /\ \A t \in Threads : pc[t] = "written" => Renames /\ tmp = Whole(Effect(op[t], loaded[t]))
        /\ \A t \in Threads : pc[t] \in {"loaded", "written"} \/ (pc[t] = "truncated" /\ Renames) => loaded[t] = file.map
    BY <1>5 DEF IInv, SavesAlone, LoadedIsStored
  \* The end of an operation.
  <2>0. ASSUME NEW t \in Threads, pc[t] \notin {"idle", "done"}, NEW a, Finish(t, a), UNCHANGED op
        PROVE  /\ AbstractCall' = [AbstractCall EXCEPT ![t] = CallOf(t)']
               /\ CallOf(t) = [op |-> op[t], answer |-> Idle] /\ CallOf(t)' = [op |-> op[t], answer |-> a]
               /\ op[t] \in OperationsOf(Kind) /\ op[t] # NoOp
               /\ pc' = [pc EXCEPT ![t] = "done"]
    <3>1. pc' = [pc EXCEPT ![t] = "done"] /\ answer' = [answer EXCEPT ![t] = a] /\ op' = op
      BY <2>0 DEF Finish, Goto
    <3>2. pc'[t] = "done" /\ answer'[t] = a /\ answer[t] = Idle
      BY <2>0, <2>2, <3>1
    <3>3. AbstractCall' = [AbstractCall EXCEPT ![t] = CallOf(t)']
      BY <1>1, <2>2, <3>1, OneCall
    <3>4. CallOf(t) = [op |-> op[t], answer |-> Idle] /\ CallOf(t)' = [op |-> op[t], answer |-> a]
      BY <1>2, <1>5, <2>0, <3>1, <3>2 DEF CallOf
    <3> QED
      BY <2>0, <2>2, <3>1, <3>3, <3>4
  <2>5. ASSUME NEW t \in Threads, Call(t) PROVE AbstractStep(t)
    <3>1. PICK o \in OperationsOf(Kind) : op' = [op EXCEPT ![t] = o]
      BY <2>5 DEF Call
    <3>2. pc[t] = "idle" /\ pc' = [pc EXCEPT ![t] = "called"] /\ UNCHANGED <<file, loaded, answer>>
      BY <2>5 DEF Call, Goto
    <3>3. StoredMap' = StoredMap
      BY <1>2, <2>1, <2>2, <3>2 DEF Holds
    <3>4. AbstractCall' = [AbstractCall EXCEPT ![t] = CallOf(t)']
      BY <1>1, <2>2, <3>1, <3>2, OneCall
    <3>5. CallOf(t) = [op |-> NoOp, answer |-> Idle] /\ CallOf(t)' = [op |-> o, answer |-> Idle]
      BY <1>2, <1>5, <2>2, <3>1, <3>2 DEF CallOf
    <3> QED
      BY <1>5, <2>1, <3>3, <3>4, <3>5, PromisedOperations, AbstractSteps
  <2>6. ASSUME NEW t \in Threads, Load(t) PROVE UNCHANGED <<AbstractMap, AbstractCall>> \/ AbstractStep(t)
    <3>1. pc[t] = "called" /\ UNCHANGED <<store, file, op>>
      BY <2>6 DEF Load
    <3>2. \A u \in Threads : pc[u] \notin Critical
      <4>1. mutex[ProcOf[t]] = Null
        BY <1>5, <2>6, OneAtATime DEF Load
      <4>2. \A u \in Threads : pc[u] \in Critical => mutex[ProcOf[u]] = u /\ ProcOf[u] = ProcOf[t]
        BY <1>5, <3>1, OneAtATime DEF IInv, Excluded, Critical
      <4> QED
        BY <4>1, <4>2, StoreAssumption
    <3>3. StoredMap = file.map
      BY <2>1, <3>2 DEF Holds, Critical
    <3>4. StoredMap' = file.map \/ (\E u \in Threads : pc'[u] = "truncated")
      BY <1>2, <2>1, <3>1 DEF Holds
    <3>5. \A u \in Threads : pc'[u] # "truncated"
      BY <2>2, <2>6, <3>2 DEF Load, Finish, Goto, Critical
    <3>6. CASE Finish(t, Error)
      BY <2>0, <2>1, <3>1, <3>3, <3>4, <3>5, <3>6, AbstractSteps
    <3>7. CASE Finish(t, Answer(op[t], file.map)) /\ ~Saves(op[t], file.map)
      <4>1. Effect(op[t], file.map) = file.map
        BY <1>2, <2>2, <3>1, <3>7, SavesOrNot
      <4> QED
        BY <2>0, <2>1, <3>1, <3>3, <3>4, <3>5, <3>7, <4>1, AbstractSteps
    <3>8. CASE Goto(t, "loaded") /\ UNCHANGED answer
      <4>1. \A u \in Threads : CallOf(u)' = CallOf(u)
        BY <1>2, <2>2, <3>1, <3>8 DEF CallOf, Goto
      <4> QED
        BY <2>1, <3>3, <3>4, <3>5, <4>1 DEF AbstractCall
    <3> QED
      BY <2>6, <3>6, <3>7, <3>8 DEF Load
  <2>7. ASSUME NEW t \in Threads, Truncate(t) PROVE UNCHANGED <<AbstractMap, AbstractCall>>
    <3>1. /\ pc[t] = "loaded" /\ pc' = [pc EXCEPT ![t] = "truncated"]
          /\ UNCHANGED <<store, op, loaded, answer>> /\ (Renames => file' = file)
      BY <2>7 DEF Truncate, Goto
    <3>2. loaded[t] = file.map /\ StoredMap = file.map
      BY <2>1, <2>3, <2>4, <3>1 DEF Holds, Critical
    <3>3. StoredMap' = StoredMap
      BY <1>2, <2>1, <2>2, <3>1, <3>2 DEF Holds
    <3>4. \A u \in Threads : CallOf(u)' = CallOf(u)
      BY <1>2, <2>2, <3>1 DEF CallOf
    <3> QED
      BY <2>1, <3>3, <3>4 DEF AbstractCall
  <2>8. ASSUME NEW t \in Threads, Write(t) PROVE UNCHANGED <<AbstractMap, AbstractCall>> \/ AbstractStep(t)
    <3> DEFINE new == Whole(Effect(op[t], loaded[t]))
    <3>1. pc[t] = "truncated" /\ Target = Truncated /\ UNCHANGED <<store, op, loaded>>
      BY <2>4, <2>8 DEF Write
    <3>2. Over(Truncated, new) = {new} /\ new.map = Effect(op[t], loaded[t])
      BY DEF Over, Truncated, Whole, Content
    <3>3. CASE Renames
      <4>1. pc' = [pc EXCEPT ![t] = "written"] /\ UNCHANGED <<file, answer>>
        BY <2>8, <3>3 DEF Write, Goto
      <4>2. StoredMap' = StoredMap
        BY <1>2, <2>1, <3>3, <4>1 DEF Holds
      <4>3. \A u \in Threads : CallOf(u)' = CallOf(u)
        BY <1>2, <2>2, <3>1, <4>1 DEF CallOf
      <4> QED
        BY <2>1, <4>2, <4>3 DEF AbstractCall
    <3>4. CASE ~Renames
      <4>1. file' = new /\ Finish(t, Answer(op[t], loaded[t]))
        BY <2>8, <3>1, <3>2, <3>4 DEF Write, Target
      <4>2. StoredMap = loaded[t]
        BY <2>1, <3>1, <3>4 DEF Holds
      <4>3. \A u \in Threads : pc'[u] # "truncated"
        BY <2>0, <2>2, <2>3, <3>1, <4>1 DEF Critical
      <4>4. StoredMap' = Effect(op[t], StoredMap)
        BY <2>1, <3>2, <4>1, <4>2, <4>3 DEF Holds
      <4> QED
        BY <2>0, <2>1, <3>1, <4>1, <4>2, <4>4, AbstractSteps
    <3> QED
      BY <3>3, <3>4
  <2>9. ASSUME NEW t \in Threads, WriteFails(t) PROVE AbstractStep(t)
    <3>1. pc[t] = "truncated" /\ Finish(t, Error) /\ UNCHANGED <<store, op>>
      BY <2>9 DEF WriteFails
    <3>2. Renames /\ file' = file
      BY <1>5, <2>9 DEF WriteFails, Promised, Renames, IInv, StoreTypeOK
    <3>3. StoredMap' = StoredMap
      BY <1>2, <2>1, <3>2 DEF Holds
    <3> QED
      BY <2>0, <2>1, <3>1, <3>3, AbstractSteps
  <2>10. ASSUME NEW t \in Threads, Rename(t) PROVE AbstractStep(t)
    <3>1. /\ pc[t] = "written" /\ UNCHANGED <<store, op>>
          /\ Renames /\ tmp = Whole(Effect(op[t], loaded[t])) /\ loaded[t] = file.map
      BY <2>4, <2>10 DEF Rename
    <3>2. tmp # NoFile /\ tmp.map = Effect(op[t], loaded[t])
      BY <3>1 DEF Whole, NoFile, Content
    <3>3. file' = tmp /\ Finish(t, Answer(op[t], loaded[t]))
      BY <2>10, <3>2 DEF Rename
    <3>4. StoredMap = file.map /\ StoredMap' = file'.map
      BY <1>2, <2>1, <3>1 DEF Holds
    <3> QED
      BY <2>0, <2>1, <3>1, <3>2, <3>3, <3>4, AbstractSteps
  <2>11. ASSUME NEW t \in Threads, Return(t) PROVE AbstractStep(t)
    <3>1. /\ pc[t] = "done" /\ pc' = [pc EXCEPT ![t] = "idle"] /\ UNCHANGED <<store, file>>
          /\ answer' = [answer EXCEPT ![t] = Idle] /\ op' = [op EXCEPT ![t] = NoOp]
          /\ \A u \in Threads \ {t} : loaded'[u] = loaded[u]
      BY <2>2, <2>11 DEF Return, Goto
    <3>2. StoredMap' = StoredMap
      BY <1>2, <2>1, <2>2, <3>1 DEF Holds
    <3>3. AbstractCall' = [AbstractCall EXCEPT ![t] = CallOf(t)']
      BY <1>1, <2>2, <3>1, OneCall
    <3>4. CallOf(t) = [op |-> op[t], answer |-> answer[t]] /\ answer[t] # Idle
      BY <1>5, <2>2, <3>1 DEF CallOf
    <3>5. CallOf(t)' = [op |-> NoOp, answer |-> Idle]
      BY <2>2, <3>1 DEF CallOf
    <3> QED
      BY <2>1, <3>2, <3>3, <3>4, <3>5, AbstractSteps
  <2>12. ASSUME NEW p \in Procs, Crash(p) PROVE UNCHANGED <<AbstractMap, AbstractCall>> \/ Abstract!Crash
    <3>1. /\ pc' = [t \in Threads |-> IF ProcOf[t] = p THEN "idle" ELSE pc[t]]
          /\ UNCHANGED <<store, file>>
          /\ \E t \in Threads : ProcOf[t] = p /\ pc[t] # "idle"
          /\ faults < store.faults
      BY <2>12 DEF Crash
    \* Everybody was in the process that died, and nothing fails where the vault is promised.
    <3>2. \A t \in Threads : pc'[t] = "idle"
      BY <1>5, <3>1, OneAtATime
    <3>3. Renames
      BY <1>5, <3>1 DEF Promised, Renames, IInv, StoreTypeOK
    <3>4. StoredMap' = StoredMap
      BY <1>2, <2>1, <3>1, <3>3 DEF Holds
    <3>5. AbstractCall' = [t \in Threads |-> Abstract!Nothing]
      BY <3>2 DEF AbstractCall, CallOf, Abstract!Nothing, Abstract!Called
    <3> QED
      BY <2>1, <3>4, <3>5 DEF Abstract!Crash, AbstractMap, AbstractCall, CallOf
  <2> QED
    BY <1>5, <2>5, <2>6, <2>7, <2>8, <2>9, <2>10, <2>11, <2>12 DEF StoreNext
<1> QED
  BY <1>3, <1>4, <1>5

LEMMA InitAbstract == StoreInit => Abstract!Init
<1> SUFFICES ASSUME StoreInit PROVE Abstract!Init
  OBVIOUS
<1>1. StoredMap = EmptyMap
  BY DEF StoreInit, StoredMap, NoFile, Content
<1> QED
  BY <1>1 DEF StoreInit, Abstract!Init, Abstract!Nothing, Abstract!Called

\* The kv store of one process, and the vault where nothing fails, behave as the
\* atomic store: each step is an operation's one effect, its failure, its call or
\* return, a crash, or nothing that a caller sees.
THEOREM Refinement == StoreSpec => StoreIsAtomic
<1> QED
  BY Invariance, InitAbstract, StepAbstract, PTL DEF StoreSpec, StoreIsAtomic, Abstract!Spec
=============================================================================
