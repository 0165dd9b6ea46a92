----------------------------- MODULE FileStore -----------------------------
(***************************************************************************)
(* The three stores that live in one JSON file: kv_* (builtins.go), the    *)
(* vault (vault.go) and the snapshots of assert_snapshot (snapshot.go).    *)
(* Every operation reads the whole file and, if it changes something,      *)
(* writes all of it: kv and snapshots to path.tmp, which is then renamed,  *)
(* the vault in place.  kv and vault hold a mutex of their process, the    *)
(* snapshots none.  Processes crash, disks fill up, and several processes  *)
(* share a path and so its tmp file.                                       *)
(***************************************************************************)
EXTENDS Integers, FiniteSets

CONSTANTS Threads, Procs,
          ProcOf,      \* [Threads -> Procs]
          Keys, Values, Null,
          Idle, Error, \* no answer yet; an operation that failed
          StoreCasts,  \* [kind, threads, crashes]: the store, the threads that use it, and
                       \* how often a process may crash or find the disk full
          MaxCalls     \* operations of one thread

\* What marks a call that has not answered is no answer, and a thread is somebody.
ASSUME StoreAssumption ==
    /\ ProcOf \in [Threads -> Procs]
    /\ Null \notin Threads /\ Null \notin Values
    /\ Idle \notin Values \cup {Null, Error} /\ Idle # TRUE /\ Idle # FALSE
    /\ \A S \in SUBSET Keys : Idle # S
    /\ \A s \in StoreCasts : /\ s.kind \in {"kv", "vault", "snapshot"}
                             /\ s.threads \subseteq Threads
                             /\ s.faults \in Nat

VARIABLES store,    \* the member of StoreCasts
          file, tmp,
          mutex,    \* [Procs -> thread that holds kvLock or vaultMu]
          pc, op, loaded, answer,  \* [Threads -> ...]: one operation each
          calls,    \* [Threads -> number of operations begun]
          faults,   \* crashes and full disks so far
          harmed    \* history: a save was cut in place, or two processes saved at once

storeVars == <<store, file, tmp, mutex, pc, op, loaded, answer, calls, faults, harmed>>

Kind == store.kind
Locks   == Kind \in {"kv", "vault"}
Renames == Kind \in {"kv", "snapshot"}

EmptyMap == [k \in Keys |-> Null]

\* Contents of a file: what is read from it, and whether it can be.
Content(state, map) == [state |-> state, map |-> map]
NoFile    == Content("none", EmptyMap)
Truncated == Content("empty", EmptyMap)
Torn      == Content("torn", EmptyMap)
Whole(map) == Content("whole", map)

\* loadKV, vaultLoad, loadSnapshotFile: no file is an empty store.  So is an empty
\* file, but for the vault.
Readable(f) == f.state \in {"none", "whole"} \/ (f.state = "empty" /\ Kind # "vault")

Op(name, k, v) == [name |-> name, key |-> k, value |-> v]
Names == [ kv       |-> {"get", "set", "delete", "keys", "clear"},
           vault    |-> {"get", "set", "delete", "keys"},
           snapshot |-> {"assert", "update"} ]
NoOp == Op("none", Null, Null)
HasKey(name)   == name \notin {"keys", "clear"}
HasValue(name) == name \in {"set", "assert", "update"}
OperationsOf(kind) ==
    { Op(name, k, v) : name \in {n \in Names[kind] : HasKey(n) /\ HasValue(n)}, k \in Keys, v \in Values }
    \cup { Op(name, k, Null) : name \in {n \in Names[kind] : HasKey(n) /\ ~HasValue(n)}, k \in Keys }
    \cup { Op(name, Null, Null) : name \in {n \in Names[kind] : ~HasKey(n)} }

\* What an operation does to the map, and what it returns.
Effect(o, map) ==
    CASE o.name \in {"set", "update"} -> [map EXCEPT ![o.key] = o.value]
      [] o.name = "assert" -> [map EXCEPT ![o.key] = IF @ = Null THEN o.value ELSE @]
      [] o.name = "delete" -> [map EXCEPT ![o.key] = Null]
      [] o.name = "clear"  -> EmptyMap
      [] OTHER -> map
Answer(o, map) ==
    CASE o.name = "get"    -> map[o.key]
      [] o.name = "keys"   -> {k \in Keys : map[k] # Null}
      [] o.name = "delete" -> map[o.key] # Null
      [] o.name = "assert" -> map[o.key] \in {Null, o.value}
      [] OTHER -> o.value

\* kv_delete of a missing key and an assert that finds a value do not save.
Saves(o, map) ==
    CASE o.name \in {"get", "keys"} -> FALSE
      [] o.name = "assert" -> map[o.key] = Null
      [] o.name = "delete" -> Kind = "vault" \/ map[o.key] # Null
      [] OTHER -> TRUE

StoreInit ==
    /\ store \in StoreCasts
    /\ file = NoFile /\ tmp = NoFile
    /\ mutex = [p \in Procs |-> Null]
    /\ pc = [t \in Threads |-> "idle"]
    /\ op = [t \in Threads |-> NoOp]
    /\ loaded = [t \in Threads |-> EmptyMap]
    /\ answer = [t \in Threads |-> Idle]
    /\ calls = [t \in Threads |-> 0]
    /\ faults = 0 /\ harmed = FALSE

Goto(t, at) == pc' = [pc EXCEPT ![t] = at]
Unlock(t) == mutex' = [mutex EXCEPT ![ProcOf[t]] = IF @ = t THEN Null ELSE @]
Finish(t, a) == Goto(t, "done") /\ answer' = [answer EXCEPT ![t] = a] /\ Unlock(t)

Call(t) ==
    /\ pc[t] = "idle" /\ t \in store.threads /\ calls[t] < MaxCalls
    /\ \E o \in OperationsOf(Kind) : op' = [op EXCEPT ![t] = o]
    /\ calls' = [calls EXCEPT ![t] = @ + 1]
    /\ Goto(t, "called")
    /\ UNCHANGED <<store, file, tmp, mutex, loaded, answer, faults, harmed>>

\* The lock, and the file.  kv_clear does not read it.
Load(t) ==
    /\ pc[t] = "called"
    /\ Locks => mutex[ProcOf[t]] = Null
    /\ IF op[t].name # "clear" /\ ~Readable(file)
       THEN Finish(t, Error) /\ UNCHANGED loaded
       ELSE IF ~Saves(op[t], file.map)
       THEN Finish(t, Answer(op[t], file.map)) /\ UNCHANGED loaded
       ELSE /\ loaded' = [loaded EXCEPT ![t] = file.map]
            /\ mutex' = [mutex EXCEPT ![ProcOf[t]] = IF Locks THEN t ELSE @]
            /\ Goto(t, "loaded") /\ UNCHANGED answer
    /\ UNCHANGED <<store, file, tmp, op, calls, faults, harmed>>

\* os.WriteFile: opened and truncated, then written.
Saving == {t \in Threads : pc[t] \in {"truncated", "written"}}
\* Mutant: the mutex is let go before the file is written.
TruncateUnlocked(t) ==
    /\ pc[t] = "loaded"
    /\ IF Renames THEN tmp' = Truncated /\ UNCHANGED file ELSE file' = Truncated /\ UNCHANGED tmp
    /\ harmed' = (harmed \/ Saving # {})
    /\ Goto(t, "truncated") /\ Unlock(t)
    /\ UNCHANGED <<store, op, loaded, answer, calls, faults>>
Truncate(t) ==
    /\ pc[t] = "loaded"
    /\ IF Renames THEN tmp' = Truncated /\ UNCHANGED file ELSE file' = Truncated /\ UNCHANGED tmp
    /\ harmed' = (harmed \/ Saving # {})
    /\ Goto(t, "truncated")
    /\ UNCHANGED <<store, mutex, op, loaded, answer, calls, faults>>

\* Over the bytes of another, of another length, the rest of those remains.
Over(old, new) == IF old.state \in {"empty", "none"} \/ old = new THEN {new} ELSE {new, Torn}
Write(t) ==
    /\ pc[t] = "truncated"
    /\ LET new == Whole(Effect(op[t], loaded[t]))
       IN  IF Renames
           THEN \E c \in Over(tmp, new) : tmp' = c /\ Goto(t, "written") /\ UNCHANGED <<file, answer, mutex>>
           ELSE \E c \in Over(file, new) : file' = c /\ Finish(t, Answer(op[t], loaded[t])) /\ UNCHANGED tmp
    /\ UNCHANGED <<store, op, loaded, calls, faults, harmed>>

\* Mutant: the error of os.WriteFile is not looked at.
WriteFailsUnnoticed(t) ==
    /\ pc[t] = "truncated" /\ faults < store.faults
    /\ faults' = faults + 1
    /\ IF Renames THEN tmp' = Torn /\ UNCHANGED file ELSE file' = Torn /\ UNCHANGED tmp
    /\ harmed' = (harmed \/ ~Renames)
    /\ IF Renames THEN Goto(t, "written") /\ UNCHANGED <<answer, mutex>> ELSE Finish(t, Error)
    /\ UNCHANGED <<store, op, loaded, calls>>

\* The disk is full: what could be written stays there.
WriteFails(t) ==
    /\ pc[t] = "truncated" /\ faults < store.faults
    /\ faults' = faults + 1
    /\ IF Renames THEN tmp' = Torn /\ UNCHANGED file ELSE file' = Torn /\ UNCHANGED tmp
    /\ harmed' = (harmed \/ ~Renames)
    /\ Finish(t, Error)
    /\ UNCHANGED <<store, op, loaded, calls>>

\* os.Rename: another process may have taken the tmp file away.
Rename(t) ==
    /\ pc[t] = "written"
    /\ IF tmp = NoFile THEN Finish(t, Error) /\ UNCHANGED <<file, tmp>>
       ELSE file' = tmp /\ tmp' = NoFile /\ Finish(t, Answer(op[t], loaded[t]))
    /\ UNCHANGED <<store, op, loaded, calls, faults, harmed>>

Return(t) ==
    /\ pc[t] = "done"
    /\ Goto(t, "idle")
    /\ answer' = [answer EXCEPT ![t] = Idle]
    /\ op' = [op EXCEPT ![t] = NoOp]
    /\ loaded' = [loaded EXCEPT ![t] = EmptyMap]
    /\ UNCHANGED <<store, file, tmp, mutex, calls, faults, harmed>>

\* A process dies and is started again.
Crash(p) ==
    /\ faults < store.faults
    /\ LET mine == {t \in Threads : ProcOf[t] = p}
       IN  /\ \E t \in mine : pc[t] # "idle"
           /\ harmed' = (harmed \/ (~Renames /\ \E t \in mine : pc[t] = "truncated"))
           /\ pc' = [t \in Threads |-> IF t \in mine THEN "idle" ELSE pc[t]]
           /\ op' = [t \in Threads |-> IF t \in mine THEN NoOp ELSE op[t]]
           /\ loaded' = [t \in Threads |-> IF t \in mine THEN EmptyMap ELSE loaded[t]]
           /\ answer' = [t \in Threads |-> IF t \in mine THEN Idle ELSE answer[t]]
    /\ mutex' = [mutex EXCEPT ![p] = Null]
    /\ faults' = faults + 1
    /\ UNCHANGED <<store, file, tmp, calls>>

StoreNext ==
    \/ \E t \in Threads : Call(t) \/ Load(t) \/ Truncate(t) \/ Write(t) \/ WriteFails(t) \/ Rename(t) \/ Return(t)
    \/ \E p \in Procs : Crash(p)

StoreSpec == StoreInit /\ [][StoreNext]_storeVars

-----------------------------------------------------------------------------
(* Properties *)

\* A file that can no longer be read has a reason that the code does not guard
\* against: a crash or a full disk in the middle of the vault's save, which is in
\* place, or two saves at once through the same tmp file.  kv and the snapshots
\* of one process at a time survive every crash and every full disk.
Legible ==
    ~harmed => Readable(file) \/ \E t \in Threads : pc[t] = "truncated" /\ ~Renames

\* kv_* in one process, and the vault as long as nothing fails, are the atomic
\* store of AtomicStore: operations of all goroutines take effect one by one, at
\* the rename (or the end of the write), and a crash or a full disk loses only
\* calls that had not returned.
Alone == \A s, t \in store.threads : ProcOf[s] = ProcOf[t]
Promised == Alone /\ (Kind = "kv" \/ (Kind = "vault" /\ store.faults = 0))
StoredMap ==
    IF \E t \in Threads : pc[t] = "truncated" /\ ~Renames
    THEN loaded[CHOOSE t \in Threads : pc[t] = "truncated"] ELSE file.map
Abstract ==
    INSTANCE AtomicStore WITH
        Callers <- Threads, Operations <- OperationsOf("kv"), Empty <- EmptyMap,
        map  <- IF Promised THEN StoredMap ELSE EmptyMap,
        call <- [t \in Threads |->
                   IF ~Promised \/ pc[t] = "idle" THEN [op |-> NoOp, answer |-> Idle]
                   ELSE [op |-> op[t], answer |-> answer[t]]]
StoreIsAtomic == Abstract!Spec
=============================================================================
