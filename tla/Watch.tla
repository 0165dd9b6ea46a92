------------------------------- MODULE Watch -------------------------------
(***************************************************************************)
(* mx run --watch, mx watch and mx test --watch (main.go): one process     *)
(* polls a hash of the .mx files and runs a child that reads them.  The    *)
(* first two kill the child and start another on a change; the third       *)
(* starts one and waits for it to end.  Files are saved at any moment.     *)
(***************************************************************************)
EXTENDS Integers, Sequences, FiniteSets

CONSTANTS Behaviours,  \* what a version of the program does: "serves", "ends", "hangs"
          MaxSaves

VARIABLES mode,      \* "restart" (run, watch) or "wait" (test)
          disk,      \* the versions saved, in order: the last is on disk
          seen,      \* the version lastHash stands for; 0 is the zero hash
          watcher,   \* the step of the polling loop
          children,  \* the children, in order: [version, state]
          port       \* the child that listens; 0 when nobody does

watchVars == <<mode, disk, seen, watcher, children, port>>

Saved  == Len(disk)
Latest == Len(children)
Living  == {c \in DOMAIN children : children[c].state \in {"starting", "working", "killed"}}

\* run and watch start a child before they poll, test --watch polls first.
WatchInit ==
    /\ mode \in {"restart", "wait"}
    /\ disk \in {<<b>> : b \in Behaviours}
    /\ seen = 0
    /\ watcher = IF mode = "restart" THEN "launch" ELSE "poll"
    /\ children = <<>> /\ port = 0

Save(b) ==
    /\ Saved <= MaxSaves
    /\ disk' = Append(disk, b)
    /\ UNCHANGED <<mode, seen, watcher, children, port>>

-----------------------------------------------------------------------------
(* The watcher *)

Goto(step) == watcher' = step

\* dirHash names every .mx file with its size and time: each save changes it.
Poll ==
    /\ watcher = "poll"
    /\ IF seen = Saved
       THEN UNCHANGED <<seen, watcher>>
       ELSE seen' = Saved /\ Goto(IF mode = "restart" THEN "kill" ELSE "launch")
    /\ UNCHANGED <<mode, disk, children, port>>

\* Kill of a child that has ended is an error that is ignored.
Kill ==
    /\ watcher = "kill"
    /\ children' = IF Latest \in Living THEN [children EXCEPT ![Latest].state = "killed"] ELSE children
    /\ Goto("reap")
    /\ UNCHANGED <<mode, disk, seen, port>>

\* Mutant: the hash is taken again when a child has ended.
ReapRehashed ==
    /\ watcher = "reap"
    /\ Latest \notin Living
    /\ Goto(IF mode = "restart" THEN "launch" ELSE "poll")
    /\ seen' = Saved
    /\ UNCHANGED <<mode, disk, children, port>>

\* Process.Wait of a restart, Run of a test.
Reap ==
    /\ watcher = "reap"
    /\ Latest \notin Living
    /\ Goto(IF mode = "restart" THEN "launch" ELSE "poll")
    /\ UNCHANGED <<mode, disk, seen, children, port>>

\* A process that cannot be started has ended before it read anything; the hash that led
\* to it stays recorded.
Launch ==
    /\ watcher = "launch"
    /\ \E state \in {"starting", "ended"} : children' = Append(children, [version |-> 0, state |-> state])
    /\ Goto(IF mode = "restart" THEN "poll" ELSE "reap")
    /\ UNCHANGED <<mode, disk, seen, port>>

-----------------------------------------------------------------------------
(* A child *)

\* runOnce reads the file when the child gets to it; a program that serves then binds
\* the port, and fails when it is taken.
Read(c) ==
    /\ children[c].state = "starting"
    /\ LET serves == disk[Saved] = "serves" /\ mode = "restart"
       IN  /\ children' = [children EXCEPT ![c] =
                 [version |-> Saved, state |-> IF serves /\ port # 0 THEN "refused" ELSE "working"]]
           /\ port' = IF serves /\ port = 0 THEN c ELSE port
    /\ UNCHANGED <<mode, disk, seen, watcher>>

\* A test run ends, and so does a script, unless it hangs.
Ends(c) ==
    /\ children[c].state = "working"
    /\ \/ disk[children[c].version] = "ends"
       \/ disk[children[c].version] = "serves" /\ mode = "wait"
    /\ children' = [children EXCEPT ![c].state = "ended"]
    /\ UNCHANGED <<mode, disk, seen, watcher, port>>

Dies(c) ==
    /\ children[c].state = "killed"
    /\ children' = [children EXCEPT ![c].state = "ended"]
    /\ port' = IF port = c THEN 0 ELSE port
    /\ UNCHANGED <<mode, disk, seen, watcher>>

WatcherStep == Poll \/ Kill \/ Reap \/ Launch
ChildStep == \E c \in DOMAIN children : Read(c) \/ Ends(c) \/ Dies(c)

WatchNext == (\E b \in Behaviours : Save(b)) \/ WatcherStep \/ ChildStep

WatchSpec == WatchInit /\ [][WatchNext]_watchVars

-----------------------------------------------------------------------------
(* Properties *)

\* The version of the last child is the one on disk.
UpToDate == Latest > 0 /\ children[Latest].version = Saved

\* The last launch failed, and nothing has been saved since that would lead to another.
NeverStarted == Latest > 0 /\ children[Latest] = [version |-> 0, state |-> "ended"] /\ seen = Saved

\* Whatever is saved, and whenever, the last version ends up running, or was the last
\* to run, unless its process could not be started, which is not tried again (main.go:480);
\* with mx test --watch only when no version before it hangs, for the watcher waits for
\* its child (main.go:1382 says that a hung test "doesn't poison the watcher").
LastSaveRuns ==
    \/ <>[]UpToDate
    \/ <>[]NeverStarted
    \/ mode = "wait" /\ <>(\E k \in DOMAIN disk : disk[k] = "hangs")

\* A new server never finds the port taken by the one it replaces, and no two children
\* live at once.
OneChild ==
    /\ Cardinality(Living) <= 1
    /\ \A c \in DOMAIN children : children[c].state # "refused"

\* mx keeps one child, and it ends up with what was saved last.
WatchFollows == []OneChild /\ LastSaveRuns
=============================================================================
