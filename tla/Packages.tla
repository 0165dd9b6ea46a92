------------------------------ MODULE Packages ------------------------------
(***************************************************************************)
(* mx pkg (pkg/pkg.go, cmdPkg in main.go): the manifest locks a commit for *)
(* each import path, mx_modules holds the checkouts.  A command goes over  *)
(* its targets one git call at a time, stops at the first that fails and   *)
(* can be killed between two.  The repositories move on, and a colleague   *)
(* commits another manifest.  A commit belongs to one repository; LocalPath *)
(* drops the host, so repositories of two hosts may share a directory.     *)
(***************************************************************************)
EXTENDS Integers, Sequences, FiniteSets

CONSTANTS Paths,       \* import paths in the order of sort.Strings
          LocalPath,   \* [import path -> directory]
          MaxCommits,  \* commits of one repository
          MaxCommands, Nobody

Repos == {Paths[i] : i \in DOMAIN Paths}
Dirs == {LocalPath[p] : p \in Repos}
Sha(p, n) == [repo |-> p, n |-> n]
NoSha == Sha(Nobody, 0)

ASSUME PackagesAssumption == Paths \in Seq(Repos) /\ Nobody \notin Repos

VARIABLES head,      \* [Repos -> number of the newest commit]
          checkout,  \* [Dirs -> HEAD of the checkout], NoSha if there is none
          manifest,  \* [Repos -> locked commit]; nothing at all before mxpkg.json is there
          command,   \* [name, targets, copy]: what runs, the set of what is left to do, the manifest in memory
          outcome,   \* how the last command ended, and whether a git call failed or it was killed
          commands

pkgVars == <<head, checkout, manifest, command, outcome, commands>>

NoDeps == [p \in Repos |-> NoSha]
Manifest(exists, deps) == [exists |-> exists, deps |-> deps]
NoCommand == [name |-> "none", targets |-> {}, copy |-> NoDeps]
Outcome(name, ok, hurt) == [name |-> name, ok |-> ok, hurt |-> hurt]

PkgInit ==
    /\ head = [p \in Repos |-> 1]
    /\ checkout = [d \in Dirs |-> NoSha]
    /\ manifest = Manifest(FALSE, NoDeps)
    /\ command = NoCommand
    /\ outcome = Outcome("none", TRUE, FALSE)
    /\ commands = 0

Locked(m) == {p \in Repos : m.deps[p] # NoSha}

End(name, ok, hurt) == command' = NoCommand /\ outcome' = Outcome(name, ok, hurt)
Begin(name, targets) ==
    /\ command' = [name |-> name, targets |-> targets, copy |-> manifest.deps]
    /\ UNCHANGED outcome
Prompt == command = NoCommand /\ commands < MaxCommands /\ commands' = commands + 1

InitCommand ==
    /\ Prompt
    /\ manifest' = IF manifest.exists THEN manifest ELSE Manifest(TRUE, NoDeps)
    /\ End("init", TRUE, FALSE)
    /\ UNCHANGED <<head, checkout>>

\* update <path>, update and install need a manifest; update of a path needs its entry.
Command ==
    /\ Prompt
    /\ \/ \E p \in Repos : Begin("add", {p})
       \/ /\ ~manifest.exists
          /\ \E name \in {"remove", "update", "install"} : End(name, FALSE, FALSE)
       \/ /\ manifest.exists
          /\ \/ \E p \in Repos, name \in {"remove", "update"} :
                   IF manifest.deps[p] = NoSha THEN End(name, FALSE, FALSE) ELSE Begin(name, {p})
             \/ \E name \in {"update", "install"} : Begin(name, Locked(manifest))
    /\ UNCHANGED <<head, checkout, manifest>>

Running(name) == command.name = name /\ command.targets # {}

\* The targets are gone over in the order of their import paths.
Turn(i) == Paths[i] \in command.targets /\ \A j \in 1 .. i - 1 : Paths[j] \notin command.targets
Target == Paths[CHOOSE i \in DOMAIN Paths : Turn(i)]
Dir == LocalPath[Target]
Checkout(sha) == checkout' = [checkout EXCEPT ![Dir] = sha]
Done(copy) ==
    /\ command' = [command EXCEPT !.targets = @ \ {Target}, !.copy = copy]
    /\ UNCHANGED outcome

\* Add: what is in the directory is taken as it is.
AddClones ==
    /\ Running("add") /\ checkout[Dir] = NoSha
    /\ Checkout(Sha(Target, head[Target]))
    /\ Done([command.copy EXCEPT ![Target] = Sha(Target, head[Target])])
    /\ UNCHANGED <<head, manifest, commands>>
AddReuses ==
    /\ Running("add") /\ checkout[Dir] # NoSha
    /\ Done([command.copy EXCEPT ![Target] = checkout[Dir]])
    /\ UNCHANGED <<head, checkout, manifest, commands>>

\* Update: git pull --ff-only, which follows the repository that was cloned there.
Pull ==
    /\ Running("update") /\ checkout[Dir] # NoSha
    /\ LET newest == Sha(checkout[Dir].repo, head[checkout[Dir].repo])
       IN  Checkout(newest) /\ Done([command.copy EXCEPT ![Target] = newest])
    /\ UNCHANGED <<head, manifest, commands>>

\* Mutant: any checkout will do.
InstallSkipsAny ==
    /\ Running("install") /\ checkout[Dir] # NoSha
    /\ Done(command.copy)
    /\ UNCHANGED <<head, checkout, manifest, commands>>

\* Install: a checkout at the locked commit is left alone.  Otherwise git clones,
\* which it refuses to do into a directory that is not empty, and resets.
InstallSkips ==
    /\ Running("install") /\ checkout[Dir] = manifest.deps[Target]
    /\ Done(command.copy)
    /\ UNCHANGED <<head, checkout, manifest, commands>>
InstallClones ==
    /\ Running("install") /\ checkout[Dir] = NoSha
    /\ Checkout(Sha(Target, head[Target]))
    /\ command' = [command EXCEPT !.name = "reset"]
    /\ UNCHANGED <<head, manifest, outcome, commands>>
InstallResets ==
    /\ Running("reset")
    /\ IF manifest.deps[Target].repo = Target
       THEN /\ Checkout(manifest.deps[Target])
            /\ command' = [command EXCEPT !.name = "install", !.targets = @ \ {Target}]
            /\ UNCHANGED outcome
       ELSE End("install", FALSE, FALSE) /\ UNCHANGED checkout
    /\ UNCHANGED <<head, manifest, commands>>

\* Commands that cannot go on: a pull without a checkout, a clone over another
\* commit.
Refused ==
    /\ command.targets # {}
    /\ \/ Running("update") /\ checkout[Dir] = NoSha
       \/ Running("install") /\ checkout[Dir] \notin {NoSha, manifest.deps[Target]}
    /\ End(command.name, FALSE, FALSE)
    /\ UNCHANGED <<head, checkout, manifest, commands>>

\* add and update save the manifest at their end.
Save ==
    /\ command.name \in {"add", "update"} /\ command.targets = {}
    /\ manifest' = Manifest(TRUE, command.copy)
    /\ End(command.name, TRUE, FALSE)
    /\ UNCHANGED <<head, checkout, commands>>

\* Remove saves first.
RemoveEntry ==
    /\ Running("remove")
    /\ manifest' = [manifest EXCEPT !.deps[Target] = NoSha]
    /\ command' = [command EXCEPT !.name = "rmdir"]
    /\ UNCHANGED <<head, checkout, outcome, commands>>
RemoveDir ==
    /\ Running("rmdir")
    /\ Checkout(NoSha)
    /\ End("remove", TRUE, FALSE)
    /\ UNCHANGED <<head, manifest, commands>>
InstallEnds ==
    /\ command.name = "install" /\ command.targets = {}
    /\ End("install", TRUE, FALSE)
    /\ UNCHANGED <<head, checkout, manifest, commands>>

\* git cannot reach the repository, or the command is killed between two steps.
Breaks ==
    /\ command # NoCommand
    /\ End(command.name, FALSE, TRUE)
    /\ UNCHANGED <<head, checkout, manifest, commands>>

Commit(p) ==
    /\ head[p] < MaxCommits
    /\ head' = [head EXCEPT ![p] = @ + 1]
    /\ UNCHANGED <<checkout, manifest, command, outcome, commands>>

\* The project's own git pull brings a manifest that a colleague's add or update
\* has made.
NewManifest ==
    /\ command = NoCommand /\ manifest.exists
    /\ \E p \in Repos : manifest' = [manifest EXCEPT !.deps[p] = Sha(p, head[p])]
    /\ outcome' = Outcome("pull", TRUE, FALSE)
    /\ UNCHANGED <<head, checkout, command, commands>>

PkgNext ==
    \/ InitCommand \/ Command
    \/ AddClones \/ AddReuses \/ Pull \/ InstallSkips \/ InstallClones \/ InstallResets \/ Refused
    \/ Save \/ RemoveEntry \/ RemoveDir \/ InstallEnds
    \/ Breaks
    \/ \E p \in Repos : Commit(p)
    \/ NewManifest

PkgSpec == PkgInit /\ [][PkgNext]_pkgVars

-----------------------------------------------------------------------------
(* Properties *)

Shared(p) == \E q \in Repos \ {p} : LocalPath[q] = LocalPath[p]

\* The lock means what pkg.go says ("captures everything we need to reproduce an
\* install"): after an install that ends well every dependency is checked out at its
\* locked commit, even of repositories that share a directory, whatever was cut off
\* or killed before.  A locked commit is one of its own repository, unless another
\* shares the directory.
LockHolds ==
    LET Matches(p) == manifest.deps[p] = NoSha \/ checkout[LocalPath[p]] = manifest.deps[p]
    IN  /\ outcome.name = "install" /\ outcome.ok /\ command = NoCommand => \A p \in Repos : Matches(p)
        /\ \A p \in Repos : Shared(p) \/ manifest.deps[p] = NoSha \/ manifest.deps[p].repo = p

\* "Install ensures every manifest dependency is present on disk.": one that was
\* neither cut off nor killed ends well.
InstallEnsures == outcome.name = "install" /\ manifest.exists => outcome.ok \/ outcome.hurt
=============================================================================
