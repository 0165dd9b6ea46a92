--------------------------- MODULE PackagesProofs ---------------------------
(***************************************************************************)
(* Proofs about Packages, for any import paths, directories they share,    *)
(* commits and commands.                                                   *)
(***************************************************************************)
EXTENDS Packages, WellFoundedInduction, TLAPS

Commits == [repo : Repos, n : Nat]
Deps == [Repos -> Commits \cup {NoSha}]

PkgTypeOK ==
    /\ head \in [Repos -> Nat]
    /\ checkout \in [Dirs -> Commits \cup {NoSha}]
    /\ manifest \in [exists : BOOLEAN, deps : Deps]
    /\ command \in [ name : {"none", "add", "remove", "rmdir", "update", "install", "reset"},
                     targets : SUBSET Repos, copy : Deps ]
    /\ outcome \in [ name : {"none", "init", "add", "remove", "rmdir", "update", "install", "reset", "pull"},
                     ok : BOOLEAN, hurt : BOOLEAN ]

\* A commit is one of p's own repository, unless another shares p's directory.
IsOf(p, sha) == Shared(p) \/ sha = NoSha \/ sha.repo = p
Owned ==
    \A p \in Repos :
        IsOf(p, manifest.deps[p]) /\ IsOf(p, command.copy[p]) /\ IsOf(p, checkout[LocalPath[p]])

\* The inductive form of LockHolds: what an install has gone over is checked out, and
\* what it has cloned and not reset is in a directory of its own.
Matches(p) == manifest.deps[p] = NoSha \/ checkout[LocalPath[p]] = manifest.deps[p]
Installed ==
    /\ command.name \in {"install", "reset"} => \A p \in Repos \ command.targets : Matches(p)
    /\ command.name = "reset" => \A p \in Repos \ command.targets : LocalPath[p] = Dir => manifest.deps[p] = NoSha
    /\ outcome.name = "install" /\ outcome.ok /\ command = NoCommand => \A p \in Repos : Matches(p)

IInv == PkgTypeOK /\ Owned /\ Installed

-----------------------------------------------------------------------------
(* Targets *)

LEMMA LeastIndex ==
  ASSUME NEW S \in SUBSET Nat, S # {}
  PROVE  \E i \in S : \A j \in S : i <= j
<1>1. PICK i \in S : \A j \in S : ~ (<<j, i>> \in OpToRel(<, Nat))
  BY NatLessThanWellFounded, WFMin, Zenon
<1>2. ASSUME NEW j \in S PROVE i <= j
  <2>1. <<j, i>> \notin OpToRel(<, Nat)
    BY <1>1, Zenon
  <2>2. <<j, i>> \in Nat \X Nat
    OBVIOUS
  <2>3. ~ (j < i)
    BY <2>1, <2>2, Zenon DEF OpToRel
  <2> QED
    BY <2>3
<1> QED
  BY <1>2

\* The next target is one of them.
LEMMA TargetOK ==
  ASSUME command.targets \subseteq Repos, command.targets # {}
  PROVE  Target \in command.targets
<1> DEFINE S == {i \in DOMAIN Paths : Paths[i] \in command.targets}
<1>1. Paths \in Seq(Repos)
  BY PackagesAssumption
<1>2. DOMAIN Paths = 1 .. Len(Paths) /\ Len(Paths) \in Nat
  BY <1>1
<1>3. S \in SUBSET Nat /\ S # {}
  BY <1>2 DEF Repos
<1>4. PICK i \in S : \A j \in S : i <= j
  <2> HIDE DEF S
  <2> QED
    BY <1>3, LeastIndex
<1>5. Turn(i)
  BY <1>2, <1>4 DEF Turn
<1>6. \E k \in DOMAIN Paths : Turn(k)
  BY <1>4, <1>5
<1>7. Turn(CHOOSE k \in DOMAIN Paths : Turn(k))
  BY <1>6
<1> QED
  BY <1>7 DEF Target, Turn
-----------------------------------------------------------------------------
(* The invariant *)

LEMMA Shas ==
  /\ NoSha \notin Commits
  /\ \A p \in Repos, n \in Nat : Sha(p, n) \in Commits /\ Sha(p, n).repo = p
  /\ NoDeps \in Deps /\ \A p \in Repos : NoDeps[p] = NoSha
  /\ NoCommand.name = "none" /\ NoCommand.copy = NoDeps /\ NoCommand.targets = {}
<1>1. NoSha \notin Commits
  BY PackagesAssumption DEF NoSha, Sha, Commits
<1> QED
  BY <1>1 DEF NoSha, Sha, Commits, NoDeps, Deps, NoCommand

LEMMA InitIInv == PkgInit => IInv
<1> SUFFICES ASSUME PkgInit PROVE IInv
  OBVIOUS
<1>1. PkgTypeOK
  BY Shas DEF PkgInit, PkgTypeOK, Manifest, NoCommand, Outcome
<1>2. Owned
  <2>1. \A p \in Repos : LocalPath[p] \in Dirs
    BY DEF Dirs
  <2> QED
    BY <2>1, Shas DEF PkgInit, Owned, IsOf, Manifest
<1>3. Installed
  BY Shas DEF PkgInit, Installed, Outcome
<1> QED
  BY <1>1, <1>2, <1>3 DEF IInv

\* The end of a command, whose outcome may only be called good when it is not an
\* install or everything is checked out.
LEMMA EndKeeps ==
  ASSUME IInv, NEW name \in {"none", "init", "add", "remove", "rmdir", "update", "install", "reset"},
         NEW ok \in BOOLEAN, NEW hurt \in BOOLEAN, End(name, ok, hurt),
         head' = head, manifest' \in [exists : BOOLEAN, deps : Deps],
         checkout' \in [Dirs -> Commits \cup {NoSha}],
         \A p \in Repos : IsOf(p, manifest'.deps[p]) /\ IsOf(p, checkout'[LocalPath[p]]),
         name = "install" /\ ok => \A p \in Repos : Matches(p)'
  PROVE  IInv'
<1>1. command' = NoCommand /\ outcome' = [name |-> name, ok |-> ok, hurt |-> hurt]
  BY DEF End, Outcome
<1>2. PkgTypeOK'
  BY <1>1, Shas DEF IInv, PkgTypeOK, NoCommand
<1>3. Owned'
  BY <1>1, Shas DEF Owned, IsOf
<1>4. Installed'
  BY <1>1, Shas DEF Installed
<1> QED
  BY <1>2, <1>3, <1>4 DEF IInv

LEMMA StepIInv == IInv /\ [PkgNext]_pkgVars => IInv'
<1> SUFFICES ASSUME IInv, [PkgNext]_pkgVars PROVE IInv'
  OBVIOUS
<1>1. PkgTypeOK /\ Owned /\ Installed
  BY DEF IInv
<1>2. /\ head \in [Repos -> Nat] /\ checkout \in [Dirs -> Commits \cup {NoSha}]
      /\ manifest \in [exists : BOOLEAN, deps : Deps]
      /\ \A p \in Repos : LocalPath[p] \in Dirs
  BY <1>1 DEF PkgTypeOK, Dirs
\* A target that is done with.
<1>0. ASSUME NEW copy \in Deps, Done(copy), command.targets # {}, UNCHANGED <<head, manifest>>,
             command.name \in {"add", "update", "install"},
             checkout' \in [Dirs -> Commits \cup {NoSha}],
             \A p \in Repos : IsOf(p, copy[p]) /\ IsOf(p, checkout'[LocalPath[p]]),
             command.name = "install" => \A p \in (Repos \ command.targets) \cup {Target} : Matches(p)'
      PROVE  IInv'
  <2>1. command' = [command EXCEPT !.targets = @ \ {Target}, !.copy = copy] /\ outcome' = outcome
    BY <1>0 DEF Done
  <2>2. command'.name = command.name /\ command'.targets = command.targets \ {Target} /\ command'.copy = copy
    BY <1>1, <2>1 DEF PkgTypeOK
  <2>3. command' # NoCommand
    BY <1>0, <2>2, Shas
  <2>4. PkgTypeOK'
    BY <1>0, <1>1, <2>1 DEF PkgTypeOK
  <2>5. Owned'
    BY <1>0, <1>1, <2>2 DEF Owned, IsOf
  <2>6. Installed'
    BY <1>0, <2>2, <2>3 DEF Installed
  <2> QED
    BY <2>4, <2>5, <2>6 DEF IInv
<1>3. CASE InitCommand
  <2>1. manifest' \in [exists : BOOLEAN, deps : Deps] /\ UNCHANGED <<head, checkout>> /\ End("init", TRUE, FALSE)
    BY <1>2, <1>3, Shas DEF InitCommand, Manifest
  <2>2. \A p \in Repos : manifest'.deps[p] \in {manifest.deps[p], NoSha}
    BY <1>3, Shas DEF InitCommand, Manifest
  <2>3. \A p \in Repos : IsOf(p, manifest'.deps[p]) /\ IsOf(p, checkout'[LocalPath[p]])
    BY <1>1, <2>1, <2>2 DEF Owned, IsOf
  <2> QED
    BY <1>2, <2>1, <2>3, EndKeeps
<1>4. CASE Command
  <2>1. UNCHANGED <<head, checkout, manifest>>
    BY <1>4 DEF Command
  <2>2. ASSUME NEW name \in {"remove", "update", "install"}, End(name, FALSE, FALSE) PROVE IInv'
    BY <1>1, <1>2, <2>1, <2>2, EndKeeps DEF Owned
  <2>3. ASSUME NEW name \in {"add", "remove", "update", "install"}, NEW targets \in SUBSET Repos, Begin(name, targets),
               name = "install" => targets = Locked(manifest)
        PROVE  IInv'
    <3>1. command' = [name |-> name, targets |-> targets, copy |-> manifest.deps] /\ outcome' = outcome
      BY <2>3 DEF Begin
    <3>2. PkgTypeOK'
      BY <1>1, <1>2, <2>1, <3>1 DEF PkgTypeOK
    <3>3. Owned'
      BY <1>1, <2>1, <3>1 DEF Owned, IsOf
    <3>4. command' # NoCommand
      BY <3>1, Shas
    <3>5. name = "install" => \A p \in Repos \ targets : Matches(p)'
      BY <2>1, <2>3 DEF Locked, Matches
    <3>6. Installed'
      BY <3>1, <3>4, <3>5 DEF Installed, NoCommand
    <3> QED
      BY <3>2, <3>3, <3>6 DEF IInv
  <2>4. \A p \in Repos : {p} \in SUBSET Repos
    OBVIOUS
  <2>5. Locked(manifest) \in SUBSET Repos
    BY DEF Locked
  <2> QED
    BY <1>4, <2>2, <2>3, <2>4, <2>5 DEF Command
<1>5. CASE AddClones
  <2>1. Target \in Repos /\ Dir \in Dirs /\ command.targets # {} /\ command.name = "add"
    BY <1>1, <1>2, <1>5, TargetOK DEF AddClones, Running, Dir, PkgTypeOK
  <2> DEFINE new == Sha(Target, head[Target])
             copy == [command.copy EXCEPT ![Target] = new]
  <2>2. new \in Commits /\ new.repo = Target
    BY <1>2, <2>1, Shas
  <2>3. checkout' = [checkout EXCEPT ![Dir] = new] /\ Done(copy) /\ UNCHANGED <<head, manifest>>
    BY <1>5 DEF AddClones, Checkout
  <2>4. copy \in Deps /\ checkout' \in [Dirs -> Commits \cup {NoSha}]
    BY <1>1, <1>2, <2>2, <2>3 DEF PkgTypeOK, Deps
  <2>5. ASSUME NEW p \in Repos PROVE IsOf(p, copy[p]) /\ IsOf(p, checkout'[LocalPath[p]])
    BY <1>1, <1>2, <2>1, <2>2, <2>3 DEF Owned, IsOf, Shared, Dir, PkgTypeOK, Deps
  <2> QED
    BY <1>0, <2>1, <2>3, <2>4, <2>5
<1>6. CASE AddReuses
  <2>1. Target \in Repos /\ Dir \in Dirs /\ command.targets # {} /\ command.name = "add"
    BY <1>1, <1>2, <1>6, TargetOK DEF AddReuses, Running, Dir, PkgTypeOK
  <2> DEFINE copy == [command.copy EXCEPT ![Target] = checkout[Dir]]
  <2>2. Done(copy) /\ UNCHANGED <<head, checkout, manifest>>
    BY <1>6 DEF AddReuses
  <2>3. copy \in Deps
    BY <1>1, <1>2, <2>1 DEF PkgTypeOK, Deps
  <2>4. ASSUME NEW p \in Repos PROVE IsOf(p, copy[p])
    BY <1>1, <2>1 DEF Owned, IsOf, Dir, PkgTypeOK, Deps
  <2> QED
    BY <1>0, <1>1, <1>2, <2>1, <2>2, <2>3, <2>4 DEF Owned
<1>7. CASE Pull
  <2>1. Target \in Repos /\ Dir \in Dirs /\ command.targets # {} /\ command.name = "update"
    BY <1>1, <1>2, <1>7, TargetOK DEF Pull, Running, Dir, PkgTypeOK
  <2>2. checkout[Dir] \in Commits /\ checkout[Dir].repo \in Repos
    BY <1>2, <1>7, <2>1 DEF Pull, Commits
  <2> DEFINE newest == Sha(checkout[Dir].repo, head[checkout[Dir].repo])
             copy == [command.copy EXCEPT ![Target] = newest]
  <2>3. newest \in Commits /\ newest.repo = checkout[Dir].repo
    BY <1>2, <2>2, Shas
  <2>4. checkout' = [checkout EXCEPT ![Dir] = newest] /\ Done(copy) /\ UNCHANGED <<head, manifest>>
    BY <1>7 DEF Pull, Checkout
  <2>5. copy \in Deps /\ checkout' \in [Dirs -> Commits \cup {NoSha}]
    BY <1>1, <1>2, <2>3, <2>4 DEF PkgTypeOK, Deps
  <2>6. \A p \in Repos : LocalPath[p] = Dir => IsOf(p, newest)
    BY <1>1, <2>2, <2>3, Shas DEF Owned, IsOf
  <2>7. ASSUME NEW p \in Repos PROVE IsOf(p, copy[p]) /\ IsOf(p, checkout'[LocalPath[p]])
    BY <1>1, <1>2, <2>1, <2>4, <2>6 DEF Owned, Dir, PkgTypeOK, Deps
  <2> QED
    BY <1>0, <2>1, <2>4, <2>5, <2>7
<1>8. CASE InstallSkips
  <2>1. Target \in Repos /\ command.targets # {} /\ command.name = "install"
    BY <1>1, <1>8, TargetOK DEF InstallSkips, Running, PkgTypeOK
  <2>2. checkout[LocalPath[Target]] = manifest.deps[Target] /\ UNCHANGED <<head, checkout, manifest>> /\ Done(command.copy)
    BY <1>8 DEF InstallSkips, Dir
  <2>3. \A p \in (Repos \ command.targets) \cup {Target} : Matches(p)'
    BY <1>1, <2>1, <2>2 DEF Installed, Matches
  <2>4. command.copy \in Deps
    BY <1>1 DEF PkgTypeOK
  <2> QED
    BY <1>0, <1>1, <1>2, <2>1, <2>2, <2>3, <2>4 DEF Owned
<1>9. CASE InstallClones
  <2> DEFINE new == Sha(Target, head[Target])
  <2>1. /\ Target \in Repos /\ Dir \in Dirs /\ command.targets # {} /\ command.name = "install"
        /\ checkout[Dir] = NoSha /\ UNCHANGED <<head, manifest, outcome>>
        /\ checkout' = [checkout EXCEPT ![Dir] = new] /\ command' = [command EXCEPT !.name = "reset"]
    BY <1>1, <1>2, <1>9, TargetOK DEF InstallClones, Running, Dir, Checkout, PkgTypeOK
  <2>2. new \in Commits /\ new.repo = Target
    BY <1>2, <2>1, Shas
  <2>3. command'.name = "reset" /\ command'.targets = command.targets /\ command'.copy = command.copy
    BY <1>1, <2>1 DEF PkgTypeOK
  <2>4. command' # NoCommand /\ Dir' = Dir
    BY <2>3, Shas DEF Dir, Target, Turn
  <2>5. PkgTypeOK'
    BY <1>1, <1>2, <2>1, <2>2 DEF PkgTypeOK
  <2>6. Owned'
    BY <1>1, <1>2, <2>1, <2>2, <2>3 DEF Owned, IsOf, Shared, Dir
  <2>7. \A p \in Repos \ command.targets :
           Matches(p)' /\ (LocalPath[p] = Dir => manifest.deps[p] = NoSha)
    BY <1>1, <1>2, <2>1 DEF Installed, Matches
  <2>8. Installed'
    BY <2>1, <2>3, <2>4, <2>7 DEF Installed
  <2> QED
    BY <2>5, <2>6, <2>8 DEF IInv
<1>10. CASE Refused
  <2>1. UNCHANGED <<head, checkout, manifest>> /\ command.name \in {"update", "install"} /\ End(command.name, FALSE, FALSE)
    BY <1>10 DEF Refused, Running
  <2> QED
    BY <1>1, <1>2, <2>1, EndKeeps DEF Owned
<1>11. CASE Save
  <2>1. /\ UNCHANGED <<head, checkout>> /\ command.name \in {"add", "update"} /\ End(command.name, TRUE, FALSE)
        /\ manifest' = [exists |-> TRUE, deps |-> command.copy]
    BY <1>11 DEF Save, Manifest
  <2> QED
    BY <1>1, <1>2, <2>1, EndKeeps DEF Owned, PkgTypeOK
<1>12. CASE RemoveEntry
  <2>1. Target \in Repos /\ command.name = "remove" /\ UNCHANGED <<head, checkout, outcome>>
    BY <1>1, <1>12, TargetOK DEF RemoveEntry, Running, PkgTypeOK
  <2>2. manifest' = [manifest EXCEPT !.deps[Target] = NoSha] /\ command' = [command EXCEPT !.name = "rmdir"]
    BY <1>12 DEF RemoveEntry
  <2>3. /\ command'.name = "rmdir" /\ command'.copy = command.copy
        /\ manifest'.deps = [manifest.deps EXCEPT ![Target] = NoSha]
    BY <1>1, <1>2, <2>2 DEF PkgTypeOK
  <2>4. command' # NoCommand
    BY <2>3, Shas
  <2>5. PkgTypeOK'
    BY <1>1, <1>2, <2>1, <2>2 DEF PkgTypeOK, Deps
  <2>6. Owned'
    BY <1>1, <1>2, <2>1, <2>3 DEF Owned, IsOf, Deps
  <2>7. Installed'
    BY <2>3, <2>4 DEF Installed
  <2> QED
    BY <2>5, <2>6, <2>7 DEF IInv
<1>13. CASE RemoveDir
  <2>1. UNCHANGED <<head, manifest>> /\ End("remove", TRUE, FALSE) /\ checkout' = [checkout EXCEPT ![Dir] = NoSha]
    BY <1>13 DEF RemoveDir, Checkout
  <2>2. /\ checkout' \in [Dirs -> Commits \cup {NoSha}]
        /\ \A p \in Repos : IsOf(p, checkout'[LocalPath[p]])
    BY <1>1, <1>2, <2>1 DEF Owned, IsOf
  <2> QED
    BY <1>1, <1>2, <2>1, <2>2, EndKeeps DEF Owned
<1>14. CASE InstallEnds
  <2>1. UNCHANGED <<head, checkout, manifest>> /\ End("install", TRUE, FALSE)
    BY <1>14 DEF InstallEnds
  <2>2. \A p \in Repos : Matches(p)'
    BY <1>1, <1>14, <2>1 DEF InstallEnds, Installed, Matches
  <2> QED
    BY <1>1, <1>2, <2>1, <2>2, EndKeeps DEF Owned
<1>15. CASE Breaks
  <2>1. UNCHANGED <<head, checkout, manifest>> /\ End(command.name, FALSE, TRUE)
    BY <1>15 DEF Breaks
  <2>2. command.name \in {"none", "add", "remove", "rmdir", "update", "install", "reset"}
    BY <1>1 DEF PkgTypeOK
  <2> QED
    BY <1>1, <1>2, <2>1, <2>2, EndKeeps DEF Owned
<1>16. ASSUME NEW p \in Repos, Commit(p) PROVE IInv'
  <2>1. head' \in [Repos -> Nat] /\ UNCHANGED <<checkout, manifest, command, outcome>>
    BY <1>2, <1>16 DEF Commit
  <2> QED
    BY <1>1, <2>1 DEF IInv, PkgTypeOK, Owned, IsOf, Installed, Matches, Dir, Target, Turn
<1>17. CASE NewManifest
  <2>1. PICK p \in Repos : manifest' = [manifest EXCEPT !.deps[p] = Sha(p, head[p])]
    BY <1>17 DEF NewManifest
  <2>2. /\ UNCHANGED <<head, checkout, command>> /\ command.name = "none"
        /\ outcome' = [name |-> "pull", ok |-> TRUE, hurt |-> FALSE]
    BY <1>17, Shas DEF NewManifest, Outcome
  <2>3. manifest'.deps = [manifest.deps EXCEPT ![p] = Sha(p, head[p])] /\ Sha(p, head[p]) \in Commits /\ Sha(p, head[p]).repo = p
    BY <1>2, <2>1, Shas
  <2>4. PkgTypeOK'
    BY <1>1, <1>2, <2>1, <2>2, <2>3 DEF PkgTypeOK, Deps
  <2>5. Owned'
    BY <1>1, <1>2, <2>2, <2>3 DEF Owned, IsOf, Deps
  <2>6. Installed'
    BY <2>2 DEF Installed
  <2> QED
    BY <2>4, <2>5, <2>6 DEF IInv
<1>18. CASE UNCHANGED pkgVars
  BY <1>1, <1>18 DEF pkgVars, IInv, PkgTypeOK, Owned, IsOf, Installed, Matches, Dir, Target, Turn
<1>19. CASE InstallResets
  <2>1. /\ Target \in Repos /\ Dir \in Dirs /\ command.targets # {} /\ command.name = "reset"
        /\ UNCHANGED <<head, manifest>> /\ manifest.deps[Target] \in Commits \cup {NoSha}
    BY <1>1, <1>2, <1>19, TargetOK DEF InstallResets, Running, Dir, PkgTypeOK, Deps
  <2>2. CASE End("install", FALSE, FALSE) /\ UNCHANGED checkout
    BY <1>1, <1>2, <2>1, <2>2, EndKeeps DEF Owned
  <2> DEFINE lock == manifest.deps[Target]
  <2>3. CASE /\ lock.repo = Target /\ Checkout(lock) /\ UNCHANGED outcome
             /\ command' = [command EXCEPT !.name = "install", !.targets = @ \ {Target}]
    <3>1. lock \in Commits /\ checkout' = [checkout EXCEPT ![Dir] = lock]
      BY <2>1, <2>3, PackagesAssumption DEF Checkout, NoSha, Sha
    <3>2. /\ command'.name = "install" /\ command'.targets = command.targets \ {Target}
          /\ command'.copy = command.copy
      BY <1>1, <2>3 DEF PkgTypeOK
    <3>3. command' # NoCommand
      BY <3>2, Shas
    <3>4. PkgTypeOK'
      BY <1>1, <1>2, <2>1, <2>3, <3>1 DEF PkgTypeOK
    <3>5. Owned'
      BY <1>1, <1>2, <2>1, <2>3, <3>1, <3>2 DEF Owned, IsOf, Shared, Dir
    <3>6. ASSUME NEW p \in Repos \ command.targets PROVE Matches(p)'
      BY <1>1, <1>2, <2>1, <3>1 DEF Installed, Matches
    <3>7. checkout'[LocalPath[Target]] = manifest'.deps[Target]
      BY <1>2, <2>1, <3>1 DEF Dir
    <3>8. \A p \in Repos \ command'.targets : Matches(p)'
      BY <3>2, <3>6, <3>7 DEF Matches
    <3>9. Installed'
      BY <3>2, <3>3, <3>8 DEF Installed
    <3> QED
      BY <3>4, <3>5, <3>9 DEF IInv
  <2> QED
    BY <1>19, <2>2, <2>3 DEF InstallResets
<1> QED
  BY <1>3, <1>4, <1>5, <1>6, <1>7, <1>8, <1>9, <1>10, <1>11, <1>12, <1>13, <1>14, <1>15, <1>16,
     <1>17, <1>18, <1>19 DEF PkgNext

\* Whatever commands run, break off or are refused, and whatever is committed, the
\* manifests and checkouts are as IInv says.
THEOREM Invariance == PkgSpec => []IInv
BY InitIInv, StepIInv, PTL DEF PkgSpec

\* After an install that ends well every dependency is checked out at its locked
\* commit, whatever was cut off before and whichever repositories share a directory;
\* and a locked commit is one of its own repository where none do.
THEOREM LockAlwaysHolds == PkgSpec => []LockHolds
<1>1. IInv => LockHolds
  BY DEF IInv, Installed, Matches, Owned, IsOf, LockHolds
<1> QED
  BY <1>1, Invariance, PTL
=============================================================================
