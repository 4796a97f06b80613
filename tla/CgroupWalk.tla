----------------------------- MODULE CgroupWalk -----------------------------
(***************************************************************************)
(* FindCgroup (cgroup.go): the walk through the cgroup tree that looks for *)
(* the scope of one container, by name, while the kernel makes and removes *)
(* directories of any container in the same tree.                          *)
(*                                                                         *)
(* filepath.WalkDir reads one directory after the other, each when it gets *)
(* there; what it lists of a directory is a snapshot.  A directory that    *)
(* vanished after it was listed, or cannot be read, ends the whole walk    *)
(* with an error.                                                          *)
(***************************************************************************)
EXTENDS Naturals, Sequences

CONSTANTS
  Directories,  \* every directory there may be, as a path from the root:
                \* names, numbered in lexical order
  ScopeNames    \* the names that contain the ID and end in ".scope"

Parent(d) == SubSeq(d, 1, Len(d) - 1)

ASSUME WalkAssumption ==
  /\ Directories \subseteq Seq(Nat)
  /\ <<>> \in Directories
  /\ ScopeNames \subseteq Nat

VARIABLES
  tree,         \* the directories there are
  changed,      \* history: directories made or removed since the walk began
  unreadable,   \* history: the one this walk could not read, though it was there
  wpc,          \* control point of FindCgroup
  pending,      \* directories listed and not yet visited
  directories   \* the matches found so far

walkVars == <<tree, changed, unreadable, wpc, pending, directories>>

AtOrAbove(d) == {SubSeq(d, 1, i) : i \in 0..Len(d)}

(* The tree holds every directory above one of its directories.            *)
Rooted(t) == <<>> \in t /\ \A d \in t : AtOrAbove(d) \subseteq t

WalkIdle == {"idle", "found", "notFound", "error"}

WalkTypeOK ==
  /\ tree \subseteq Directories /\ Rooted(tree)
  /\ changed \subseteq Directories /\ unreadable \subseteq Directories
  /\ wpc \in WalkIdle \cup {"walk"}
  /\ pending \subseteq Directories
  /\ directories \subseteq Directories

IsScope(d) == d # <<>> /\ d[Len(d)] \in ScopeNames

(* The order of the walk: lexical, a directory before what it contains.    *)
Before(d, e) ==
  \E i \in 0..Len(d) :
    /\ i <= Len(e)
    /\ \A j \in 1..i : d[j] = e[j]
    /\ \/ i = Len(d) /\ i < Len(e)
       \/ i < Len(d) /\ i < Len(e) /\ d[i + 1] < e[i + 1]

IsLeast(d, dirs) == d \in dirs /\ \A e \in dirs : d = e \/ Before(d, e)

Children(d) == {e \in tree : e # <<>> /\ Parent(e) = d}

WalkInit ==
  /\ tree \in {t \in SUBSET Directories : Rooted(t)}
  /\ changed = {} /\ unreadable = {}
  /\ wpc = "idle"
  /\ pending = {}
  /\ directories = {}

-----------------------------------------------------------------------------
(* The kernel and the runtime: pods and containers come and go.            *)
Mkdir(d) ==
  /\ d \notin tree
  /\ Parent(d) \in tree
  /\ tree' = tree \cup {d}
  /\ changed' = changed \cup {d}
  /\ UNCHANGED <<unreadable, wpc, pending, directories>>

Rmdir(d) ==
  /\ d \in tree \ {<<>>}
  /\ Children(d) = {}
  /\ tree' = tree \ {d}
  /\ changed' = changed \cup {d}
  /\ UNCHANGED <<unreadable, wpc, pending, directories>>

-----------------------------------------------------------------------------
(* Mutant: the list of matches is not the call's own.                      *)
StartWalk_KeepMatches ==
  /\ wpc \in WalkIdle
  /\ wpc' = "walk"
  /\ pending' = {<<>>}
  /\ changed' = {} /\ unreadable' = {}
  /\ UNCHANGED <<tree, directories>>

(* Collect calls FindCgroup anew for each container.                       *)
StartWalk ==
  /\ wpc \in WalkIdle
  /\ wpc' = "walk"
  /\ pending' = {<<>>}
  /\ directories' = {}
  /\ changed' = {} /\ unreadable' = {}
  /\ UNCHANGED tree

(* Mutant: a match also skips what is left of the directory it is in, as   *)
(* SkipDir does when it is returned for a file.                            *)
Match_SkipSiblings ==
  /\ wpc = "walk"
  /\ \E d \in pending :
       /\ IsLeast(d, pending)
       /\ IsScope(d)
       /\ directories' = directories \cup {d}
       /\ pending' = {e \in pending : e # <<>> /\ Parent(e) # Parent(d)}
  /\ UNCHANGED <<tree, changed, unreadable, wpc>>

(* A match is kept and not descended into (SkipDir).                       *)
Match ==
  /\ wpc = "walk"
  /\ \E d \in pending :
       /\ IsLeast(d, pending)
       /\ IsScope(d)
       /\ directories' = directories \cup {d}
       /\ pending' = pending \ {d}
  /\ UNCHANGED <<tree, changed, unreadable, wpc>>

(* Any other directory is listed.                                          *)
Descend ==
  /\ wpc = "walk"
  /\ \E d \in pending :
       /\ IsLeast(d, pending)
       /\ ~IsScope(d)
       /\ d \in tree
       /\ pending' = (pending \ {d}) \cup Children(d)
  /\ UNCHANGED <<tree, changed, unreadable, wpc, directories>>

(* Mutant: the error is swallowed and the directory tried again.           *)
Abort_Retry ==
  /\ wpc = "walk"
  /\ \E d \in pending : IsLeast(d, pending) /\ ~IsScope(d) /\ d \notin tree
  /\ UNCHANGED walkVars

(* Mutant: a match is listed like any other directory before it is taken.  *)
Abort_ListMatches ==
  /\ wpc = "walk"
  /\ \E d \in pending : IsLeast(d, pending) /\ unreadable' = {d} \cap tree
  /\ wpc' = "error"
  /\ pending' = {}
  /\ UNCHANGED <<tree, changed, directories>>

(* Reading a directory fails when it is gone, and may when it is there.    *)
(* The callback returns the error it is given, and that ends the walk;     *)
(* matches already found are dropped.                                      *)
Abort ==
  /\ wpc = "walk"
  /\ \E d \in pending :
       /\ IsLeast(d, pending)
       /\ ~IsScope(d)
       /\ unreadable' = {d} \cap tree
  /\ wpc' = "error"
  /\ pending' = {}
  /\ UNCHANGED <<tree, changed, directories>>

WalkEnd ==
  /\ wpc = "walk"
  /\ pending = {}
  /\ wpc' = IF directories = {} THEN "notFound" ELSE "found"
  /\ UNCHANGED <<tree, changed, unreadable, pending, directories>>

-----------------------------------------------------------------------------
TreeStep == \E d \in Directories : Mkdir(d) \/ Rmdir(d)

WalkStep == Match \/ Descend \/ Abort \/ WalkEnd

WalkNext == TreeStep \/ StartWalk \/ WalkStep

WalkSpec == WalkInit /\ [][WalkNext]_walkVars

(* The goroutine runs; nothing makes the tree change or hold still.        *)
WalkFairSpec == WalkSpec /\ WF_walkVars(WalkStep)

-----------------------------------------------------------------------------
(***************************************************************************)
(* Properties.                                                             *)
(***************************************************************************)

(* The first match is the one whose metrics are read.                      *)
Found == {d \in directories : wpc = "found" /\ IsLeast(d, directories)}

(* A scope below another one of the same ID is not looked for.             *)
Outermost(s) == IsScope(s) /\ \A i \in 1..(Len(s) - 1) : ~IsScope(SubSeq(s, 1, i))

(* What is found is a scope of the container that was there at some time   *)
(* of this walk, and no scope that was there all along precedes it: among  *)
(* several the choice does not depend on what else happens in the tree     *)
(* (cgroup.go:28-51).                                                      *)
FoundScopeWasThere ==
  \A d \in Found :
    /\ IsScope(d)
    /\ d \in tree \cup changed
    /\ \A s \in tree \ changed : Outermost(s) => s = d \/ Before(d, s)

(* A walk that comes to its end has seen every scope that was there all    *)
(* along, however the tree changed beside it (cgroup.go:28-45).            *)
StableScopesSeen ==
  wpc \in {"found", "notFound"} =>
    \A s \in tree \ changed : Outermost(s) => s \in directories

(* Only a directory that goes away or cannot be read fails a walk, and     *)
(* never one of the container's own scopes: these are not listed           *)
(* (cgroup.go:29-35).                                                      *)
ErrorsFromOthers ==
  wpc = "error" => \E d \in changed \cup unreadable : ~IsScope(d)

(* A walk ends, however long directories come and go under it.             *)
WalkEnds == wpc = "walk" ~> wpc # "walk"

(* "FindCgroup searches cgroupv2 directories recursively ... for a         *)
(* directory name that contains the specified container ID"                *)
(* (cgroup.go:17): where all can be read, a scope that is there all along  *)
(* is found.  It is not, when another directory vanishes.                  *)
StableScopeFound ==
  wpc \in {"notFound", "error"} /\ unreadable = {} =>
    \A s \in tree \ changed : ~IsScope(s)

-----------------------------------------------------------------------------
(***************************************************************************)
(* Why: of a scope that was there all along, the walk has seen the scope   *)
(* or has yet to visit it or a directory above it.                         *)
(***************************************************************************)
StableScopesAhead ==
  wpc = "walk" =>
    \A s \in tree \ changed :
      Outermost(s) => s \in directories \/ pending \cap AtOrAbove(s) # {}

MatchesWereThere ==
  /\ \A d \in directories : IsScope(d) /\ d \in tree \cup changed
  /\ \A d \in pending : d \in tree \cup changed

WalkInv ==
  /\ WalkTypeOK
  /\ StableScopesAhead
  /\ MatchesWereThere
  /\ FoundScopeWasThere
  /\ StableScopesSeen
  /\ ErrorsFromOthers
=============================================================================
