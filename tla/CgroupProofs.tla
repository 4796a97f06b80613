---------------------------- MODULE CgroupProofs ----------------------------
(***************************************************************************)
(* What Collect has of a container's cgroup is right.                      *)
(*                                                                         *)
(* FindCgroup's walk finds it in every tree and under every change of it:  *)
(* WalkInv is an inductive invariant of WalkSpec, and the properties of    *)
(* the walk's outcome are among its conjuncts.                             *)
(*                                                                         *)
(* What is read of it, and of the process, goes together whatever the      *)
(* kernel does in between: ReadingsInv is an inductive invariant of        *)
(* ReadingsSpec, for every choice of files, devices and bounds.            *)
(***************************************************************************)
EXTENDS CgroupWalk, Readings, FiniteSetTheorems, SequenceTheorems,
        WellFoundedInduction, TLAPS

-----------------------------------------------------------------------------
(***************************************************************************)
(* The walk.                                                               *)
(***************************************************************************)

(* What the proofs use of paths: the last element of AtOrAbove(d) is d     *)
(* itself, and whatever is above the parent of d is above d.               *)
LEMMA Paths ==
  ASSUME NEW d \in Seq(Nat)
  PROVE  /\ AtOrAbove(d) \subseteq Seq(Nat)
         /\ d \in AtOrAbove(d)
         /\ <<>> \in AtOrAbove(d)
         /\ \A a \in AtOrAbove(d) : a # d => Len(a) < Len(d)
         /\ \A a \in AtOrAbove(d) : a = SubSeq(d, 1, Len(a))
<1>1. \A i \in 0..Len(d) :
        /\ SubSeq(d, 1, i) \in Seq(Nat)
        /\ Len(SubSeq(d, 1, i)) = i
  OBVIOUS
<1>2. SubSeq(d, 1, Len(d)) = d
  OBVIOUS
<1>3. SubSeq(d, 1, 0) = <<>>
  OBVIOUS
<1>4. Len(d) \in Nat
  OBVIOUS
<1>5. \A a \in AtOrAbove(d) : a # d => Len(a) < Len(d)
  <2> SUFFICES ASSUME NEW i \in 0..Len(d), SubSeq(d, 1, i) # d
               PROVE  Len(SubSeq(d, 1, i)) < Len(d)
    BY DEF AtOrAbove
  <2>1. i # Len(d)
    BY <1>2
  <2> QED
    BY <1>1, <1>4, <2>1
<1>6. AtOrAbove(d) \subseteq Seq(Nat)
  BY <1>1 DEF AtOrAbove
<1>7. d \in AtOrAbove(d)
  <2>1. Len(d) \in 0..Len(d)
    BY <1>4
  <2> QED
    BY <1>2, <2>1 DEF AtOrAbove
<1>8. <<>> \in AtOrAbove(d)
  <2>1. 0 \in 0..Len(d)
    BY <1>4
  <2> QED
    BY <1>3, <2>1 DEF AtOrAbove
<1>9. \A a \in AtOrAbove(d) : a = SubSeq(d, 1, Len(a))
  BY <1>1 DEF AtOrAbove
<1> QED
  BY <1>5, <1>6, <1>7, <1>8, <1>9

(* A path above a path above d is above d.                                 *)
LEMMA AboveAbove ==
  ASSUME NEW d \in Seq(Nat), NEW i \in 0..Len(d), NEW j \in 0..i
  PROVE  SubSeq(SubSeq(d, 1, i), 1, j) = SubSeq(d, 1, j)
<1>1. /\ SubSeq(SubSeq(d, 1, i), 1, j) \in Seq(Nat)
      /\ Len(SubSeq(SubSeq(d, 1, i), 1, j)) = j
  OBVIOUS
<1>2. /\ SubSeq(d, 1, j) \in Seq(Nat)
      /\ Len(SubSeq(d, 1, j)) = j
  OBVIOUS
<1>3. \A k \in 1..j : SubSeq(SubSeq(d, 1, i), 1, j)[k] = SubSeq(d, 1, j)[k]
  OBVIOUS
<1> QED
  BY <1>1, <1>2, <1>3

(* What a directory is in: the parent, and what the parent is in.          *)
LEMMA AboveParent ==
  ASSUME NEW d \in Seq(Nat), d # <<>>
  PROVE  AtOrAbove(d) = {d} \cup AtOrAbove(Parent(d))
<1>1. Len(d) \in Nat \ {0}
  OBVIOUS
<1>2. Len(Parent(d)) = Len(d) - 1
  <2>1. \A i \in 0..Len(d) : Len(SubSeq(d, 1, i)) = i
    OBVIOUS
  <2>2. Len(d) - 1 \in 0..Len(d)
    BY <1>1
  <2> QED
    BY <2>1, <2>2 DEF Parent
<1>3. \A i \in 0..(Len(d) - 1) : SubSeq(Parent(d), 1, i) = SubSeq(d, 1, i)
  <2> SUFFICES ASSUME NEW i \in 0..(Len(d) - 1)
               PROVE  SubSeq(SubSeq(d, 1, Len(d) - 1), 1, i) = SubSeq(d, 1, i)
    BY DEF Parent
  <2>1. Len(d) - 1 \in 0..Len(d)
    BY <1>1
  <2> QED
    BY <2>1, AboveAbove
<1>4. SubSeq(d, 1, Len(d)) = d
  OBVIOUS
<1>5. 0..Len(d) = (0..(Len(d) - 1)) \cup {Len(d)}
  BY <1>1
<1>6. AtOrAbove(Parent(d)) = {SubSeq(d, 1, i) : i \in 0..(Len(d) - 1)}
  BY <1>2, <1>3 DEF AtOrAbove
<1> QED
  BY <1>4, <1>5, <1>6 DEF AtOrAbove

(* Below a directory that is not the one looked for, the way to it goes    *)
(* through one of the directory's children.                                *)
LEMMA ChildAbove ==
  ASSUME NEW s \in Seq(Nat), NEW d \in AtOrAbove(s), d # s
  PROVE  \E c \in AtOrAbove(s) : c # <<>> /\ Parent(c) = d
<1>1. PICK i \in 0..Len(s) : d = SubSeq(s, 1, i)
  BY DEF AtOrAbove
<1>2. SubSeq(s, 1, Len(s)) = s
  OBVIOUS
<1>0. Len(s) \in Nat
  OBVIOUS
<1>3. i \in Nat /\ i < Len(s)
  <2>1. i # Len(s)
    BY <1>1, <1>2
  <2> QED
    BY <1>0, <2>1
<1> DEFINE c == SubSeq(s, 1, i + 1)
<1>4. i + 1 \in 0..Len(s)
  BY <1>0, <1>3
<1>5. c \in Seq(Nat) /\ Len(c) = i + 1
  BY <1>4
<1>6. c \in AtOrAbove(s)
  BY <1>4 DEF AtOrAbove
<1>7. Parent(c) = d
  <2>1. SubSeq(c, 1, i) = SubSeq(s, 1, i)
    <3>1. i \in 0..(i + 1)
      BY <1>3
    <3> QED
      BY <1>4, <3>1, AboveAbove
  <2>2. Parent(c) = SubSeq(c, 1, i)
    <3>1. Len(c) - 1 = i
      BY <1>3, <1>5
    <3> HIDE DEF c
    <3> QED
      BY <3>1 DEF Parent
  <2> QED
    BY <1>1, <2>1, <2>2
<1>8. c # <<>>
  BY <1>3, <1>5
<1> QED
  BY <1>6, <1>7, <1>8

-----------------------------------------------------------------------------
(***************************************************************************)
(* The tree stays a tree.                                                  *)
(***************************************************************************)
LEMMA MkdirRooted ==
  ASSUME WalkTypeOK, NEW d \in Directories, Mkdir(d)
  PROVE  Rooted(tree')
<1> USE WalkAssumption DEF WalkAssumption
<1>1. d \in Seq(Nat) /\ d # <<>>
  BY DEF WalkTypeOK, Rooted, Mkdir
<1>2. AtOrAbove(d) = {d} \cup AtOrAbove(Parent(d))
  BY <1>1, AboveParent
<1>3. AtOrAbove(Parent(d)) \subseteq tree
  BY DEF WalkTypeOK, Rooted, Mkdir
<1>4. tree' = tree \cup {d}
  BY DEF Mkdir
<1> QED
  BY <1>2, <1>3, <1>4 DEF WalkTypeOK, Rooted

LEMMA RmdirRooted ==
  ASSUME WalkTypeOK, NEW d \in Directories, Rmdir(d)
  PROVE  Rooted(tree')
<1> USE WalkAssumption DEF WalkAssumption
<1>1. tree' = tree \ {d} /\ d # <<>>
  BY DEF Rmdir
<1>2. SUFFICES ASSUME NEW e \in tree, e # d, d \in AtOrAbove(e)
               PROVE  FALSE
  BY <1>1 DEF WalkTypeOK, Rooted
<1>3. e \in Seq(Nat)
  BY DEF WalkTypeOK
<1>4. PICK c \in AtOrAbove(e) : c # <<>> /\ Parent(c) = d
  BY <1>2, <1>3, ChildAbove
<1>5. c \in tree
  BY DEF WalkTypeOK, Rooted
<1> QED
  BY <1>4, <1>5 DEF Rmdir, Children

(* A directory that was there before and after a step and had not changed  *)
(* by its end had not changed before it.                                   *)
LEMMA TreeStepKeepsStable ==
  ASSUME TreeStep
  PROVE  /\ tree' \ changed' \subseteq tree \ changed
         /\ tree \cup changed \subseteq tree' \cup changed'
         /\ UNCHANGED <<unreadable, wpc, pending, directories>>
BY DEF TreeStep, Mkdir, Rmdir

-----------------------------------------------------------------------------
(* What is ahead of the walk stays ahead when a directory is listed: if    *)
(* the directory is above a scope, one of its children is.                 *)
LEMMA DescendKeepsAhead ==
  ASSUME WalkTypeOK, StableScopesAhead, Descend
  PROVE  StableScopesAhead'
<1> USE WalkAssumption DEF WalkAssumption
<1>1. PICK d \in pending :
        /\ ~IsScope(d)
        /\ pending' = (pending \ {d}) \cup Children(d)
  BY DEF Descend
<1>2. wpc = "walk" /\ UNCHANGED <<tree, changed, wpc, directories>>
  BY DEF Descend
<1> SUFFICES ASSUME NEW s \in tree \ changed, Outermost(s), s \notin directories
             PROVE  pending' \cap AtOrAbove(s) # {}
  BY <1>2 DEF StableScopesAhead, Outermost, IsScope
<1>3. PICK a \in pending : a \in AtOrAbove(s)
  BY <1>2 DEF StableScopesAhead
<1>4. CASE a # d
  BY <1>1, <1>3, <1>4
<1>5. CASE a = d
  <2>1. d # s
    BY <1>1 DEF Outermost
  <2>2. s \in Seq(Nat) /\ d \in AtOrAbove(s)
    BY <1>3, <1>5 DEF WalkTypeOK
  <2>3. PICK c \in AtOrAbove(s) : c # <<>> /\ Parent(c) = d
    BY <2>1, <2>2, ChildAbove
  <2>4. c \in tree
    BY DEF WalkTypeOK, Rooted
  <2>5. c \in pending'
    BY <1>1, <2>3, <2>4 DEF Children
  <2> QED
    BY <2>5
<1> QED
  BY <1>4, <1>5

(* A match is nothing but itself ahead of an outermost scope.              *)
LEMMA MatchKeepsAhead ==
  ASSUME WalkTypeOK, StableScopesAhead, Match
  PROVE  StableScopesAhead'
<1> USE WalkAssumption DEF WalkAssumption
<1>1. PICK d \in pending :
        /\ IsScope(d)
        /\ directories' = directories \cup {d}
        /\ pending' = pending \ {d}
  BY DEF Match
<1>2. wpc = "walk" /\ UNCHANGED <<tree, changed, wpc>>
  BY DEF Match
<1> SUFFICES ASSUME NEW s \in tree \ changed, Outermost(s), s \notin directories'
             PROVE  pending' \cap AtOrAbove(s) # {}
  BY <1>2 DEF StableScopesAhead, Outermost, IsScope
<1>3. PICK a \in pending : a \in AtOrAbove(s)
  BY <1>1, <1>2 DEF StableScopesAhead
<1>4. s \in Seq(Nat)
  BY DEF WalkTypeOK
<1>5. a # d
  <2> SUFFICES ASSUME a = d PROVE FALSE
    OBVIOUS
  <2>1. d # s
    BY <1>1
  <2>2. Len(d) < Len(s) /\ d = SubSeq(s, 1, Len(d)) /\ d \in Seq(Nat)
    BY <1>3, <1>4, <2>1, Paths
  <2>3. Len(d) \in Nat \ {0}
    BY <1>1, <2>2 DEF IsScope
  <2>4. Len(d) \in 1..(Len(s) - 1)
    BY <1>4, <2>2, <2>3
  <2>5. IsScope(SubSeq(s, 1, Len(d)))
    BY <1>1, <2>2
  <2> QED
    BY <2>4, <2>5 DEF Outermost
<1> QED
  BY <1>1, <1>3, <1>5

-----------------------------------------------------------------------------
(* The initial states.                                                     *)
LEMMA WalkInvInit == WalkInit => WalkInv
<1> SUFFICES ASSUME WalkInit PROVE WalkInv
  OBVIOUS
<1>1. WalkTypeOK
  BY DEF WalkInit, WalkTypeOK, WalkIdle
<1> QED
  BY <1>1 DEF WalkInit, WalkInv, StableScopesAhead, MatchesWereThere,
              FoundScopeWasThere, Found, StableScopesSeen, ErrorsFromOthers

(* Every step.                                                             *)
LEMMA WalkInvNext == WalkInv /\ [WalkNext]_walkVars => WalkInv'
<1> USE WalkAssumption DEF WalkAssumption
<1> SUFFICES ASSUME WalkInv, [WalkNext]_walkVars PROVE WalkInv'
  OBVIOUS
<1>0. WalkTypeOK /\ StableScopesAhead /\ MatchesWereThere
  BY DEF WalkInv
<1>1. CASE TreeStep
  <2>1. /\ tree' \ changed' \subseteq tree \ changed
        /\ tree \cup changed \subseteq tree' \cup changed'
        /\ UNCHANGED <<unreadable, wpc, pending, directories>>
    BY <1>1, TreeStepKeepsStable
  <2>2. changed \subseteq changed'
    BY <1>1 DEF TreeStep, Mkdir, Rmdir
  <2>3. WalkTypeOK'
    <3>1. Rooted(tree')
      BY <1>0, <1>1, MkdirRooted, RmdirRooted DEF TreeStep
    <3>2. tree' \subseteq Directories /\ changed' \subseteq Directories
      BY <1>0, <1>1 DEF TreeStep, Mkdir, Rmdir, WalkTypeOK
    <3> QED
      BY <1>0, <2>1, <3>1, <3>2 DEF WalkTypeOK
  <2>4. StableScopesAhead' /\ MatchesWereThere'
    BY <1>0, <2>1 DEF StableScopesAhead, MatchesWereThere, Outermost, IsScope
  <2>5. FoundScopeWasThere'
    <3> SUFFICES ASSUME NEW d \in directories, wpc = "found",
                        IsLeast(d, directories)
                 PROVE  /\ IsScope(d)
                        /\ d \in tree' \cup changed'
                        /\ \A s \in tree' \ changed' :
                             Outermost(s) => s = d \/ Before(d, s)
      BY <2>1 DEF FoundScopeWasThere, Found, IsScope, Outermost, IsLeast, Before
    <3>1. d \in Found
      BY DEF Found
    <3> QED
      BY <2>1, <3>1 DEF WalkInv, FoundScopeWasThere
  <2>6. StableScopesSeen'
    BY <2>1 DEF WalkInv, StableScopesSeen, Outermost, IsScope
  <2>7. ErrorsFromOthers'
    BY <2>1, <2>2 DEF WalkInv, ErrorsFromOthers, IsScope
  <2> QED
    BY <2>3, <2>4, <2>5, <2>6, <2>7 DEF WalkInv
<1>2. CASE StartWalk
  <2>1. WalkTypeOK'
    BY <1>0, <1>2 DEF StartWalk, WalkTypeOK, Rooted
  <2>2. StableScopesAhead'
    <3> SUFFICES ASSUME NEW s \in tree
                 PROVE  pending' \cap AtOrAbove(s) # {}
      BY <1>2 DEF StartWalk, StableScopesAhead
    <3>1. <<>> \in AtOrAbove(s)
      BY <1>0, Paths DEF WalkTypeOK
    <3> QED
      BY <1>2, <3>1 DEF StartWalk
  <2>3. MatchesWereThere'
    BY <1>0, <1>2 DEF StartWalk, MatchesWereThere, WalkTypeOK, Rooted
  <2>4. wpc' = "walk"
    BY <1>2 DEF StartWalk
  <2> QED
    BY <2>1, <2>2, <2>3, <2>4
    DEF WalkInv, FoundScopeWasThere, Found, StableScopesSeen, ErrorsFromOthers
<1>3. CASE Match
  <2>1. WalkTypeOK'
    BY <1>0, <1>3 DEF Match, WalkTypeOK
  <2>2. StableScopesAhead'
    BY <1>0, <1>3, MatchKeepsAhead
  <2>3. MatchesWereThere'
    BY <1>0, <1>3 DEF Match, MatchesWereThere, IsScope
  <2>4. wpc' = "walk"
    BY <1>3 DEF Match
  <2> QED
    BY <2>1, <2>2, <2>3, <2>4
    DEF WalkInv, FoundScopeWasThere, Found, StableScopesSeen, ErrorsFromOthers
<1>4. CASE Descend
  <2>1. WalkTypeOK'
    BY <1>0, <1>4 DEF Descend, WalkTypeOK, Children
  <2>2. StableScopesAhead'
    BY <1>0, <1>4, DescendKeepsAhead
  <2>3. MatchesWereThere'
    BY <1>0, <1>4 DEF Descend, MatchesWereThere, IsScope, Children
  <2>4. wpc' = "walk"
    BY <1>4 DEF Descend
  <2> QED
    BY <2>1, <2>2, <2>3, <2>4
    DEF WalkInv, FoundScopeWasThere, Found, StableScopesSeen, ErrorsFromOthers
<1>5. CASE Abort
  <2>1. WalkTypeOK'
    BY <1>0, <1>5 DEF Abort, WalkTypeOK, WalkIdle
  <2>2. MatchesWereThere'
    BY <1>0, <1>5 DEF Abort, MatchesWereThere, IsScope
  <2>3. ErrorsFromOthers'
    BY <1>0, <1>5 DEF Abort, MatchesWereThere, ErrorsFromOthers, IsScope
  <2>4. wpc' = "error"
    BY <1>5 DEF Abort
  <2> QED
    BY <2>1, <2>2, <2>3, <2>4
    DEF WalkInv, StableScopesAhead, FoundScopeWasThere, Found, StableScopesSeen
<1>6. CASE WalkEnd
  <2>1. WalkTypeOK'
    BY <1>0, <1>6 DEF WalkEnd, WalkTypeOK, WalkIdle
  <2>2. UNCHANGED <<tree, changed, pending, directories>>
    BY <1>6 DEF WalkEnd
  <2>3. MatchesWereThere'
    BY <1>0, <2>2 DEF MatchesWereThere, IsScope
  <2>4. \A s \in tree \ changed : Outermost(s) => s \in directories
    BY <1>0, <1>6 DEF WalkEnd, StableScopesAhead
  <2>5. FoundScopeWasThere'
    BY <1>0, <2>2, <2>4
    DEF FoundScopeWasThere, Found, MatchesWereThere, IsLeast, IsScope,
        Outermost, Before
  <2>6. StableScopesSeen'
    BY <2>2, <2>4 DEF StableScopesSeen, Outermost, IsScope
  <2>7. wpc' \in {"found", "notFound"}
    BY <1>6 DEF WalkEnd
  <2> QED
    BY <2>1, <2>3, <2>5, <2>6, <2>7
    DEF WalkInv, StableScopesAhead, ErrorsFromOthers
<1>7. CASE UNCHANGED walkVars
  BY <1>7
  DEF walkVars, WalkInv, WalkTypeOK, StableScopesAhead, MatchesWereThere,
      FoundScopeWasThere, Found, IsLeast, Before, StableScopesSeen,
      ErrorsFromOthers, Outermost, IsScope
<1> QED
  BY <1>1, <1>2, <1>3, <1>4, <1>5, <1>6, <1>7 DEF WalkNext, WalkStep

-----------------------------------------------------------------------------
(* The walk of FindCgroup keeps WalkInv, in every tree (cgroup.go:28-60):  *)
(* a scope there all along is among the matches or ahead of the walk.      *)
THEOREM WalkInvariant == WalkSpec => []WalkInv
<1> QED
  BY WalkInvInit, WalkInvNext, PTL DEF WalkSpec

(* A walk that reaches its end saw every scope that was there all along    *)
(* (cgroup.go:42-45: "not found" means that there was none).               *)
THEOREM WalkComplete == WalkSpec => []StableScopesSeen
<1>1. WalkInv => StableScopesSeen
  BY DEF WalkInv
<1> QED
  BY <1>1, WalkInvariant, PTL

(* What FindCgroup returns was a scope of the container, and none that was *)
(* there all along comes before it (cgroup.go:47-59).                      *)
THEOREM WalkCorrect == WalkSpec => []FoundScopeWasThere
<1>1. WalkInv => FoundScopeWasThere
  BY DEF WalkInv
<1> QED
  BY <1>1, WalkInvariant, PTL

(* Only a directory of somebody else that goes away or cannot be read      *)
(* fails a walk (cgroup.go:29-35).                                         *)
THEOREM WalkErrors == WalkSpec => []ErrorsFromOthers
<1>1. WalkInv => ErrorsFromOthers
  BY DEF WalkInv
<1> QED
  BY <1>1, WalkInvariant, PTL

-----------------------------------------------------------------------------
(***************************************************************************)
(* The tables.                                                             *)
(***************************************************************************)
NumberFiles ==
  {"memory.current", "memory.peak", "memory.low", "memory.high", "memory.max",
   "pids.current", "pids.max", "pids.peak"}

(* The fields of the files with one field a line.                          *)
LEMMA StatFieldLists ==
  /\ DOMAIN memoryStatFields = 1..16
  /\ \A i, j \in 1..16 : memoryStatFields[i] = memoryStatFields[j] => i = j
  /\ \A i \in 1..16 : memoryStatFields[i] # NoField
  /\ DOMAIN cpuStatFields = 1..6
  /\ \A i, j \in 1..6 : cpuStatFields[i] = cpuStatFields[j] => i = j
  /\ \A i \in 1..6 : cpuStatFields[i] # NoField
<1> DEFINE fields ==
      {"anon", "file", "shmem", "kernel", "slab", "slab_reclaimable",
       "slab_unreclaimable", "pagetables", "kernel_stack", "active_anon",
       "inactive_anon", "active_file", "inactive_file", "unevictable",
       "pgfault", "pgmajfault",
       "usage_usec", "user_usec", "system_usec",
       "nr_periods", "nr_throttled", "throttled_usec"}
<1>1. DOMAIN memoryStatFields = 1..16
  BY DEF memoryStatFields
<1>2. \A i, j \in 1..16 : memoryStatFields[i] = memoryStatFields[j] => i = j
  BY DEF memoryStatFields
<1>3. \A i \in 1..16 : memoryStatFields[i] \in fields
  BY DEF memoryStatFields
<1>4. /\ DOMAIN cpuStatFields = 1..6
      /\ \A i, j \in 1..6 : cpuStatFields[i] = cpuStatFields[j] => i = j
  BY DEF cpuStatFields
<1>5. \A i \in 1..6 : cpuStatFields[i] \in fields
  BY DEF cpuStatFields
<1>6. NoField \notin fields
  BY Zenon DEF NoField
<1> HIDE DEF fields
<1>7. \A i \in 1..16 : memoryStatFields[i] # NoField
  BY <1>3, <1>6
<1>8. \A i \in 1..6 : cpuStatFields[i] # NoField
  BY <1>5, <1>6
<1> QED
  BY <1>1, <1>2, <1>4, <1>7, <1>8

(* The files with a line for each field, and their fields.                 *)
LEMMA StatFieldsOf ==
  /\ DOMAIN StatFields = {"memory.stat", "cpu.stat"}
  /\ StatFields["memory.stat"] = memoryStatFields
  /\ StatFields["cpu.stat"] = cpuStatFields
BY DEF StatFields

(* No field is listed twice in a file, and none is the empty word.         *)
LEMMA StatFieldsDistinct ==
  ASSUME NEW file \in DOMAIN StatFields
  PROVE  /\ DOMAIN StatFields[file] \in {1..6, 1..16}
         /\ \A i, j \in DOMAIN StatFields[file] :
              StatFields[file][i] = StatFields[file][j] => i = j
         /\ \A i \in DOMAIN StatFields[file] : StatFields[file][i] # NoField
<1>1. CASE file = "memory.stat"
  BY <1>1, StatFieldLists, StatFieldsOf
<1>2. CASE file = "cpu.stat"
  BY <1>2, StatFieldLists, StatFieldsOf
<1> QED
  BY <1>1, <1>2, StatFieldsOf

(* The table, row by row.                                                  *)
RowOf(file, field) == Metric(field, file, field)

Sized(S, p, n) == p \in Seq(S) /\ n = Len(p)
Joined(p, q) == p \o q

(* Two sequences joined: first the one, then the other.                    *)
LEMMA Concatenated ==
  ASSUME NEW S, NEW p, NEW q, NEW n \in Nat, NEW m \in Nat,
         Sized(S, p, n), Sized(S, q, m)
  PROVE  /\ Sized(S, Joined(p, q), n + m)
         /\ \A i \in 1..n : Joined(p, q)[i] = p[i]
         /\ \A i \in 1..m : Joined(p, q)[n + i] = q[i]
<1> DEFINE r == p \o q
<1>1. p \in Seq(S) /\ q \in Seq(S) /\ n = Len(p) /\ m = Len(q)
  BY DEF Sized
<1>2. /\ r \in Seq(S)
      /\ Len(r) = n + m
      /\ \A i \in 1..n : r[i] = p[i]
  BY <1>1
<1>3. \A i \in (Len(p) + 1)..(Len(p) + Len(q)) : r[i] = q[i - Len(p)]
  BY <1>1
<1>4. \A i \in 1..m : r[n + i] = q[i]
  <2> SUFFICES ASSUME NEW i \in 1..m PROVE r[n + i] = q[i]
    OBVIOUS
  <2>1. n + i \in (n + 1)..(n + m) /\ (n + i) - n = i
    OBVIOUS
  <2>2. r[n + i] = q[(n + i) - n]
    BY <1>1, <1>3, <2>1
  <2> QED
    BY <2>1, <2>2
<1> HIDE DEF r
<1> QED
  BY <1>2, <1>4 DEF Joined, r, Sized

(* The rows of the table, part by part.                                    *)
LEMMA Table ==
  /\ DOMAIN cgroupMetrics = 1..30 /\ Len(cgroupMetrics) = 30
  /\ \A i \in 1..5 : cgroupMetrics[i] = memoryMetrics[i]
  /\ \A i \in 1..16 : cgroupMetrics[5 + i] = RowOf("memory.stat", memoryStatFields[i])
  /\ \A i \in 1..6 : cgroupMetrics[21 + i] = RowOf("cpu.stat", cpuStatFields[i])
  /\ \A i \in 1..3 : cgroupMetrics[27 + i] = pidsMetrics[i]
<1> DEFINE S == {memoryMetrics[i] : i \in 1..5} \cup {pidsMetrics[i] : i \in 1..3}
                  \cup {RowOf("memory.stat", memoryStatFields[i]) : i \in 1..16}
                  \cup {RowOf("cpu.stat", cpuStatFields[i]) : i \in 1..6}
<1>1. Sized(S, memoryMetrics, 5)
  <2>1. memoryMetrics = [i \in 1..5 |-> memoryMetrics[i]]
    BY DEF memoryMetrics
  <2>2. memoryMetrics \in Seq(S)
    BY <2>1
  <2>3. 5 = Len(memoryMetrics)
    BY DEF memoryMetrics
  <2> QED
    BY <2>2, <2>3 DEF Sized
<1>2. Sized(S, pidsMetrics, 3)
  <2>1. pidsMetrics = [i \in 1..3 |-> pidsMetrics[i]]
    BY DEF pidsMetrics
  <2>2. pidsMetrics \in Seq(S)
    BY <2>1
  <2>3. 3 = Len(pidsMetrics)
    BY DEF pidsMetrics
  <2> QED
    BY <2>2, <2>3 DEF Sized
<1>3. /\ Sized(S, memoryStatMetrics, 16)
      /\ \A i \in 1..16 : memoryStatMetrics[i] = RowOf("memory.stat", memoryStatFields[i])
  <2>1. DOMAIN memoryStatFields = 1..16
    BY StatFieldLists
  <2>2. memoryStatMetrics = [i \in 1..16 |-> RowOf("memory.stat", memoryStatFields[i])]
    BY <2>1 DEF memoryStatMetrics, Field, RowOf
  <2>3. memoryStatMetrics \in Seq(S) /\ 16 = Len(memoryStatMetrics)
    BY <2>2
  <2> QED
    BY <2>2, <2>3 DEF Sized
<1>4. /\ Sized(S, cpuMetrics, 6)
      /\ \A i \in 1..6 : cpuMetrics[i] = RowOf("cpu.stat", cpuStatFields[i])
  <2>1. DOMAIN cpuStatFields = 1..6
    BY StatFieldLists
  <2>2. cpuMetrics = [i \in 1..6 |-> RowOf("cpu.stat", cpuStatFields[i])]
    BY <2>1 DEF cpuMetrics, Field, RowOf
  <2>3. cpuMetrics \in Seq(S) /\ 6 = Len(cpuMetrics)
    BY <2>2
  <2> QED
    BY <2>2, <2>3 DEF Sized
<1> HIDE DEF S
<1> DEFINE p == Joined(memoryMetrics, memoryStatMetrics)
           q == Joined(p, cpuMetrics)
           r == Joined(q, pidsMetrics)
<1>5. /\ Sized(S, p, 21)
      /\ \A i \in 1..5 : p[i] = memoryMetrics[i]
      /\ \A i \in 1..16 : p[5 + i] = memoryStatMetrics[i]
  BY <1>1, <1>3, Concatenated
<1> HIDE DEF p
<1>6. /\ Sized(S, q, 27)
      /\ \A i \in 1..21 : q[i] = p[i]
      /\ \A i \in 1..6 : q[21 + i] = cpuMetrics[i]
  BY <1>4, <1>5, Concatenated
<1> HIDE DEF q
<1>7. /\ Sized(S, r, 30)
      /\ \A i \in 1..27 : r[i] = q[i]
      /\ \A i \in 1..3 : r[27 + i] = pidsMetrics[i]
  BY <1>2, <1>6, Concatenated
<1>8. r = cgroupMetrics
  BY DEF r, q, p, Joined, cgroupMetrics
<1> HIDE DEF r
<1>9. \A i \in 1..21 : r[i] = p[i]
  <2>1. \A i \in 1..21 : i \in 1..27
    OBVIOUS
  <2> QED
    BY <1>6, <1>7, <2>1
<1>10. \A i \in 1..5 : r[i] = memoryMetrics[i]
  <2>1. \A i \in 1..5 : i \in 1..21
    OBVIOUS
  <2> QED
    BY <1>5, <1>9, <2>1
<1>11. \A i \in 1..16 : r[5 + i] = memoryStatMetrics[i]
  <2>1. \A i \in 1..16 : 5 + i \in 1..21
    OBVIOUS
  <2> QED
    BY <1>5, <1>9, <2>1
<1>12. \A i \in 1..6 : r[21 + i] = cpuMetrics[i]
  <2>1. \A i \in 1..6 : 21 + i \in 1..27
    OBVIOUS
  <2> QED
    BY <1>6, <1>7, <2>1
<1>13. Len(r) = 30 /\ DOMAIN r = 1..30
  BY <1>7 DEF Sized
<1> QED
  BY <1>3, <1>4, <1>7, <1>8, <1>10, <1>11, <1>12, <1>13

(* The files in the order in which they are read.                          *)
NumberFile ==
  [i \in 1..5 \cup 28..30 |->
     CASE i = 1 -> "memory.current" [] i = 2 -> "memory.peak" [] i = 3 -> "memory.low"
       [] i = 4 -> "memory.high" [] i = 5 -> "memory.max"
       [] i = 28 -> "pids.current" [] i = 29 -> "pids.max" [] i = 30 -> "pids.peak"]

(* The rows for files with one number are for different files.             *)
LEMMA NumberFileFacts ==
  \A i, j \in 1..5 \cup 28..30 :
    /\ NumberFile[i] \in NumberFiles
    /\ NumberFile[i] = NumberFile[j] => i = j
BY DEF NumberFile, NumberFiles

(* What each row of the table reads.                                       *)
LEMMA Rows ==
  \A i \in 1..30 :
    \/ i \in 1..5 \cup 28..30 /\ cgroupMetrics[i] = RowOf(NumberFile[i], NoField)
    \/ /\ i \in 6..21
       /\ cgroupMetrics[i] = RowOf("memory.stat", memoryStatFields[i - 5])
    \/ /\ i \in 22..27
       /\ cgroupMetrics[i] = RowOf("cpu.stat", cpuStatFields[i - 21])
<1>1. \A i \in 1..5 : memoryMetrics[i] = RowOf(NumberFile[i], NoField)
  BY DEF memoryMetrics, Whole, RowOf, NumberFile
<1>2. \A i \in 1..3 : pidsMetrics[i] = RowOf(NumberFile[27 + i], NoField)
  BY DEF pidsMetrics, Whole, RowOf, NumberFile
<1> SUFFICES ASSUME NEW i \in 1..30
             PROVE  \/ /\ i \in 1..5 \cup 28..30
                       /\ cgroupMetrics[i] = RowOf(NumberFile[i], NoField)
                    \/ /\ i \in 6..21
                       /\ cgroupMetrics[i] = RowOf("memory.stat", memoryStatFields[i - 5])
                    \/ /\ i \in 22..27
                       /\ cgroupMetrics[i] = RowOf("cpu.stat", cpuStatFields[i - 21])
  OBVIOUS
<1>3. CASE i \in 1..5
  BY <1>1, <1>3, Table
<1>4. CASE i \in 6..21
  <2>1. i - 5 \in 1..16 /\ 5 + (i - 5) = i
    BY <1>4
  <2> QED
    BY <1>4, <2>1, Table
<1>5. CASE i \in 22..27
  <2>1. i - 21 \in 1..6 /\ 21 + (i - 21) = i
    BY <1>5
  <2> QED
    BY <1>5, <2>1, Table
<1>6. CASE i \in 28..30
  <2>1. i - 27 \in 1..3 /\ 27 + (i - 27) = i
    BY <1>6
  <2>2. cgroupMetrics[i] = RowOf(NumberFile[i], NoField)
    BY <1>2, <2>1, Table
  <2> QED
    BY <1>6, <2>2
<1> QED
  BY <1>3, <1>4, <1>5, <1>6

RowFact(m) ==
  /\ m.desc.name = <<m.cgroupFile, m.cgroupFileField>>
  /\ m.desc = NewDesc(<<m.cgroupFile, m.cgroupFileField>>, containerLabels)
  /\ \/ m.cgroupFile \in NumberFiles /\ m.cgroupFileField = NoField
     \/ /\ m.cgroupFile \in DOMAIN StatFields
        /\ \E k \in DOMAIN StatFields[m.cgroupFile] :
             m.cgroupFileField = StatFields[m.cgroupFile][k]

(* Every row of the table is one of a number or of a field.                *)
LEMMA RowFacts == \A i \in 1..30 : RowFact(cgroupMetrics[i])
<1> SUFFICES ASSUME NEW i \in 1..30 PROVE RowFact(cgroupMetrics[i])
  OBVIOUS
<1>1. CASE i \in 1..5 \cup 28..30 /\ cgroupMetrics[i] = RowOf(NumberFile[i], NoField)
  <2>1. NumberFile[i] \in NumberFiles
    BY <1>1, NumberFileFacts
  <2> QED
    BY <1>1, <2>1 DEF RowFact, RowOf, Metric, NewDesc
<1>2. CASE i \in 6..21 /\ cgroupMetrics[i] = RowOf("memory.stat", memoryStatFields[i - 5])
  <2>1. i - 5 \in 1..16
    BY <1>2
  <2>2. /\ "memory.stat" \in DOMAIN StatFields
        /\ i - 5 \in DOMAIN StatFields["memory.stat"]
        /\ memoryStatFields[i - 5] = StatFields["memory.stat"][i - 5]
    BY <2>1, StatFieldsOf, StatFieldLists
  <2> QED
    BY <1>2, <2>2 DEF RowFact, RowOf, Metric, NewDesc
<1>3. CASE i \in 22..27 /\ cgroupMetrics[i] = RowOf("cpu.stat", cpuStatFields[i - 21])
  <2>1. i - 21 \in 1..6
    BY <1>3
  <2>2. /\ "cpu.stat" \in DOMAIN StatFields
        /\ i - 21 \in DOMAIN StatFields["cpu.stat"]
        /\ cpuStatFields[i - 21] = StatFields["cpu.stat"][i - 21]
    BY <2>1, StatFieldsOf, StatFieldLists
  <2> QED
    BY <1>3, <2>2 DEF RowFact, RowOf, Metric, NewDesc
<1> QED
  BY <1>1, <1>2, <1>3, Rows

(* No two rows are of the same name.                                       *)
LEMMA RowsDistinct ==
  \A i, j \in 1..30 : cgroupMetrics[i].desc.name = cgroupMetrics[j].desc.name => i = j
<1> SUFFICES ASSUME NEW i \in 1..30, NEW j \in 1..30,
                    cgroupMetrics[i].desc.name = cgroupMetrics[j].desc.name
             PROVE  i = j
  OBVIOUS
<1> DEFINE Is(k, file, field) == cgroupMetrics[k].desc.name = <<file, field>>
<1>1. \A k \in 1..30 :
        \/ k \in 1..5 \cup 28..30 /\ Is(k, NumberFile[k], NoField)
        \/ k \in 6..21 /\ Is(k, "memory.stat", memoryStatFields[k - 5])
        \/ k \in 22..27 /\ Is(k, "cpu.stat", cpuStatFields[k - 21])
  <2> SUFFICES ASSUME NEW k \in 1..30
               PROVE  \/ k \in 1..5 \cup 28..30 /\ Is(k, NumberFile[k], NoField)
                      \/ k \in 6..21 /\ Is(k, "memory.stat", memoryStatFields[k - 5])
                      \/ k \in 22..27 /\ Is(k, "cpu.stat", cpuStatFields[k - 21])
    OBVIOUS
  <2>1. \A file, field : RowOf(file, field).desc.name = <<file, field>>
    BY DEF RowOf, Metric, NewDesc
  <2>2. CASE k \in 1..5 \cup 28..30 /\ cgroupMetrics[k] = RowOf(NumberFile[k], NoField)
    BY <2>1, <2>2
  <2>3. CASE k \in 6..21 /\ cgroupMetrics[k] = RowOf("memory.stat", memoryStatFields[k - 5])
    BY <2>1, <2>3
  <2>4. CASE k \in 22..27 /\ cgroupMetrics[k] = RowOf("cpu.stat", cpuStatFields[k - 21])
    BY <2>1, <2>4
  <2> QED
    BY <2>2, <2>3, <2>4, Rows
<1>2. ASSUME NEW f, NEW g, NEW x, NEW y, Is(i, f, x), Is(j, g, y)
      PROVE  f = g /\ x = y
  <2>1. <<f, x>> = <<g, y>>
    BY <1>2
  <2> QED
    BY <2>1
<1> HIDE DEF Is
<1>3. "memory.stat" \notin NumberFiles /\ "cpu.stat" \notin NumberFiles
  BY DEF NumberFiles
<1>4. "memory.stat" # "cpu.stat"
  OBVIOUS
<1>5. CASE i \in 1..5 \cup 28..30 /\ Is(i, NumberFile[i], NoField)
  <2>1. NumberFile[i] \in NumberFiles
    BY <1>5, NumberFileFacts
  <2>2. j \in 1..5 \cup 28..30 /\ Is(j, NumberFile[j], NoField)
    BY <1>1, <1>2, <1>3, <1>5, <2>1
  <2>3. NumberFile[i] = NumberFile[j]
    BY <1>2, <1>5, <2>2
  <2> QED
    BY <1>5, <2>2, <2>3, NumberFileFacts
<1>6. CASE i \in 6..21 /\ Is(i, "memory.stat", memoryStatFields[i - 5])
  <2>1. j \in 6..21 /\ Is(j, "memory.stat", memoryStatFields[j - 5])
    BY <1>1, <1>2, <1>3, <1>4, <1>6, NumberFileFacts
  <2>2. memoryStatFields[i - 5] = memoryStatFields[j - 5]
    BY <1>2, <1>6, <2>1
  <2>3. i - 5 \in 1..16 /\ j - 5 \in 1..16
    BY <1>6, <2>1
  <2>4. i - 5 = j - 5
    BY <2>2, <2>3, StatFieldLists
  <2> QED
    BY <2>4
<1>7. CASE i \in 22..27 /\ Is(i, "cpu.stat", cpuStatFields[i - 21])
  <2>1. j \in 22..27 /\ Is(j, "cpu.stat", cpuStatFields[j - 21])
    BY <1>1, <1>2, <1>3, <1>4, <1>7, NumberFileFacts
  <2>2. cpuStatFields[i - 21] = cpuStatFields[j - 21]
    BY <1>2, <1>7, <2>1
  <2>3. i - 21 \in 1..6 /\ j - 21 \in 1..6
    BY <1>7, <2>1
  <2>4. i - 21 = j - 21
    BY <2>2, <2>3, StatFieldLists
  <2> QED
    BY <2>4
<1> QED
  BY <1>1, <1>5, <1>6, <1>7

(* Of each controller the current value is read before the peak.           *)
LEMMA CurrentBeforePeak ==
  ASSUME NEW c \in Controllers
  PROVE  \E i, j \in 1..30 : /\ i < j
                             /\ cgroupMetrics[i].desc.name = Number(Current[c])
                             /\ cgroupMetrics[j].desc.name = Number(Peak[c])
<1> DEFINE Named(i, file) == cgroupMetrics[i].desc.name = Number(file)
<1>1. \A i \in 1..5 \cup 28..30 : Named(i, NumberFile[i])
  <2>1. \A i \in 1..5 \cup 28..30 : i \in 1..30 /\ i \notin 6..21 /\ i \notin 22..27
    OBVIOUS
  <2> QED
    BY <2>1, Rows DEF Number, RowOf, Metric, NewDesc
<1> HIDE DEF Named
<1>2. CASE c = "memory"
  <2>1. Current[c] = NumberFile[1] /\ Peak[c] = NumberFile[2]
    BY <1>2 DEF Current, Peak, NumberFile
  <2>2. Named(1, Current[c]) /\ Named(2, Peak[c])
    BY <1>1, <2>1
  <2> QED
    BY <2>2 DEF Named
<1>3. CASE c = "pids"
  <2>1. Current[c] = NumberFile[28] /\ Peak[c] = NumberFile[30]
    BY <1>3 DEF Current, Peak, NumberFile
  <2>2. Named(28, Current[c]) /\ Named(30, Peak[c])
    BY <1>1, <2>1
  <2> QED
    BY <2>2 DEF Named
<1> QED
  BY <1>2, <1>3 DEF Controllers

(***************************************************************************)
(* What the files show, and what the readers make of it.                   *)
(***************************************************************************)
Shown(v) == IF v = NoLimit THEN -1 ELSE v

(* The groups of files have no file in common.                             *)
LEMMA FilesApart ==
  /\ \A file \in NumberFiles :
       /\ file \notin DOMAIN StatFields
       /\ file \notin {"cpu.max", "io.stat", "io"}
  /\ \A file \in DOMAIN StatFields :
       file \notin {"cpu.max", "io.stat", "io"}
  /\ \A file \in LimitFiles : file \in NumberFiles
BY StatFieldsOf DEF NumberFiles, LimitFiles

(* What each group of files shows.                                         *)
LEMMA ContentOf ==
  /\ \A file \in NumberFiles : Content(file) = <<<<stat[Number(file)]>>>>
  /\ \A file \in DOMAIN StatFields :
       Content(file) = [i \in DOMAIN StatFields[file] |->
                          <<StatFields[file][i], stat[<<file, StatFields[file][i]>>]>>]
  /\ Content("cpu.max") = <<<<stat[CpuMax[1]], stat[CpuMax[2]]>>>>
  /\ Content("io.stat") =
       [i \in DOMAIN SetToSeq(Used) |->
          <<SetToSeq(Used)[i]>> \o Pairs(diskIo[SetToSeq(Used)[i]], ioStatKeys)]
  /\ Content("io") = Pairs(procIo, procIoKeys) \o <<<<"cancelled_write_bytes", 0>>>>
<1>1. ASSUME NEW file \in NumberFiles
      PROVE  Content(file) = <<<<stat[Number(file)]>>>>
  BY FilesApart DEF Content, Number
<1>2. ASSUME NEW file \in DOMAIN StatFields
      PROVE  Content(file) = [i \in DOMAIN StatFields[file] |->
                          <<StatFields[file][i], stat[<<file, StatFields[file][i]>>]>>]
  <2> DEFINE lines == [i \in DOMAIN StatFields[file] |->
                          <<StatFields[file][i], stat[<<file, StatFields[file][i]>>]>>]
  <2>1. Content(file) = lines
    BY Zenon, FilesApart, <1>2 DEF Content
  <2> QED
    BY <2>1
<1>3. Content("cpu.max") = <<<<stat[CpuMax[1]], stat[CpuMax[2]]>>>>
  BY FilesApart DEF Content
<1>4. Content("io.stat") =
       [i \in DOMAIN SetToSeq(Used) |->
          <<SetToSeq(Used)[i]>> \o Pairs(diskIo[SetToSeq(Used)[i]], ioStatKeys)]
  BY FilesApart DEF Content
<1>5. Content("io") = Pairs(procIo, procIoKeys) \o <<<<"cancelled_write_bytes", 0>>>>
  BY FilesApart DEF Content
<1> QED
  BY <1>1, <1>2, <1>3, <1>4, <1>5

(* The quantities, and which of them may show "max".                       *)
LEMMA CpuMaxParts ==
  /\ DOMAIN CpuMax = 1..2
  /\ CpuMax[1] = <<"cpu.max", "quota">> /\ CpuMax[2] = <<"cpu.max", "period">>
  /\ ToSet(CpuMax) = {CpuMax[1], CpuMax[2]}
  /\ CpuMax[1] # CpuMax[2]
BY DEF CpuMax, ToSet

(* Every row is for one of the quantities.                                 *)
LEMMA QuantityOfRow ==
  ASSUME NEW i \in 1..30
  PROVE  cgroupMetrics[i].desc.name \in Quantities
<1>1. cgroupMetrics[i].desc.name
        = <<cgroupMetrics[i].cgroupFile, cgroupMetrics[i].cgroupFileField>>
  BY RowFacts DEF RowFact
<1> QED
  BY <1>1, Table DEF Quantities

(* Every quantity is a number, a field or one of cpu.max.                  *)
LEMMA QuantityIsKnown ==
  ASSUME NEW q \in Quantities
  PROVE  \/ \E file \in NumberFiles : q = Number(file)
         \/ \E file \in DOMAIN StatFields : \E k \in DOMAIN StatFields[file] :
              q = <<file, StatFields[file][k]>>
         \/ q \in {CpuMax[1], CpuMax[2]}
<1>1. CASE q \in ToSet(CpuMax)
  BY <1>1, CpuMaxParts
<1>2. CASE q \notin ToSet(CpuMax)
  <2>1. PICK i \in 1..30 : q = <<cgroupMetrics[i].cgroupFile, cgroupMetrics[i].cgroupFileField>>
    BY <1>2, Table DEF Quantities
  <2>2. RowFact(cgroupMetrics[i])
    BY RowFacts
  <2>3. CASE /\ cgroupMetrics[i].cgroupFile \in NumberFiles
             /\ cgroupMetrics[i].cgroupFileField = NoField
    BY <2>1, <2>3 DEF Number
  <2>4. CASE /\ cgroupMetrics[i].cgroupFile \in DOMAIN StatFields
             /\ \E k \in DOMAIN StatFields[cgroupMetrics[i].cgroupFile] :
                  cgroupMetrics[i].cgroupFileField = StatFields[cgroupMetrics[i].cgroupFile][k]
    BY <2>1, <2>4
  <2> QED
    BY <2>2, <2>3, <2>4 DEF RowFact
<1> QED
  BY <1>1, <1>2

(* A file that is followed belongs to one of the groups.                   *)
LEMMA KnownFiles ==
  ASSUME ReadingsTypeOK, NEW file \in files
  PROVE  file \in NumberFiles \cup DOMAIN StatFields \cup {"cpu.max", "io.stat", "io"}
<1>1. file \in FilesRead
  BY FileGroupsAssumption DEF ReadingsTypeOK
<1>2. CASE file \in {"io.stat", "io"}
  BY <1>2
<1>3. CASE file \notin {"io.stat", "io"}
  <2>1. PICK q \in Quantities : file = q[1]
    BY <1>1, <1>3 DEF FilesRead
  <2>2. CASE \E f \in NumberFiles : q = Number(f)
    BY <2>1, <2>2 DEF Number
  <2>3. CASE \E f \in DOMAIN StatFields : \E k \in DOMAIN StatFields[f] :
              q = <<f, StatFields[f][k]>>
    BY <2>1, <2>3
  <2>4. CASE q \in {CpuMax[1], CpuMax[2]}
    BY <2>1, <2>4, CpuMaxParts
  <2> QED
    BY <2>2, <2>3, <2>4, QuantityIsKnown
<1> QED
  BY <1>2, <1>3

(* Fields never show "max".                                                *)
LEMMA StatFieldIsNoLimit ==
  ASSUME NEW file \in DOMAIN StatFields, NEW field
  PROVE  <<file, field>> \notin Limits
BY FilesApart, CpuMaxParts DEF Limits, Number

(* Current value and peak are files of their own for each controller.      *)
LEMMA ControllerFiles ==
  ASSUME NEW c \in Controllers
  PROVE  /\ Current[c] \in NumberFiles /\ Peak[c] \in NumberFiles
         /\ Current[c] # Peak[c]
         /\ Current[c] \notin LimitFiles /\ Peak[c] \notin LimitFiles
         /\ \A d \in Controllers :
              d # c => {Current[c], Peak[c]} \cap {Current[d], Peak[d]} = {}
         /\ \A d \in Controllers : Current[c] # Peak[d]
         /\ \A d \in Controllers : Current[c] = Current[d] => c = d
BY DEF Controllers, Current, Peak, NumberFiles, LimitFiles

(* A word is shown as a number that says the same.                         *)
LEMMA WordShown ==
  ASSUME NEW v \in 0..MaxCount \cup {NoLimit}
  PROVE  /\ Word(Shown(v)) = v
         /\ Shown(v) \in -1..MaxCount
         /\ v \in 0..MaxCount => Shown(v) = v
         /\ Shown(v) >= 0 => v \in 0..MaxCount /\ Shown(v) = v
<1>1. CASE v = NoLimit
  BY <1>1, ReadingsAssumption DEF Word, Shown
<1>2. CASE v # NoLimit
  BY <1>2, ReadingsAssumption DEF Word, Shown
<1> QED
  BY <1>1, <1>2

(* What the quantities that are followed may show.                         *)
LEMMA FollowedShown ==
  ASSUME ReadingsTypeOK, NEW q \in Followed
  PROVE  /\ stat[q] \in 0..MaxCount \cup {NoLimit}
         /\ q \notin Limits => stat[q] \in 0..MaxCount
BY DEF ReadingsTypeOK

(* A file with one number shows it, and ReadInteger returns it.            *)
LEMMA ReadNumber ==
  ASSUME ReadingsTypeOK, NEW file \in NumberFiles, Number(file) \in Followed,
         NEW desc, desc.name = Number(file)
  PROVE  /\ Exists(file) => ReadInteger(file) = {Shown(stat[Number(file)])}
         /\ Says(file, Content(file), Sample(desc, <<>>, Shown(stat[Number(file)])))
<1> DEFINE v == stat[Number(file)]
<1>1. v \in 0..MaxCount \cup {NoLimit}
  BY FollowedShown
<1>2. Content(file) = <<<<v>>>>
  BY ContentOf
<1> HIDE DEF v
<1>3. /\ <<<<v>>>> = <<<<NoLimit>>>> <=> v = NoLimit
      /\ <<<<v>>>>[1][1] = v
  OBVIOUS
<1>4. Exists(file) => ReadInteger(file) = {Shown(v)}
  <2>1. CASE v = NoLimit
    BY <1>2, <1>3, <2>1 DEF ReadInteger, Shown
  <2>2. CASE v # NoLimit
    <3>1. v \in Int
      BY <1>1, <2>2, ReadingsAssumption
    <3> QED
      BY <1>2, <1>3, <2>2, <3>1 DEF ReadInteger, Shown, Atoi
  <2> QED
    BY <2>1, <2>2
<1>5. Says(file, Content(file), Sample(desc, <<>>, Shown(v)))
  <2>1. Word(Shown(v)) = v
    BY <1>1, WordShown
  <2>2. Sample(desc, <<>>, Shown(v)).value = Shown(v)
    BY DEF Sample
  <2>3. file \notin {"memory.stat", "cpu.stat", "cpu.max", "io.stat", "io"}
    BY FilesApart, StatFieldsOf
  <2> QED
    BY <1>2, <2>1, <2>2, <2>3 DEF Says
<1> QED
  BY <1>4, <1>5 DEF v

(* ReadIntegerField returns what the field's line shows.                   *)
LEMMA ReadStatField ==
  ASSUME ReadingsTypeOK, NEW file \in DOMAIN StatFields, NEW k \in DOMAIN StatFields[file],
         NEW field, field = StatFields[file][k], <<file, field>> \in Followed,
         NEW desc, desc.name = <<file, field>>
  PROVE  /\ Exists(file) => ReadIntegerField(file, field) = {Shown(stat[<<file, field>>])}
         /\ Says(file, Content(file), Sample(desc, <<>>, Shown(stat[<<file, field>>])))
<1> DEFINE v == stat[<<file, field>>]
           lines == Content(file)
           fields == StatFields[file]
           hits == {i \in DOMAIN lines : Len(lines[i]) = 2 /\ lines[i][1] = field}
<1>1. v \in 0..MaxCount /\ Shown(v) = v /\ v \in Int
  BY FollowedShown, StatFieldIsNoLimit, WordShown, ReadingsAssumption
<1>2. /\ DOMAIN lines = DOMAIN fields
      /\ \A i \in DOMAIN lines : lines[i] = <<fields[i], stat[<<file, fields[i]>>]>>
  BY ContentOf
<1>3. ASSUME NEW i \in DOMAIN lines
      PROVE  Len(lines[i]) = 2 /\ lines[i][1] = fields[i]
  <2> DEFINE x == fields[i]
             y == stat[<<file, fields[i]>>]
  <2>1. lines[i] = <<x, y>>
    BY <1>2
  <2> HIDE DEF lines, x, y
  <2>2. Len(<<x, y>>) = 2 /\ <<x, y>>[1] = x
    OBVIOUS
  <2> QED
    BY <2>1, <2>2 DEF x
<1>4. lines[k] = <<field, v>> /\ lines[k][2] = v
  BY <1>2
<1>5. \A i, j \in DOMAIN fields : fields[i] = fields[j] => i = j
  BY StatFieldsDistinct
<1>6. k \in Int
  BY StatFieldsDistinct
<1> HIDE DEF lines, v
<1>7. hits = {k}
  BY <1>2, <1>3, <1>5
<1>8. (CHOOSE i \in hits : \A j \in hits : i <= j) = k
  BY <1>6, <1>7
<1> HIDE DEF hits
<1>9. Exists(file) => ReadIntegerField(file, field) = Atoi(lines[k][2])
  <2>1. hits # {}
    BY <1>7
  <2> QED
    BY <1>8, <2>1 DEF ReadIntegerField, hits, lines
<1>10. Atoi(lines[k][2]) = {v}
  BY <1>1, <1>4 DEF Atoi
<1>11. Says(file, lines, Sample(desc, <<>>, v))
  <2>1. <<field, v>> \in ToSet(lines)
    BY <1>2, <1>4 DEF ToSet
  <2>2. /\ Sample(desc, <<>>, v).value = v
        /\ Sample(desc, <<>>, v).desc.name[2] = field
    BY DEF Sample
  <2>3. file \in {"memory.stat", "cpu.stat"}
    BY StatFieldsOf
  <2> QED
    BY <2>1, <2>2, <2>3 DEF Says
<1> QED
  BY <1>1, <1>9, <1>10, <1>11 DEF lines, v

(* What a row sends is what its file shows.                                *)
RowValue(i) == Shown(stat[cgroupMetrics[i].desc.name])

(* A row reads what its file shows, or nothing.                            *)
LEMMA RowRead ==
  ASSUME ReadingsTypeOK, NEW i \in 1..30, cgroupMetrics[i].cgroupFile \in files
  PROVE  /\ cgroupMetrics[i].desc.name \in Followed
         /\ Exists(cgroupMetrics[i].cgroupFile) =>
              readCgroupMetric(cgroupMetrics[i]) = {RowValue(i)}
         /\ ~Exists(cgroupMetrics[i].cgroupFile) => readCgroupMetric(cgroupMetrics[i]) = {}
         /\ Says(cgroupMetrics[i].cgroupFile, Content(cgroupMetrics[i].cgroupFile),
                 Sample(cgroupMetrics[i].desc, <<>>, RowValue(i)))
<1> DEFINE m == cgroupMetrics[i]
           file == m.cgroupFile
           field == m.cgroupFileField
<1>1. RowFact(m)
  BY RowFacts
<1>2. m.desc.name = <<file, field>> /\ m.desc.name[1] = file
  BY <1>1 DEF RowFact
<1>3. m.desc.name \in Followed
  BY <1>2, QuantityOfRow DEF Followed
<1>4. ~Exists(file) => readCgroupMetric(m) = {}
  BY DEF readCgroupMetric, ReadInteger, ReadIntegerField
<1> HIDE DEF m, file, field
<1>5. CASE file \in NumberFiles /\ field = NoField
  <2>1. m.desc.name = Number(file)
    BY <1>2, <1>5 DEF Number
  <2>2. readCgroupMetric(m) = ReadInteger(file)
    BY <1>5 DEF readCgroupMetric, file, field
  <2>3. /\ Exists(file) => ReadInteger(file) = {Shown(stat[Number(file)])}
        /\ Says(file, Content(file), Sample(m.desc, <<>>, Shown(stat[Number(file)])))
    BY <1>3, <1>5, <2>1, ReadNumber
  <2> QED
    BY <1>3, <1>4, <2>1, <2>2, <2>3 DEF RowValue, m, file
<1>6. CASE /\ file \in DOMAIN StatFields
           /\ \E k \in DOMAIN StatFields[file] : field = StatFields[file][k]
  <2>1. PICK k \in DOMAIN StatFields[file] : field = StatFields[file][k]
    BY <1>6
  <2>2. field # NoField
    BY <1>6, <2>1, StatFieldsDistinct
  <2>3. readCgroupMetric(m) = ReadIntegerField(file, field)
    BY <2>2 DEF readCgroupMetric, file, field
  <2>4. /\ Exists(file) => ReadIntegerField(file, field) = {Shown(stat[<<file, field>>])}
        /\ Says(file, Content(file), Sample(m.desc, <<>>, Shown(stat[<<file, field>>])))
    BY <1>2, <1>3, <1>6, <2>1, ReadStatField
  <2> QED
    BY <1>2, <1>3, <1>4, <2>3, <2>4 DEF RowValue, m, file
<1> QED
  BY <1>1, <1>5, <1>6 DEF RowFact, file, field

(* The words of cpu.max.                                                   *)
CpuMaxDesc(j) == NewDesc(CpuMax[j], containerLabels)

CpuMaxSample(j) == Sample(CpuMaxDesc(j), <<>>, Shown(stat[CpuMax[j]]))

(* The table of files with several numbers has one row, cpu.max.           *)
LEMMA MultiTable ==
  /\ DOMAIN cgroupMultiValueMetrics = 1..1 /\ Len(cgroupMultiValueMetrics) = 1
  /\ cgroupMultiValueMetrics[1].cgroupFile = "cpu.max"
  /\ DOMAIN cgroupMultiValueMetrics[1].descs = 1..2
  /\ \A j \in 1..2 : cgroupMultiValueMetrics[1].descs[j] = CpuMaxDesc(j)
BY DEF cgroupMultiValueMetrics, CpuMaxDesc, CpuMax

(* Quota and period are followed together, and only the quota may be       *)
(* "max".                                                                  *)
LEMMA CpuMaxFollowed ==
  ASSUME ReadingsTypeOK, "cpu.max" \in files
  PROVE  /\ CpuMax[1] \in Followed /\ CpuMax[2] \in Followed
         /\ CpuMax[2] \notin Limits
         /\ stat[CpuMax[1]] \in 0..MaxCount \cup {NoLimit}
         /\ stat[CpuMax[2]] \in 0..MaxCount
<1>1. CpuMax[1] \in Followed /\ CpuMax[2] \in Followed
  BY CpuMaxParts DEF Followed, Quantities
<1>2. CpuMax[2] \notin Limits
  BY CpuMaxParts, FilesApart DEF Limits, Number
<1> QED
  BY <1>1, <1>2, FollowedShown

(* All words parse, and are returned in their order.                       *)
LEMMA ReadCpuMax ==
  ASSUME ReadingsTypeOK, "cpu.max" \in files, Exists("cpu.max")
  PROVE  ReadSpaceSeparatedIntegers("cpu.max")
           = {[j \in 1..2 |-> Shown(stat[CpuMax[j]])]}
<1> DEFINE fields == Content("cpu.max")[1]
           values == [i \in DOMAIN fields |->
                        IF fields[i] = NoLimit THEN {-1} ELSE Atoi(fields[i])]
<1>1. fields = <<stat[CpuMax[1]], stat[CpuMax[2]]>>
  BY ContentOf
<1>2. DOMAIN fields = 1..2 /\ \A j \in 1..2 : fields[j] = stat[CpuMax[j]]
  BY <1>1
<1>3. \A j \in 1..2 : stat[CpuMax[j]] \in 0..MaxCount \cup {NoLimit}
  BY CpuMaxFollowed
<1> HIDE DEF fields
<1>4. ASSUME NEW j \in 1..2
      PROVE  values[j] = {Shown(stat[CpuMax[j]])}
  <2>1. CASE fields[j] = NoLimit
    BY <1>2, <2>1 DEF Shown
  <2>2. CASE fields[j] # NoLimit
    <3>1. fields[j] \in Int
      BY <1>2, <1>3, <2>2, ReadingsAssumption
    <3> QED
      BY <1>2, <2>2, <3>1 DEF Shown, Atoi
  <2> QED
    BY <2>1, <2>2
<1>5. DOMAIN values = 1..2
  BY <1>2
<1>6. ReadSpaceSeparatedIntegers("cpu.max") =
        IF \E i \in DOMAIN fields : values[i] = {}
        THEN {}
        ELSE {[i \in DOMAIN fields |-> CHOOSE v \in values[i] : TRUE]}
  BY DEF ReadSpaceSeparatedIntegers, fields
<1> HIDE DEF values
<1>7. ~\E i \in DOMAIN fields : values[i] = {}
  BY <1>2, <1>4
<1>8. \A j \in 1..2 : (CHOOSE v \in values[j] : TRUE) = Shown(stat[CpuMax[j]])
  BY <1>4
<1>9. [i \in DOMAIN fields |-> CHOOSE v \in values[i] : TRUE]
        = [j \in 1..2 |-> Shown(stat[CpuMax[j]])]
  BY <1>2, <1>8
<1> QED
  BY <1>6, <1>7, <1>9

(* The line of cpu.max says what is sent of it.                            *)
LEMMA CpuMaxSays ==
  ASSUME ReadingsTypeOK, "cpu.max" \in files, NEW j \in 1..2
  PROVE  Says("cpu.max", Content("cpu.max"), CpuMaxSample(j))
<1> DEFINE v == Shown(stat[CpuMax[j]])
<1>1. Word(v) = stat[CpuMax[j]]
  <2>1. stat[CpuMax[j]] \in 0..MaxCount \cup {NoLimit}
    <3>1. CASE j = 1
      BY <3>1, CpuMaxFollowed
    <3>2. CASE j = 2
      BY <3>2, CpuMaxFollowed
    <3> QED
      BY <3>1, <3>2
  <2> QED
    BY <2>1, WordShown
<1>2. /\ CpuMaxSample(j).value = v
      /\ CpuMaxSample(j).desc.name = CpuMax[j]
  BY DEF CpuMaxSample, Sample, CpuMaxDesc, NewDesc
<1>3. (IF CpuMax[j][2] = "quota" THEN 1 ELSE 2) = j
  BY CpuMaxParts
<1>4. Content("cpu.max")[1] = <<stat[CpuMax[1]], stat[CpuMax[2]]>>
  BY ContentOf
<1>5. Content("cpu.max")[1][j] = stat[CpuMax[j]]
  BY <1>4
<1> QED
  BY <1>1, <1>2, <1>3, <1>5 DEF Says

(* The last value of a counter that is there once.                         *)
LEMMA LastOfOne ==
  ASSUME NEW pairs, NEW k \in DOMAIN pairs, k \in Int, NEW key,
         pairs[k][1] = key, pairs[k][2] \in Int,
         \A i \in DOMAIN pairs : pairs[i][1] = key => i = k
  PROVE  LastValue(pairs, key) = pairs[k][2]
<1> DEFINE hits == {i \in DOMAIN pairs : pairs[i][1] = key /\ pairs[i][2] \in Int}
<1>1. hits = {k}
  OBVIOUS
<1> HIDE DEF hits
<1>2. (CHOOSE i \in hits : \A j \in hits : j <= i) = k
  BY <1>1
<1>3. hits # {}
  BY <1>1
<1> QED
  BY <1>2, <1>3 DEF LastValue, hits

(* No counter has two keys.                                                *)
LEMMA Keys ==
  /\ DOMAIN ioStatKeys = 1..6 /\ DOMAIN procIoKeys = 1..6
  /\ \A i, j \in 1..6 : ioStatKeys[i] = ioStatKeys[j] => i = j
  /\ \A i, j \in 1..6 : procIoKeys[i] = procIoKeys[j] => i = j
  /\ \A i \in 1..6 : procIoKeys[i] # "cancelled_write_bytes"
BY DEF ioStatKeys, procIoKeys

(* The keys as a list and as a set.                                        *)
LEMMA KeySets ==
  /\ \A key \in ToSet(ioStatKeys) : \E k \in 1..6 : key = ioStatKeys[k]
  /\ \A k \in 1..6 : ioStatKeys[k] \in ToSet(ioStatKeys)
  /\ \A key \in ToSet(procIoKeys) : \E k \in 1..6 : key = procIoKeys[k]
  /\ \A k \in 1..6 : procIoKeys[k] \in ToSet(procIoKeys)
BY Keys DEF ToSet

(* A pair for each of six keys.                                            *)
LEMMA PairsOf ==
  ASSUME NEW f, NEW keys, DOMAIN keys = 1..6
  PROVE  /\ DOMAIN Pairs(f, keys) = 1..6
         /\ \A k \in 1..6 : Pairs(f, keys)[k] = <<keys[k], f[keys[k]]>>
BY DEF Pairs

(* The file io of the process.                                             *)
LEMMA IoLines ==
  /\ DOMAIN Content("io") = 1..7
  /\ \A k \in 1..6 : Content("io")[k] = <<procIoKeys[k], procIo[procIoKeys[k]]>>
  /\ Content("io")[7] = <<"cancelled_write_bytes", 0>>
<1> DEFINE p == Pairs(procIo, procIoKeys)
           q == <<<<"cancelled_write_bytes", 0>>>>
           S == {p[k] : k \in 1..6} \cup {q[1]}
<1>1. DOMAIN p = 1..6 /\ \A k \in 1..6 : p[k] = <<procIoKeys[k], procIo[procIoKeys[k]]>>
  BY Keys, PairsOf
<1>2. p = [k \in 1..6 |-> p[k]]
  BY <1>1 DEF Pairs
<1> HIDE DEF p
<1>3. Sized(S, p, 6)
  BY <1>2 DEF Sized
<1>4. Sized(S, q, 1)
  BY DEF Sized
<1>5. /\ Sized(S, Joined(p, q), 7)
      /\ \A i \in 1..6 : Joined(p, q)[i] = p[i]
      /\ \A i \in 1..1 : Joined(p, q)[6 + i] = q[i]
  BY <1>3, <1>4, Concatenated
<1>6. Content("io") = Joined(p, q)
  BY ContentOf DEF Joined, p
<1>7. Joined(p, q)[7] = q[1]
  BY <1>5
<1>8. q[1] = <<"cancelled_write_bytes", 0>>
  OBVIOUS
<1>9. DOMAIN Joined(p, q) = 1..7
  BY <1>5 DEF Sized
<1> QED
  BY <1>1, <1>5, <1>6, <1>7, <1>8, <1>9

(* What is read of a process is what its file shows.                       *)
LEMMA ReadIo ==
  ASSUME ReadingsTypeOK
  PROVE  /\ Exists("io") => ParseProcIO = {[key \in ToSet(procIoKeys) |-> procIo[key]]}
         /\ \A key \in ToSet(procIoKeys) : <<key, procIo[key]>> \in ToSet(Content("io"))
<1> DEFINE lines == Content("io")
<1>1. ASSUME NEW key \in ToSet(procIoKeys)
      PROVE  LastValue(lines, key) = procIo[key] /\ <<key, procIo[key]>> \in ToSet(lines)
  <2>1. PICK k \in 1..6 : key = procIoKeys[k]
    BY KeySets
  <2>2. k \in 1..7 /\ lines[k] = <<key, procIo[key]>> /\ DOMAIN lines = 1..7
    BY <2>1, IoLines
  <2>3. lines[k][1] = key /\ lines[k][2] = procIo[key] /\ procIo[key] \in Int
    BY <2>2, ReadingsAssumption DEF ReadingsTypeOK
  <2>4. ASSUME NEW i \in 1..7, lines[i][1] = key
        PROVE  i = k
    <3>1. CASE i \in 1..6
      <4>1. lines[i][1] = procIoKeys[i]
        BY <3>1, IoLines
      <4> QED
        BY <2>1, <2>4, <3>1, <4>1, Keys
    <3>2. CASE i = 7
      <4>1. lines[i][1] = "cancelled_write_bytes"
        BY <3>2, IoLines
      <4> QED
        BY <2>1, <2>4, <4>1, Keys
    <3> QED
      BY <3>1, <3>2
  <2> HIDE DEF lines
  <2>5. k \in DOMAIN lines /\ \A i \in DOMAIN lines : lines[i][1] = key => i = k
    BY <2>2, <2>4
  <2>6. LastValue(lines, key) = lines[k][2]
    BY <2>3, <2>5, LastOfOne
  <2> QED
    BY <2>2, <2>3, <2>6 DEF ToSet
<1> HIDE DEF lines
<1>2. Exists("io") => ParseProcIO = {[key \in ToSet(procIoKeys) |-> LastValue(lines, key)]}
  BY DEF ParseProcIO, lines
<1>3. [key \in ToSet(procIoKeys) |-> LastValue(lines, key)]
        = [key \in ToSet(procIoKeys) |-> procIo[key]]
  BY <1>1
<1> QED
  BY <1>1, <1>2, <1>3 DEF lines

(* SetToSeq lists every element of a finite set.                           *)
LEMMA SetToSeqLists ==
  ASSUME NEW S, IsFiniteSet(S)
  PROVE  /\ DOMAIN SetToSeq(S) = 1..Cardinality(S)
         /\ \A i \in DOMAIN SetToSeq(S) : SetToSeq(S)[i] \in S
         /\ \A x \in S : \E i \in DOMAIN SetToSeq(S) : SetToSeq(S)[i] = x
<1> DEFINE n == Cardinality(S)
           s == SetToSeq(S)
<1>1. n \in Nat /\ ExistsBijection(1..n, S)
  BY FS_CardinalityType
<1>2. \E f \in [1..n -> S] : IsInjective(f)
  BY <1>1 DEF ExistsBijection, Bijection, Injection
<1>3. s \in [1..n -> S] /\ IsInjective(s)
  BY <1>2 DEF SetToSeq
<1> HIDE DEF s
<1>4. s \in Injection(1..n, S)
  BY <1>3 DEF Injection
<1>5. IsFiniteSet(1..n) /\ Cardinality(1..n) = n
  BY <1>1, FS_Interval
<1>6. s \in Surjection(1..n, S)
  BY <1>4, <1>5, FS_Injection
<1> QED
  BY <1>3, <1>6 DEF Surjection, s

(* A line of io.stat.                                                      *)
IoStatLine(d) == <<d>> \o Pairs(diskIo[d], ioStatKeys)

(* The line of a device begins with it, then come its counters.            *)
LEMMA IoStatLineParts ==
  ASSUME NEW d
  PROVE  /\ IoStatLine(d)[1] = d
         /\ DOMAIN Tail(IoStatLine(d)) = 1..6
         /\ \A k \in 1..6 :
              Tail(IoStatLine(d))[k] = <<ioStatKeys[k], diskIo[d][ioStatKeys[k]]>>
<1> DEFINE p == <<d>>
           q == Pairs(diskIo[d], ioStatKeys)
           S == {q[k] : k \in 1..6} \cup {p[1]}
           line == Joined(p, q)
<1>1. DOMAIN q = 1..6 /\ \A k \in 1..6 : q[k] = <<ioStatKeys[k], diskIo[d][ioStatKeys[k]]>>
  BY Keys, PairsOf
<1>2. q = [k \in 1..6 |-> q[k]]
  BY <1>1 DEF Pairs
<1> HIDE DEF q
<1>3. Sized(S, q, 6)
  BY <1>2 DEF Sized
<1>4. Sized(S, p, 1)
  BY DEF Sized
<1>5. /\ Sized(S, line, 7)
      /\ \A i \in 1..1 : line[i] = p[i]
      /\ \A i \in 1..6 : line[1 + i] = q[i]
  BY <1>3, <1>4, Concatenated
<1>6. IoStatLine(d) = line
  BY DEF Joined, q, IoStatLine
<1>7. line[1] = d
  BY <1>5
<1> HIDE DEF line, S
<1>8. line \in Seq(S) /\ Len(line) = 7
  BY <1>5 DEF Sized
<1>9. /\ DOMAIN Tail(line) = 1..6
      /\ \A k \in 1..6 : Tail(line)[k] = line[k + 1]
  <2> DEFINE t == Tail(line)
  <2>1. line # <<>>
    BY <1>8
  <2>2. /\ t \in Seq(S)
        /\ Len(t) = Len(line) - 1
        /\ \A k \in 1..Len(t) : t[k] = line[k + 1]
    BY <1>8, <2>1, HeadTailProperties
  <2> HIDE DEF t
  <2>3. Len(t) = 6
    BY <1>8, <2>2
  <2>4. DOMAIN t = 1..6
    BY <2>2, <2>3
  <2> QED
    BY <2>2, <2>3, <2>4 DEF t
<1>10. \A k \in 1..6 : Tail(line)[k] = q[k]
  <2>1. \A k \in 1..6 : k + 1 = 1 + k
    OBVIOUS
  <2> QED
    BY <1>5, <1>9, <2>1
<1> QED
  BY <1>1, <1>6, <1>7, <1>9, <1>10

IoStat(d) == [dev |-> d, counters |-> [key \in ToSet(ioStatKeys) |-> diskIo[d][key]]]

(* A line is parsed to what it says.                                       *)
LEMMA ParseLine ==
  ASSUME ReadingsTypeOK, NEW d \in Devices
  PROVE  /\ parseIoStatLine(IoStatLine(d)) = {IoStat(d)}
         /\ \A key \in ToSet(ioStatKeys) :
              <<key, diskIo[d][key]>> \in ToSet(Tail(IoStatLine(d)))
<1> DEFINE pairs == Tail(IoStatLine(d))
<1>1. d \in Nat \X Nat /\ IoStatLine(d)[1] = d
  BY ReadingsAssumption, IoStatLineParts
<1>2. DOMAIN pairs = 1..6
  BY IoStatLineParts
<1>3. ASSUME NEW key \in ToSet(ioStatKeys)
      PROVE  LastValue(pairs, key) = diskIo[d][key] /\ <<key, diskIo[d][key]>> \in ToSet(pairs)
  <2>1. PICK k \in 1..6 : key = ioStatKeys[k]
    BY KeySets
  <2>2. pairs[k] = <<key, diskIo[d][key]>>
    BY <2>1, IoStatLineParts
  <2>3. pairs[k][1] = key /\ pairs[k][2] = diskIo[d][key] /\ diskIo[d][key] \in Int
    <3>1. diskIo[d] \in [ToSet(ioStatKeys) -> 0..MaxCount]
      BY DEF ReadingsTypeOK
    <3>2. diskIo[d][key] \in 0..MaxCount
      BY <3>1
    <3> HIDE DEF pairs
    <3> QED
      BY <2>2, <3>2, ReadingsAssumption
  <2>4. \A i \in 1..6 : pairs[i][1] = ioStatKeys[i]
    <3>1. \A i \in 1..6 : pairs[i] = <<ioStatKeys[i], diskIo[d][ioStatKeys[i]]>>
      BY IoStatLineParts
    <3> HIDE DEF pairs
    <3> QED
      BY <3>1
  <2> HIDE DEF pairs
  <2>5. k \in DOMAIN pairs /\ k \in Int /\ \A i \in DOMAIN pairs : pairs[i][1] = key => i = k
    BY <1>2, <2>1, <2>4, Keys
  <2>6. LastValue(pairs, key) = pairs[k][2]
    BY <2>3, <2>5, LastOfOne
  <2> QED
    BY <2>2, <2>3, <2>5, <2>6 DEF ToSet
<1> HIDE DEF pairs
<1>4. [key \in ToSet(ioStatKeys) |-> LastValue(pairs, key)]
        = [key \in ToSet(ioStatKeys) |-> diskIo[d][key]]
  BY <1>3
<1>5. parseIoStatLine(IoStatLine(d)) =
        {[dev |-> d, counters |-> [key \in ToSet(ioStatKeys) |-> LastValue(pairs, key)]]}
  BY <1>1 DEF parseIoStatLine, pairs
<1> QED
  BY <1>3, <1>4, <1>5 DEF IoStat, pairs

(* All devices that were used are in the file, and all are returned.       *)
LEMMA ReadDevices ==
  ASSUME ReadingsTypeOK
  PROVE  /\ Exists("io.stat") => ReadIoStat = {{IoStat(d) : d \in Used}}
         /\ \A d \in Used : IoStatLine(d) \in ToSet(Content("io.stat"))
<1> DEFINE devices == SetToSeq(Used)
           lines == Content("io.stat")
           stats == {parseIoStatLine(lines[i]) : i \in DOMAIN lines}
<1>1. Used \subseteq Devices
  BY DEF Used
<1>2. IsFiniteSet(Used)
  BY <1>1, FS_Subset, ReadingsAssumption
<1>3. /\ \A i \in DOMAIN devices : devices[i] \in Used
      /\ \A d \in Used : \E i \in DOMAIN devices : devices[i] = d
  BY <1>2, SetToSeqLists
<1>4. /\ DOMAIN lines = DOMAIN devices
      /\ \A i \in DOMAIN lines : lines[i] = IoStatLine(devices[i])
  BY ContentOf DEF IoStatLine
<1> HIDE DEF devices, lines
<1>5. \A d \in Used : \E i \in DOMAIN lines : lines[i] = IoStatLine(d)
  BY <1>3, <1>4
<1>6. \A d \in Used : IoStatLine(d) \in ToSet(lines)
  BY <1>5 DEF ToSet
<1>7. \A i \in DOMAIN lines : parseIoStatLine(lines[i]) = {IoStat(devices[i])}
  BY <1>1, <1>3, <1>4, ParseLine
<1>8. \A d \in Used : parseIoStatLine(IoStatLine(d)) = {IoStat(d)}
  BY <1>1, ParseLine
<1>9. stats = {{IoStat(d)} : d \in Used}
  <2>1. ASSUME NEW x \in stats PROVE x \in {{IoStat(d)} : d \in Used}
    <3>1. PICK i \in DOMAIN lines : x = parseIoStatLine(lines[i])
      OBVIOUS
    <3> QED
      BY <1>3, <1>4, <1>7, <3>1
  <2>2. ASSUME NEW d \in Used PROVE {IoStat(d)} \in stats
    <3>1. PICK i \in DOMAIN lines : lines[i] = IoStatLine(d)
      BY <1>5
    <3> QED
      BY <1>8, <3>1
  <2> HIDE DEF stats
  <2> QED
    BY <2>1, <2>2
<1>10. UNION stats = {IoStat(d) : d \in Used} /\ {} \notin stats
  <2> HIDE DEF stats
  <2>1. {} \notin stats
    BY <1>9
  <2>2. \A x : x \in UNION stats <=> x \in {IoStat(d) : d \in Used}
    BY <1>9
  <2> QED
    BY <2>1, <2>2
<1>11. Exists("io.stat") => ReadIoStat = IF {} \in stats THEN {} ELSE {UNION stats}
  BY DEF ReadIoStat, stats, lines
<1> QED
  BY <1>6, <1>10, <1>11 DEF lines

(***************************************************************************)
(* The kernel.                                                             *)
(***************************************************************************)
(* What its steps do to the values, to the peaks in particular.            *)
KernelEffect ==
  /\ ReadingsTypeOK'
  /\ absent' = absent
  /\ cgroup' => cgroup
  /\ process' => process
  /\ \A c \in Controllers : Number(Peak[c]) \in Followed =>
       /\ stat[Number(Peak[c])] <= stat'[Number(Peak[c])]
       /\ Number(Current[c]) \in Followed =>
            stat'[Number(Current[c])] <= stat'[Number(Peak[c])]

StatOK(f) ==
  /\ f \in [Followed -> 0..MaxCount \cup {NoLimit}]
  /\ \A q \in Followed \ Limits : f[q] \in 0..MaxCount

(* Neither current value nor peak is a limit.                              *)
LEMMA PeaksAreNoLimits ==
  ASSUME NEW c \in Controllers
  PROVE  /\ Number(Current[c]) \notin Limits
         /\ Number(Peak[c]) \notin Limits
         /\ Number(Current[c]) # Number(Peak[c])
<1>1. ASSUME NEW file \in NumberFiles, file \notin LimitFiles
      PROVE  Number(file) \notin Limits
  <2>1. Number(file) # CpuMax[1]
    BY CpuMaxParts, FilesApart DEF Number
  <2>2. \A f \in LimitFiles : Number(file) # <<f, NoField>>
    BY <1>1 DEF Number
  <2> QED
    BY <2>1, <2>2 DEF Limits, Number
<1>2. Number(Current[c]) # Number(Peak[c])
  BY ControllerFiles DEF Number
<1> QED
  BY <1>1, <1>2, ControllerFiles

(* A change of stat alone, and what it must respect.                       *)
LEMMA StatChange ==
  ASSUME ReadingsTypeOK, StatOK(stat'), UNCHANGED <<files, collectVars>>,
         UNCHANGED <<diskIo, procIo, absent, cgroup, process>>
  PROVE  ReadingsTypeOK'
BY DEF ReadingsTypeOK, StatOK, Followed, collectVars

(* A charge takes the peak along.                                          *)
LEMMA ChargeEffect ==
  ASSUME ReadingsTypeOK, PeakAhead, NEW c \in Controllers, Charge(c),
         UNCHANGED <<files, collectVars>>
  PROVE  KernelEffect
<1> DEFINE current == Number(Current[c])
           peak == Number(Peak[c])
<1>1. /\ current \in Followed /\ stat[current] < MaxCount
      /\ stat' = [stat EXCEPT ![current] = @ + 1,
                              ![peak] = IF @ > stat[current] THEN @ ELSE stat[current] + 1]
      /\ UNCHANGED <<diskIo, procIo, absent, cgroup, process>>
  BY DEF Charge, Countable, ReadingsTypeOK
<1>2. /\ stat \in [Followed -> 0..MaxCount \cup {NoLimit}]
      /\ \A q \in Followed \ Limits : stat[q] \in 0..MaxCount
  BY DEF ReadingsTypeOK
<1>3. current # peak /\ current \notin Limits /\ peak \notin Limits
  BY PeaksAreNoLimits
<1>4. MaxCount \in Nat
  BY ReadingsAssumption
<1> HIDE DEF current, peak
<1>5. /\ DOMAIN stat' = Followed
      /\ stat'[current] = stat[current] + 1
      /\ peak \in Followed =>
           stat'[peak] = IF stat[peak] > stat[current] THEN stat[peak] ELSE stat[current] + 1
      /\ \A q \in Followed \ {current, peak} : stat'[q] = stat[q]
  BY <1>1, <1>2, <1>3
<1>6. stat[current] \in 0..MaxCount /\ (peak \in Followed => stat[peak] \in 0..MaxCount)
  BY <1>1, <1>2, <1>3
<1>7. stat'[current] \in 0..MaxCount /\ (peak \in Followed => stat'[peak] \in 0..MaxCount)
  BY <1>1, <1>4, <1>5, <1>6
<1>8. StatOK(stat')
  <2>1. \A q \in Followed : stat'[q] \in 0..MaxCount \cup {NoLimit}
    BY <1>2, <1>5, <1>7
  <2>2. \A q \in Followed \ Limits : stat'[q] \in 0..MaxCount
    BY <1>2, <1>5, <1>7
  <2>3. stat' \in [Followed -> 0..MaxCount \cup {NoLimit}]
    <3>1. stat' = [q \in Followed |-> stat'[q]]
      BY <1>1, <1>2
    <3> QED
      BY <2>1, <3>1
  <2> QED
    BY <2>2, <2>3 DEF StatOK
<1>9. ReadingsTypeOK'
  BY <1>1, <1>8, StatChange
<1>10. ASSUME NEW d \in Controllers, Number(Peak[d]) \in Followed
       PROVE  /\ stat[Number(Peak[d])] <= stat'[Number(Peak[d])]
              /\ Number(Current[d]) \in Followed =>
                   stat'[Number(Current[d])] <= stat'[Number(Peak[d])]
  <2>1. CASE d = c
    BY <1>4, <1>5, <1>6, <1>10, <2>1 DEF current, peak
  <2>2. CASE d # c
    <3>1. /\ Number(Peak[d]) \notin {current, peak}
          /\ Number(Current[d]) \notin {current, peak}
      BY <2>2, ControllerFiles DEF Number, current, peak
    <3>2. /\ stat'[Number(Peak[d])] = stat[Number(Peak[d])]
          /\ Number(Current[d]) \in Followed =>
               stat'[Number(Current[d])] = stat[Number(Current[d])]
      BY <1>5, <1>10, <3>1
    <3>3. stat[Number(Peak[d])] \in 0..MaxCount
      BY <1>2, <1>10, PeaksAreNoLimits
    <3> QED
      BY <1>10, <3>2, <3>3 DEF PeakAhead
  <2> QED
    BY <2>1, <2>2
<1> QED
  BY <1>1, <1>9, <1>10 DEF KernelEffect

(* A change that leaves current values and peaks alone.                    *)
LEMMA OtherChange ==
  ASSUME ReadingsTypeOK, PeakAhead, StatOK(stat'), UNCHANGED <<files, collectVars>>,
         UNCHANGED <<diskIo, procIo, absent, cgroup, process>>,
         \A c \in Controllers : \A q \in {Number(Current[c]), Number(Peak[c])} :
            q \in Followed => stat'[q] = stat[q]
  PROVE  KernelEffect
<1>1. ReadingsTypeOK'
  BY StatChange
<1>2. ASSUME NEW c \in Controllers, Number(Peak[c]) \in Followed
      PROVE  /\ stat[Number(Peak[c])] <= stat'[Number(Peak[c])]
             /\ Number(Current[c]) \in Followed =>
                  stat'[Number(Current[c])] <= stat'[Number(Peak[c])]
  <2>1. stat[Number(Peak[c])] \in 0..MaxCount
    BY <1>2, FollowedShown, PeaksAreNoLimits
  <2> QED
    BY <1>2, <2>1, ReadingsAssumption DEF PeakAhead
<1> QED
  BY <1>1, <1>2 DEF KernelEffect

(* What is uncharged lowers no peak.                                       *)
LEMMA UnchargeEffect ==
  ASSUME ReadingsTypeOK, PeakAhead, NEW c \in Controllers, Uncharge(c),
         UNCHANGED <<files, collectVars>>
  PROVE  KernelEffect
<1> DEFINE current == Number(Current[c])
           peak == Number(Peak[c])
<1>1. /\ current \in Followed /\ stat[current] > 0
      /\ stat' = [stat EXCEPT ![current] = @ - 1]
      /\ UNCHANGED <<diskIo, procIo, absent, cgroup, process>>
  BY DEF Uncharge
<1>2. /\ stat \in [Followed -> 0..MaxCount \cup {NoLimit}]
      /\ \A q \in Followed \ Limits : stat[q] \in 0..MaxCount
  BY DEF ReadingsTypeOK
<1>3. current # peak /\ current \notin Limits /\ peak \notin Limits
  BY PeaksAreNoLimits
<1>4. MaxCount \in Nat
  BY ReadingsAssumption
<1> HIDE DEF current, peak
<1>5. /\ stat'[current] = stat[current] - 1
      /\ \A q \in Followed \ {current} : stat'[q] = stat[q]
  BY <1>1, <1>2
<1>6. stat[current] \in 0..MaxCount /\ stat'[current] \in 0..MaxCount
  BY <1>1, <1>2, <1>3, <1>4, <1>5
<1>7. StatOK(stat')
  <2>1. \A q \in Followed : stat'[q] \in 0..MaxCount \cup {NoLimit}
    BY <1>2, <1>5, <1>6
  <2>2. \A q \in Followed \ Limits : stat'[q] \in 0..MaxCount
    BY <1>2, <1>5, <1>6
  <2>3. stat' \in [Followed -> 0..MaxCount \cup {NoLimit}]
    <3>1. stat' = [q \in Followed |-> stat'[q]]
      BY <1>1, <1>2
    <3> QED
      BY <2>1, <3>1
  <2> QED
    BY <2>2, <2>3 DEF StatOK
<1>8. ReadingsTypeOK'
  BY <1>1, <1>7, StatChange
<1>9. ASSUME NEW d \in Controllers, Number(Peak[d]) \in Followed
      PROVE  /\ stat[Number(Peak[d])] <= stat'[Number(Peak[d])]
             /\ Number(Current[d]) \in Followed =>
                  stat'[Number(Current[d])] <= stat'[Number(Peak[d])]
  <2>1. Number(Peak[d]) # current
    BY ControllerFiles DEF Number, current
  <2>2. stat'[Number(Peak[d])] = stat[Number(Peak[d])] /\ stat[Number(Peak[d])] \in 0..MaxCount
    BY <1>2, <1>5, <1>9, <2>1, PeaksAreNoLimits
  <2>3. CASE d = c
    BY <1>4, <1>5, <1>6, <1>9, <2>2, <2>3 DEF PeakAhead, current
  <2>4. CASE d # c
    <3>1. Number(Current[d]) # current
      BY <2>4, ControllerFiles DEF Number, current
    <3>2. Number(Current[d]) \in Followed =>
            stat'[Number(Current[d])] = stat[Number(Current[d])]
      BY <1>5, <3>1
    <3> QED
      BY <1>9, <2>2, <3>2, <1>4 DEF PeakAhead
  <2> QED
    BY <2>3, <2>4
<1> QED
  BY <1>1, <1>8, <1>9 DEF KernelEffect

(* A limit set is no current value and no peak.                            *)
LEMMA SetLimitEffect ==
  ASSUME ReadingsTypeOK, PeakAhead, NEW file \in LimitFiles, NEW v \in {MaxCount, NoLimit},
         SetLimit(file, v), UNCHANGED <<files, collectVars>>
  PROVE  KernelEffect
<1>1. Number(file) \in Limits
  BY DEF Limits
<1>2. v \in 0..MaxCount \cup {NoLimit}
  BY ReadingsAssumption
<1>3. /\ stat' = [stat EXCEPT ![Number(file)] = v]
      /\ UNCHANGED <<diskIo, procIo, absent, cgroup, process>>
  BY DEF SetLimit
<1>4. /\ stat \in [Followed -> 0..MaxCount \cup {NoLimit}]
      /\ \A q \in Followed \ Limits : stat[q] \in 0..MaxCount
  BY DEF ReadingsTypeOK
<1>5. StatOK(stat')
  BY <1>1, <1>2, <1>3, <1>4 DEF StatOK
<1>6. \A q \in Followed \ Limits : stat'[q] = stat[q]
  BY <1>1, <1>3, <1>4
<1>7. \A c \in Controllers : \A q \in {Number(Current[c]), Number(Peak[c])} :
        q \in Followed => stat'[q] = stat[q]
  BY <1>6, PeaksAreNoLimits
<1> QED
  BY <1>3, <1>5, <1>7, OtherChange

(* Current values and peaks are not in the files of the cpu.               *)
LEMMA NotCpu ==
  ASSUME NEW c \in Controllers, NEW q \in {Number(Current[c]), Number(Peak[c])}, NEW field
  PROVE  q # <<"cpu.max", field>> /\ q # <<"cpu.stat", field>>
<1>1. q[1] \in NumberFiles
  BY ControllerFiles DEF Number
<1>2. "cpu.max" \notin NumberFiles /\ "cpu.stat" \notin NumberFiles
  BY DEF NumberFiles
<1> QED
  BY <1>1, <1>2

(* Quota and period set leave current value and peak as they are.          *)
LEMMA SetCpuMaxEffect ==
  ASSUME ReadingsTypeOK, PeakAhead, NEW quota \in 0..MaxCount \cup {NoLimit},
         NEW period \in 0..MaxCount, SetCpuMax(quota, period),
         UNCHANGED <<files, collectVars>>
  PROVE  KernelEffect
<1>1. /\ stat' = [stat EXCEPT ![CpuMax[1]] = quota, ![CpuMax[2]] = period]
      /\ UNCHANGED <<diskIo, procIo, absent, cgroup, process>>
  BY DEF SetCpuMax
<1>2. /\ stat \in [Followed -> 0..MaxCount \cup {NoLimit}]
      /\ \A q \in Followed \ Limits : stat[q] \in 0..MaxCount
  BY DEF ReadingsTypeOK
<1>3. CpuMax[1] \in Limits
  BY DEF Limits
<1>4. /\ DOMAIN stat' = Followed
      /\ \A q \in Followed : stat'[q] = IF q = CpuMax[2] THEN period
                                        ELSE IF q = CpuMax[1] THEN quota ELSE stat[q]
  BY <1>1, <1>2
<1>5. StatOK(stat')
  <2>1. \A q \in Followed : stat'[q] \in 0..MaxCount \cup {NoLimit}
    BY <1>2, <1>4
  <2>2. \A q \in Followed \ Limits : stat'[q] \in 0..MaxCount
    BY <1>2, <1>3, <1>4
  <2>3. stat' \in [Followed -> 0..MaxCount \cup {NoLimit}]
    <3>1. stat' = [q \in Followed |-> stat'[q]]
      BY <1>1, <1>2
    <3> QED
      BY <2>1, <3>1
  <2> QED
    BY <2>2, <2>3 DEF StatOK
<1>6. ASSUME NEW c \in Controllers, NEW q \in {Number(Current[c]), Number(Peak[c])},
             q \in Followed
      PROVE  stat'[q] = stat[q]
  <2>1. q # CpuMax[1] /\ q # CpuMax[2]
    BY NotCpu, CpuMaxParts
  <2> QED
    BY <1>4, <1>6, <2>1
<1>7. \A c \in Controllers : \A q \in {Number(Current[c]), Number(Peak[c])} :
        q \in Followed => stat'[q] = stat[q]
  BY <1>6
<1> QED
  BY <1>1, <1>5, <1>7, OtherChange

(* So do the counters of the cpu.                                          *)
LEMMA RunCpuEffect ==
  ASSUME ReadingsTypeOK, PeakAhead, NEW fields, RunCpu(fields),
         UNCHANGED <<files, collectVars>>
  PROVE  KernelEffect
<1> DEFINE counters == {<<"cpu.stat", f>> : f \in fields}
<1>1. /\ counters \subseteq Followed /\ \A q \in counters : stat[q] < MaxCount
      /\ stat' = [q \in Followed |-> IF q \in counters THEN stat[q] + 1 ELSE stat[q]]
      /\ UNCHANGED <<diskIo, procIo, absent, cgroup, process>>
  BY DEF RunCpu, Countable, Counted, ReadingsTypeOK
<1>2. /\ stat \in [Followed -> 0..MaxCount \cup {NoLimit}]
      /\ \A q \in Followed \ Limits : stat[q] \in 0..MaxCount
  BY DEF ReadingsTypeOK
<1>3. \A q \in counters : q \notin Limits
  <2>1. "cpu.stat" \in DOMAIN StatFields
    BY StatFieldsOf
  <2>2. \A f : <<"cpu.stat", f>> \notin Limits
    BY <2>1, StatFieldIsNoLimit
  <2> QED
    BY <2>2
<1>4. \A c \in Controllers : \A q \in {Number(Current[c]), Number(Peak[c])} : q \notin counters
  BY NotCpu
<1> HIDE DEF counters
<1>5. \A q \in counters : stat[q] + 1 \in 0..MaxCount
  BY <1>1, <1>2, <1>3, ReadingsAssumption
<1>6. StatOK(stat')
  BY <1>1, <1>2, <1>5 DEF StatOK
<1>7. \A c \in Controllers : \A q \in {Number(Current[c]), Number(Peak[c])} :
        q \in Followed => stat'[q] = stat[q]
  BY <1>1, <1>4
<1> QED
  BY <1>1, <1>6, <1>7, OtherChange

(* The other steps leave the quantities alone.                             *)
LEMMA StatSame ==
  ASSUME ReadingsTypeOK, PeakAhead, UNCHANGED <<files, stat, absent, collectVars>>,
         diskIo' \in [Devices -> [ToSet(ioStatKeys) -> 0..MaxCount]],
         procIo' \in [ToSet(procIoKeys) -> 0..MaxCount],
         cgroup' \in BOOLEAN, process' \in BOOLEAN,
         cgroup' => cgroup, process' => process
  PROVE  KernelEffect
<1>1. ReadingsTypeOK'
  BY DEF ReadingsTypeOK, Followed, collectVars
<1>2. ASSUME NEW c \in Controllers, Number(Peak[c]) \in Followed
      PROVE  /\ stat[Number(Peak[c])] <= stat'[Number(Peak[c])]
             /\ Number(Current[c]) \in Followed =>
                  stat'[Number(Current[c])] <= stat'[Number(Peak[c])]
  <2>1. stat[Number(Peak[c])] \in 0..MaxCount
    BY <1>2, FollowedShown, PeaksAreNoLimits
  <2> QED
    BY <1>2, <2>1, ReadingsAssumption DEF PeakAhead
<1> QED
  BY <1>1, <1>2 DEF KernelEffect

(* A counter that may still be counted stays in its bounds.                *)
LEMMA CountedType ==
  ASSUME NEW S, NEW f \in [S -> 0..MaxCount], NEW keys, Countable(f, keys)
  PROVE  Counted(f, keys) \in [S -> 0..MaxCount]
BY ReadingsAssumption DEF Counted, Countable

(* What every step of the kernel keeps.                                    *)
LEMMA KernelStepEffect ==
  ASSUME ReadingsTypeOK, PeakAhead, KernelStep
  PROVE  KernelEffect /\ UNCHANGED <<files, collectVars>>
<1>0. UNCHANGED <<files, collectVars>>
  BY DEF KernelStep
<1>1. CASE \E c \in Controllers : Charge(c) \/ Uncharge(c)
  BY <1>0, <1>1, ChargeEffect, UnchargeEffect
<1>2. CASE \E file \in LimitFiles, v \in {MaxCount, NoLimit} : SetLimit(file, v)
  BY <1>0, <1>2, SetLimitEffect
<1>3. CASE \E q \in 0..MaxCount \cup {NoLimit}, p \in 0..MaxCount : SetCpuMax(q, p)
  BY <1>0, <1>3, SetCpuMaxEffect
<1>4. CASE \E fields \in CpuEvents : RunCpu(fields)
  BY <1>0, <1>4, RunCpuEffect
<1>5. CASE \E d \in Devices, keys \in DiskEvents : DiskIo(d, keys)
  <2>1. PICK d \in Devices, keys \in DiskEvents : DiskIo(d, keys)
    BY <1>5
  <2>2. diskIo \in [Devices -> [ToSet(ioStatKeys) -> 0..MaxCount]]
    BY DEF ReadingsTypeOK
  <2>3. Counted(diskIo[d], keys) \in [ToSet(ioStatKeys) -> 0..MaxCount]
    BY <2>1, <2>2, CountedType DEF DiskIo
  <2>4. diskIo' \in [Devices -> [ToSet(ioStatKeys) -> 0..MaxCount]]
    BY <2>1, <2>2, <2>3 DEF DiskIo
  <2> QED
    BY <1>0, <2>1, <2>4, StatSame DEF DiskIo, ReadingsTypeOK
<1>6. CASE \E keys \in Syscalls : Syscall(keys)
  <2>1. PICK keys \in Syscalls : Syscall(keys)
    BY <1>6
  <2>2. procIo' \in [ToSet(procIoKeys) -> 0..MaxCount]
    BY <2>1, CountedType DEF Syscall, ReadingsTypeOK
  <2> QED
    BY <1>0, <2>1, <2>2, StatSame DEF Syscall, ReadingsTypeOK
<1>7. CASE ExitProcess
  BY <1>0, <1>7, StatSame DEF ExitProcess, ReadingsTypeOK
<1>8. CASE RemoveCgroup
  BY <1>0, <1>8, StatSame DEF RemoveCgroup, ReadingsTypeOK
<1> QED
  BY <1>1, <1>2, <1>3, <1>4, <1>5, <1>6, <1>7, <1>8 DEF KernelStep

(* What the files contain, they contain while they exist.                  *)
LEMMA ContentsExist ==
  \A c \in Contents : c[1] \in files /\ Exists(c[1])
BY DEF Contents, Exists

(* A file that exists is followed and is not absent.                       *)
LEMMA ExistingFiles ==
  \A file : Exists(file) => file \in files /\ (file # "io" => file \notin absent)
BY DEF Exists

(* The kernel's steps keep the invariant: what was sent stays covered and  *)
(* held.                                                                   *)
LEMMA KernelPreserves ==
  ASSUME ReadingsInv, KernelStep
  PROVE  ReadingsInv'
<1>1. KernelEffect /\ UNCHANGED <<files, collectVars>>
  BY KernelStepEffect DEF ReadingsInv
<1>2. /\ held' = IF phase = "idle" THEN {} ELSE held \cup Contents'
      /\ UNCHANGED <<phase, row, sent, rejected, missed>>
  BY <1>1 DEF KernelStep, Remember, collectVars
<1>3. Followed' = Followed
  BY <1>1 DEF Followed
<1>4. ReadingsTypeOK'
  BY <1>1 DEF KernelEffect
<1>5. HeldSoFar'
  <2>1. phase' # "idle" => Contents' \subseteq held'
    BY <1>2
  <2>2. ASSUME NEW c \in held' PROVE c[1] \in files' /\ (c[1] # "io" => c[1] \notin absent')
    <3>1. CASE c \in held
      BY <1>1, <3>1 DEF ReadingsInv, HeldSoFar, KernelEffect
    <3>2. CASE c \in Contents'
      <4>1. \A d \in Contents' : d[1] \in files' /\ (d[1] # "io" => d[1] \notin absent')
        BY DEF Contents, Exists
      <4> QED
        BY <3>2, <4>1
    <3> QED
      BY <1>2, <2>2, <3>1, <3>2
  <2> QED
    BY <2>1, <2>2 DEF HeldSoFar
<1>6. SentInOrder'
  BY <1>2 DEF ReadingsInv, SentInOrder
<1>7. \A name : Value(name)' = Value(name)
  BY <1>2 DEF Value
<1>8. PeakAhead'
  <2> SUFFICES ASSUME NEW c \in Controllers, Number(Peak[c]) \in Followed'
               PROVE  /\ Number(Current[c]) \in Followed' =>
                           stat'[Number(Current[c])] <= stat'[Number(Peak[c])]
                      /\ \A v \in Value(Number(Current[c]))' :
                           v \in Nat /\ v <= stat'[Number(Peak[c])]
    BY DEF PeakAhead
  <2>1. /\ stat[Number(Peak[c])] <= stat'[Number(Peak[c])]
        /\ Number(Current[c]) \in Followed =>
             stat'[Number(Current[c])] <= stat'[Number(Peak[c])]
    BY <1>1, <1>3 DEF KernelEffect
  <2>2. stat[Number(Peak[c])] \in 0..MaxCount /\ stat'[Number(Peak[c])] \in 0..MaxCount
    <3>1. Number(Peak[c]) \in Followed \ Limits
      BY <1>3, PeaksAreNoLimits
    <3> QED
      BY <1>3, <1>4, <3>1 DEF ReadingsInv, ReadingsTypeOK
  <2>3. \A v \in Value(Number(Current[c])) : v \in Nat /\ v <= stat[Number(Peak[c])]
    BY <1>3 DEF ReadingsInv, PeakAhead
  <2> QED
    BY <1>3, <1>7, <2>1, <2>2, <2>3, ReadingsAssumption
<1>9. \A file : Of(file)' = Of(file)
  BY <1>2 DEF Of
<1>10. SentSoFar'
  BY <1>1, <1>2, <1>7, <1>9 DEF ReadingsInv, SentSoFar, KernelEffect
<1>11. PeakCoversCurrent'
  BY <1>7 DEF ReadingsInv, PeakCoversCurrent
<1>12. phase # "idle" => held \subseteq held'
  BY <1>2
<1>13. HeldDuringScrape'
  BY <1>1, <1>2, <1>9, <1>12 DEF ReadingsInv, HeldDuringScrape
<1>14. ReadTogether'
  BY <1>1, <1>2, <1>9, <1>12 DEF ReadingsInv, ReadTogether
<1>15. RegistryAccepts'
  BY <1>2 DEF ReadingsInv, RegistryAccepts
<1> QED
  BY <1>4, <1>5, <1>6, <1>8, <1>10, <1>11, <1>13, <1>14, <1>15 DEF ReadingsInv

(* It holds at first.                                                      *)
LEMMA ReadingsInitially == ReadingsInit => ReadingsInv
<1> SUFFICES ASSUME ReadingsInit PROVE ReadingsInv
  OBVIOUS
<1>1. sent = {} /\ held = {} /\ phase = "idle" /\ row = 1
  BY DEF ReadingsInit
<1>2. \A name : Value(name) = {}
  BY <1>1 DEF Value
<1>3. MaxCount \in Nat /\ 0 \in 0..MaxCount
  BY ReadingsAssumption
<1>4. ReadingsTypeOK
  <2>1. stat \in [Followed -> 0..MaxCount \cup {NoLimit}]
    BY <1>3 DEF ReadingsInit
  <2>2. \A q \in Followed \ Limits : stat[q] \in 0..MaxCount
    BY <1>3 DEF ReadingsInit
  <2>3. /\ diskIo \in [Devices -> [ToSet(ioStatKeys) -> 0..MaxCount]]
        /\ procIo \in [ToSet(procIoKeys) -> 0..MaxCount]
    BY <1>3 DEF ReadingsInit, Zero
  <2>4. row \in 1..(Len(cgroupMetrics) + 1)
    BY <1>1, Table
  <2> QED
    BY <1>1, <2>1, <2>2, <2>3, <2>4 DEF ReadingsInit, ReadingsTypeOK
<1>5. HeldSoFar /\ SentInOrder /\ SentSoFar
  BY <1>1 DEF HeldSoFar, SentInOrder, SentSoFar
<1>6. PeakAhead
  <2>1. ASSUME NEW c \in Controllers, Number(Peak[c]) \in Followed,
               Number(Current[c]) \in Followed
        PROVE  stat[Number(Current[c])] <= stat[Number(Peak[c])]
    <3>1. stat[Number(Current[c])] = 0 /\ stat[Number(Peak[c])] = 0
      BY <2>1, PeaksAreNoLimits DEF ReadingsInit
    <3> QED
      BY <3>1
  <2> QED
    BY <1>2, <2>1 DEF PeakAhead
<1>7. PeakCoversCurrent
  BY <1>2 DEF PeakCoversCurrent
<1>8. HeldDuringScrape /\ ReadTogether
  BY <1>1 DEF HeldDuringScrape, ReadTogether
<1>9. RegistryAccepts
  BY DEF ReadingsInit, RegistryAccepts
<1> QED
  BY <1>4, <1>5, <1>6, <1>7, <1>8, <1>9 DEF ReadingsInv

(***************************************************************************)
(* Collect.                                                                *)
(***************************************************************************)
(* Labels: how many there are, and how many a sample of them lists.        *)
LEMMA LabelCounts ==
  /\ Len(containerLabels) = 3
  /\ Len(ioStatLabels) = 5
  /\ Len(processLabels) = 6
BY DEF containerLabels, ioStatLabels, processLabels

LEMMA Labelled ==
  ASSUME NEW desc
  PROVE  /\ desc.labels = containerLabels => Len(desc.labels) = Unlabelled(desc) + 0
         /\ desc.labels = ioStatLabels => Len(desc.labels) = Unlabelled(desc) + 2
         /\ desc.labels = processLabels => Len(desc.labels) = Unlabelled(desc) + 0
<1>1. CASE desc.labels = processLabels
  <2>1. Len(desc.labels) = 6
    BY <1>1, LabelCounts
  <2>2. desc.labels \notin {containerLabels, ioStatLabels}
    BY <2>1, LabelCounts
  <2> QED
    BY <1>1, <2>1, <2>2 DEF Unlabelled
<1>2. CASE desc.labels # processLabels
  BY <1>2, LabelCounts DEF Unlabelled
<1> QED
  BY <1>1, <1>2

(* What is not read by the kernel's clock stays as it is.                  *)
LEMMA ContentsSame ==
  ASSUME UNCHANGED kernelVars
  PROVE  Contents' = Contents /\ Followed' = Followed
BY DEF kernelVars, Contents, Exists, Content, Followed, Used

(* Without a step of the kernel nothing new is held.                       *)
LEMMA HeldSoFarKept ==
  ASSUME HeldSoFar, phase # "idle", UNCHANGED <<kernelVars, held>>
  PROVE  HeldSoFar'
BY ContentsSame DEF HeldSoFar, kernelVars

(* Values within their type may be sent.                                   *)
LEMMA TypeKept ==
  ASSUME ReadingsTypeOK, NEW X, Send(X), UNCHANGED <<kernelVars, missed>>,
         phase' \in {"rows", "multi", "iostat", "procio", "gather"},
         row' \in 1..31, phase' = "multi" => row' <= 2,
         \A s \in X : s.value \in -1..MaxCount
  PROVE  ReadingsTypeOK'
<1>1. Accepts(X) \in BOOLEAN
  BY DEF Accepts
<1>2. rejected' \in BOOLEAN /\ \A s \in sent' : s.value \in -1..MaxCount
  BY <1>1 DEF Send, ReadingsTypeOK
<1>3. Followed' = Followed /\ UNCHANGED <<files, stat, diskIo, procIo, absent, cgroup, process>>
  BY ContentsSame DEF kernelVars
<1>4. Len(cgroupMetrics) = 30 /\ Len(cgroupMultiValueMetrics) = 1
  BY Table, MultiTable
<1> QED
  BY <1>2, <1>3, <1>4 DEF ReadingsTypeOK

(* The values of a name after a send.                                      *)
LEMMA ValueOf ==
  ASSUME NEW X, sent' = sent \cup X, NEW name
  PROVE  /\ Value(name) \subseteq Value(name)'
         /\ Value(name)' = Value(name) \cup {s.value : s \in {t \in X : t.desc.name = name}}
BY DEF Value

(* Samples of other files leave current values and peaks alone.            *)
LEMMA PeaksKept ==
  ASSUME PeakAhead, PeakCoversCurrent, NEW X, sent' = sent \cup X, UNCHANGED kernelVars,
         \A s \in X : File(s) \notin NumberFiles
  PROVE  PeakAhead' /\ PeakCoversCurrent'
<1>1. ASSUME NEW file \in NumberFiles
      PROVE  Value(Number(file))' = Value(Number(file))
  <2>1. \A s \in X : s.desc.name # Number(file)
    BY <1>1 DEF File, Number
  <2>2. {t \in X : t.desc.name = Number(file)} = {}
    BY <2>1
  <2> QED
    BY <2>2 DEF Value
<1>2. \A c \in Controllers : /\ Value(Number(Current[c]))' = Value(Number(Current[c]))
                             /\ Value(Number(Peak[c]))' = Value(Number(Peak[c]))
  BY <1>1, ControllerFiles
<1>3. Followed' = Followed /\ stat' = stat
  BY ContentsSame DEF kernelVars
<1> QED
  BY <1>2, <1>3 DEF PeakAhead, PeakCoversCurrent

(* Samples of other files are not a file's.                                *)
LEMMA OfKept ==
  ASSUME NEW X, sent' = sent \cup X, NEW file, \A s \in X : File(s) # file
  PROVE  Of(file)' = Of(file)
BY DEF Of, File

(* The first samples of a file are all of it.                              *)
LEMMA OfNew ==
  ASSUME NEW X, sent' = sent \cup X, NEW file, \A s \in X : File(s) = file, Of(file) = {}
  PROVE  Of(file)' = X
BY DEF Of, File

(* Samples that the files said may be sent.                                *)
LEMMA HeldKept ==
  ASSUME HeldDuringScrape, ReadTogether, phase # "idle", NEW X, sent' = sent \cup X,
         UNCHANGED <<files, held>>,
         \A s \in X : File(s) \in files =>
            \E c \in held : c[1] = File(s) /\ Says(File(s), c[2], s),
         \A file \in files \cap {"cpu.max", "io.stat", "io"} :
            \/ \A s \in X : File(s) # file
            \/ /\ Of(file) = {}
               /\ \E c \in held : c[1] = file /\ \A s \in X : Says(file, c[2], s)
  PROVE  HeldDuringScrape' /\ ReadTogether'
<1>1. ASSUME NEW file \in files, NEW s \in Of(file)'
      PROVE  \E c \in held : c[1] = file /\ Says(file, c[2], s)
  <2>1. (s \in sent \/ s \in X) /\ File(s) = file
    BY <1>1 DEF Of, File
  <2>2. CASE s \in sent
    <3>1. s \in Of(file)
      BY <2>1, <2>2 DEF Of, File
    <3> QED
      BY <3>1 DEF HeldDuringScrape
  <2>3. CASE s \in X
    BY <2>1, <2>3
  <2> QED
    BY <2>1, <2>2, <2>3
<1>2. ASSUME NEW file \in files \cap {"cpu.max", "io.stat", "io"}, Of(file)' # {}
      PROVE  \E c \in held : c[1] = file /\ \A s \in Of(file)' : Says(file, c[2], s)
  <2>1. CASE \A s \in X : File(s) # file
    <3>1. Of(file)' = Of(file)
      BY <2>1, OfKept
    <3> QED
      BY <1>2, <3>1 DEF ReadTogether
  <2>2. CASE /\ Of(file) = {}
             /\ \E c \in held : c[1] = file /\ \A s \in X : Says(file, c[2], s)
    <3>1. Of(file)' \subseteq X
      BY <2>2 DEF Of
    <3> QED
      BY <2>2, <3>1
  <2> QED
    BY <1>2, <2>1, <2>2
<1>3. HeldDuringScrape'
  BY <1>1 DEF HeldDuringScrape
<1>4. ReadTogether'
  BY <1>2 DEF ReadTogether
<1> QED
  BY <1>3, <1>4

(* Samples that are labelled and new are accepted.                         *)
LEMMA AcceptedKept ==
  ASSUME RegistryAccepts, NEW X, Send(X),
         \A s \in X : /\ Len(s.desc.labels) = Unlabelled(s.desc) + Len(s.labels)
                      /\ \A t \in sent : s.desc.name # t.desc.name,
         \A s, t \in X : Clash(s, t) => s = t
  PROVE  RegistryAccepts'
<1>1. Accepts(X)
  BY DEF Accepts, Clash
<1> QED
  BY <1>1 DEF RegistryAccepts, Send

(* The next row that is read, and those that are passed over.              *)
LEMMA NextRowFacts ==
  ASSUME NEW i \in 0..30
  PROVE  /\ NextRow(i) \in (i + 1)..31
         /\ \A j \in (i + 1)..(NextRow(i) - 1) : cgroupMetrics[j].cgroupFile \notin files
<1> DEFINE S == {j \in (i + 1)..30 : cgroupMetrics[j].cgroupFile \in files} \cup {31}
<1>1. NextRow(i) = CHOOSE x \in S : \A y \in S : x <= y
  BY Table DEF NextRow, Min
<1>2. S \subseteq (i + 1)..31 /\ 31 \in S
  OBVIOUS
<1> HIDE DEF S
<1>3. \E x \in S : \A y \in S : x <= y
  <2>1. IsWellFoundedOn(OpToRel(<, Nat), Nat)
    BY NatLessThanWellFounded
  <2>2. S \subseteq Nat /\ S # {}
    BY <1>2
  <2>3. PICK x \in S : \A y \in S : ~(<<y, x>> \in OpToRel(<, Nat))
    BY <2>1, <2>2, WFMin
  <2>4. \A y \in S : ~(y < x)
    BY <2>2, <2>3 DEF OpToRel
  <2> QED
    BY <1>2, <2>4
<1>4. NextRow(i) \in S /\ \A y \in S : NextRow(i) <= y
  BY <1>1, <1>3
<1>5. ASSUME NEW j \in (i + 1)..(NextRow(i) - 1)
      PROVE  cgroupMetrics[j].cgroupFile \notin files
  <2>1. j \in (i + 1)..30 /\ ~(NextRow(i) <= j)
    <3> DEFINE n == NextRow(i)
    <3>1. n \in (i + 1)..31
      BY <1>2, <1>4
    <3>2. j \in (i + 1)..(n - 1)
      OBVIOUS
    <3> HIDE DEF n
    <3>3. n \in Int /\ n <= 31 /\ j \in Int /\ i + 1 <= j /\ j <= n - 1
      BY <3>1, <3>2
    <3>4. j \in (i + 1)..30 /\ ~(n <= j)
      BY <3>3
    <3> QED
      BY <3>4 DEF n
  <2>2. j \notin S
    BY <1>4, <2>1
  <2> QED
    BY <2>1, <2>2 DEF S
<1> QED
  BY <1>2, <1>4, <1>5

(* What makes a set of samples fit to be sent.                             *)
Sendable(X) ==
  /\ \A s \in X :
       /\ s.value \in -1..MaxCount
       /\ Len(s.desc.labels) = Unlabelled(s.desc) + Len(s.labels)
       /\ \A t \in sent : s.desc.name # t.desc.name
       /\ File(s) \in files => \E c \in held : c[1] = File(s) /\ Says(File(s), c[2], s)
  /\ \A s, t \in X : Clash(s, t) => s = t
  /\ \A file \in files \cap {"cpu.max", "io.stat", "io"} :
       \/ \A s \in X : File(s) # file
       \/ /\ Of(file) = {}
          /\ \E c \in held : c[1] = file /\ \A s \in X : Says(file, c[2], s)

(* Such a set may be sent.                                                 *)
LEMMA SendKeeps ==
  ASSUME ReadingsInv, NEW X, Send(X), Sendable(X), phase # "idle",
         UNCHANGED <<kernelVars, missed, held>>,
         phase' \in {"rows", "multi", "iostat", "procio", "gather"},
         row' \in 1..31, phase' = "multi" => row' <= 2
  PROVE  /\ ReadingsTypeOK' /\ HeldSoFar' /\ HeldDuringScrape' /\ ReadTogether'
         /\ RegistryAccepts'
<1>1. ReadingsTypeOK'
  <2>1. \A s \in X : s.value \in -1..MaxCount
    BY DEF Sendable
  <2> QED
    BY <2>1, TypeKept DEF ReadingsInv
<1>2. HeldSoFar'
  BY HeldSoFarKept DEF ReadingsInv
<1>3. HeldDuringScrape' /\ ReadTogether'
  <2>1. sent' = sent \cup X /\ UNCHANGED <<files, held>>
    BY DEF Send, kernelVars
  <2>2. /\ \A s \in X : File(s) \in files =>
            \E c \in held : c[1] = File(s) /\ Says(File(s), c[2], s)
        /\ \A file \in files \cap {"cpu.max", "io.stat", "io"} :
            \/ \A s \in X : File(s) # file
            \/ /\ Of(file) = {}
               /\ \E c \in held : c[1] = file /\ \A s \in X : Says(file, c[2], s)
    BY DEF Sendable
  <2> QED
    BY <2>1, <2>2, HeldKept DEF ReadingsInv
<1>4. RegistryAccepts'
  <2>1. /\ \A s \in X : /\ Len(s.desc.labels) = Unlabelled(s.desc) + Len(s.labels)
                        /\ \A t \in sent : s.desc.name # t.desc.name
        /\ \A s, t \in X : Clash(s, t) => s = t
    BY DEF Sendable
  <2> QED
    BY <2>1, AcceptedKept DEF ReadingsInv
<1> QED
  BY <1>1, <1>2, <1>3, <1>4

(* The content of a file that exists is among what was held.               *)
LEMMA HeldNow ==
  ASSUME HeldSoFar, phase # "idle", NEW file, Exists(file)
  PROVE  \E c \in held : c = <<file, Content(file)>> /\ c[1] = file /\ c[2] = Content(file)
<1>1. <<file, Content(file)>> \in Contents
  BY ExistingFiles DEF Contents
<1>2. <<file, Content(file)>> \in held
  BY <1>1 DEF HeldSoFar
<1> QED
  BY <1>2

(* What a row sends.                                                       *)
RowSamples(i) ==
  {Sample(cgroupMetrics[i].desc, <<>>, v) : v \in readCgroupMetric(cgroupMetrics[i])}

RowSample(i) == Sample(cgroupMetrics[i].desc, <<>>, RowValue(i))

(* A row sends one sample, or none when its file does not exist.           *)
LEMMA RowSamplesAre ==
  ASSUME ReadingsTypeOK, NEW i \in 1..30
  PROVE  \/ ~Exists(cgroupMetrics[i].cgroupFile) /\ RowSamples(i) = {}
         \/ /\ Exists(cgroupMetrics[i].cgroupFile)
            /\ cgroupMetrics[i].cgroupFile \in files
            /\ RowSamples(i) = {RowSample(i)}
<1> DEFINE m == cgroupMetrics[i]
           read == readCgroupMetric(m)
<1>1. CASE Exists(m.cgroupFile)
  <2>1. m.cgroupFile \in files
    BY <1>1, ExistingFiles
  <2>2. read = {RowValue(i)}
    BY <1>1, <2>1, RowRead
  <2> HIDE DEF read
  <2>3. {Sample(m.desc, <<>>, v) : v \in read} = {RowSample(i)}
    BY <2>2 DEF RowSample
  <2> QED
    BY <1>1, <2>1, <2>3 DEF RowSamples, read
<1>2. CASE ~Exists(m.cgroupFile)
  <2>1. read = {}
    BY <1>2 DEF readCgroupMetric, ReadInteger, ReadIntegerField
  <2> HIDE DEF read
  <2>2. {Sample(m.desc, <<>>, v) : v \in read} = {}
    BY <2>1
  <2> QED
    BY <1>2, <2>2 DEF RowSamples, read
<1> QED
  BY <1>1, <1>2

(* The sample of a row is of its metric and of its file.                   *)
LEMMA RowSampleParts ==
  ASSUME NEW i \in 1..30
  PROVE  /\ RowSample(i).desc = cgroupMetrics[i].desc
         /\ RowSample(i).labels = <<>>
         /\ RowSample(i).value = RowValue(i)
         /\ File(RowSample(i)) = cgroupMetrics[i].cgroupFile
         /\ RowSample(i).desc.labels = containerLabels
<1>1. /\ RowSample(i).desc = cgroupMetrics[i].desc
      /\ RowSample(i).labels = <<>>
      /\ RowSample(i).value = RowValue(i)
  BY DEF RowSample, Sample
<1>2. RowFact(cgroupMetrics[i])
  BY RowFacts
<1>3. File(RowSample(i)) = cgroupMetrics[i].cgroupFile
  BY <1>1, <1>2 DEF File, RowFact
<1>4. RowSample(i).desc.labels = containerLabels
  BY <1>1, <1>2 DEF RowFact, NewDesc
<1> QED
  BY <1>1, <1>3, <1>4

(* The rows are not for the files that have a turn of their own.           *)
LEMMA RowFiles ==
  ASSUME NEW i \in 1..30
  PROVE  /\ cgroupMetrics[i].cgroupFile \in NumberFiles \cup DOMAIN StatFields
         /\ cgroupMetrics[i].cgroupFile \notin
              {"cpu.max", "io.stat", "io"}
<1>1. RowFact(cgroupMetrics[i])
  BY RowFacts
<1> QED
  BY <1>1, FilesApart DEF RowFact

(* What a row sends is fit to be sent.                                     *)
LEMMA RowSendable ==
  ASSUME ReadingsInv, phase = "rows", row <= 30
  PROVE  Sendable(RowSamples(row))
<1> DEFINE X == RowSamples(row)
           file == cgroupMetrics[row].cgroupFile
<1>1. row \in 1..30
  BY Table DEF ReadingsInv, ReadingsTypeOK
<1>2. CASE X = {}
  BY <1>2 DEF Sendable
<1>3. CASE Exists(file) /\ file \in files /\ X = {RowSample(row)}
  <2> DEFINE s == RowSample(row)
  <2>1. /\ s.desc = cgroupMetrics[row].desc /\ s.labels = <<>> /\ s.value = RowValue(row)
        /\ File(s) = file /\ s.desc.labels = containerLabels
    BY <1>1, RowSampleParts
  <2>2. /\ cgroupMetrics[row].desc.name \in Followed
        /\ Says(file, Content(file), s)
    BY <1>1, <1>3, RowRead DEF ReadingsInv, RowSample
  <2>3. RowValue(row) \in -1..MaxCount
    BY <2>2, FollowedShown, WordShown DEF RowValue, ReadingsInv
  <2>5. \A t \in sent : t.desc.name # cgroupMetrics[row].desc.name
    <3>1. row \in row..Len(cgroupMetrics)
      BY <1>1, Table
    <3> QED
      BY <3>1 DEF ReadingsInv, SentInOrder
  <2>6. \E c \in held : c[1] = file /\ Says(file, c[2], s)
    BY <1>3, <2>2, HeldNow DEF ReadingsInv
  <2>7. file \notin {"cpu.max", "io.stat", "io"}
    BY <1>1, RowFiles
  <2>8. Len(s.desc.labels) = Unlabelled(s.desc) + Len(s.labels)
    <3>1. Len(s.desc.labels) = Unlabelled(s.desc) + 0
      BY <2>1, Labelled
    <3>2. Len(s.labels) = 0
      BY <2>1
    <3> QED
      BY <3>1, <3>2
  <2> HIDE DEF s, X
  <2>9. X = {s}
    BY <1>3 DEF s
  <2> QED
    BY <2>1, <2>3, <2>5, <2>6, <2>7, <2>8, <2>9 DEF Sendable, X
<1> QED
  BY <1>1, <1>2, <1>3, RowSamplesAre DEF ReadingsInv

(* A row of the table keeps the invariant: of current value and peak the   *)
(* former is sent first, and stays covered until the latter is sent.       *)
LEMMA CollectRowPreserves ==
  ASSUME ReadingsInv, CollectRow
  PROVE  ReadingsInv'
<1> DEFINE X == RowSamples(row)
           file == cgroupMetrics[row].cgroupFile
<1>0. PICK name : name = cgroupMetrics[row].desc.name
  OBVIOUS
<1>1. /\ phase = "rows" /\ row \in 1..30 /\ Send(X) /\ row' = NextRow(row)
      /\ UNCHANGED <<kernelVars, phase, missed, held>>
  BY Table DEF CollectRow, RowSamples, ReadingsInv, ReadingsTypeOK
<1>2. sent' = sent \cup X
  BY <1>1 DEF Send
<1>3. /\ row' \in (row + 1)..31
      /\ \A j \in (row + 1)..(row' - 1) : cgroupMetrics[j].cgroupFile \notin files
  <2>1. row \in 0..30
    BY <1>1
  <2> QED
    BY <1>1, <2>1, NextRowFacts
<1>4. Sendable(X)
  BY <1>1, RowSendable
<1>5. \/ ~Exists(file) /\ X = {}
      \/ Exists(file) /\ file \in files /\ X = {RowSample(row)}
  BY <1>1, RowSamplesAre DEF ReadingsInv
<1>6. /\ RowSample(row).desc = cgroupMetrics[row].desc /\ RowSample(row).value = RowValue(row)
      /\ RowSample(row).desc.name = name
      /\ File(RowSample(row)) = file
  BY <1>0, <1>1, RowSampleParts
<1> HIDE DEF X, file
<1>7. /\ ReadingsTypeOK' /\ HeldSoFar' /\ HeldDuringScrape' /\ ReadTogether' /\ RegistryAccepts'
  <2>1. row' \in 1..31 /\ phase' = "rows" /\ phase # "idle"
    BY <1>1, <1>3
  <2>2. UNCHANGED <<kernelVars, missed, held>>
    BY <1>1
  <2> QED
    BY <1>1, <1>4, <2>1, <2>2, SendKeeps
<1>8. SentInOrder'
  <2>1. ASSUME NEW s \in sent', NEW i \in row'..Len(cgroupMetrics)
        PROVE  s.desc.name # cgroupMetrics[i].desc.name
    <3>1. i \in 1..30 /\ i > row /\ i \in row..Len(cgroupMetrics)
      BY <1>1, <1>3, <2>1, Table
    <3>2. CASE s \in sent
      BY <1>1, <3>1, <3>2 DEF ReadingsInv, SentInOrder
    <3>3. CASE s \in X
      <4>1. s.desc.name = name
        BY <1>5, <1>6, <3>3
      <4>2. name = cgroupMetrics[i].desc.name => i = row
        BY <1>0, <1>1, <3>1, RowsDistinct
      <4> QED
        BY <1>1, <3>1, <4>1, <4>2
    <3> QED
      BY <1>2, <2>1, <3>2, <3>3
  <2>2. ASSUME NEW s \in sent'
        PROVE  File(s) \notin {"cpu.max", "io.stat", "io"}
    <3>1. CASE s \in sent
      BY <1>1, <3>1 DEF ReadingsInv, SentInOrder
    <3>2. CASE s \in X
      BY <1>1, <1>5, <1>6, <3>2, RowFiles DEF file
    <3> QED
      BY <1>2, <3>1, <3>2
  <2>3. Len(cgroupMetrics)' = Len(cgroupMetrics) /\ phase' = "rows"
    BY <1>1
  <2> QED
    BY <2>1, <2>2, <2>3 DEF SentInOrder
<1>9. PeakAhead' /\ PeakCoversCurrent'
  <2>1. /\ Followed' = Followed /\ stat' = stat
    BY <1>1, ContentsSame DEF kernelVars
  <2>2. \A n : Value(n)' = Value(n) \cup {s.value : s \in {t \in X : t.desc.name = n}}
    BY <1>2, ValueOf
  <2>3. \A n : n # name => Value(n)' = Value(n)
    <3> SUFFICES ASSUME NEW n, n # name PROVE Value(n)' = Value(n)
      OBVIOUS
    <3>1. {t \in X : t.desc.name = n} = {}
      BY <1>5, <1>6
    <3> QED
      BY <2>2, <3>1
  <2>4. ASSUME NEW v \in Value(name)'
        PROVE  v \in Value(name) \/ (v = RowValue(row) /\ file \in files)
    <3>1. \A t \in X : t.value = RowValue(row) /\ file \in files
      BY <1>5, <1>6
    <3>2. v \in Value(name) \/ \E t \in X : t.desc.name = name /\ v = t.value
      BY <2>2, <2>4
    <3> QED
      BY <3>1, <3>2
  <2>5. file \in files => name \in Followed /\ RowValue(row) = Shown(stat[name])
    BY <1>0, <1>1, RowRead DEF file, RowValue, ReadingsInv
  <2>6. ASSUME NEW c \in Controllers
        PROVE  /\ Number(Current[c]) # Number(Peak[c])
               /\ name = Number(Current[c]) => Value(Number(Peak[c])) = {}
               /\ file \in files /\ name = Number(Current[c]) =>
                    RowValue(row) = stat[name] /\ stat[name] \in 0..MaxCount
               /\ file \in files /\ name = Number(Peak[c]) =>
                    RowValue(row) = stat[name] /\ stat[name] \in 0..MaxCount
    <3>1. PICK i \in 1..30, j \in 1..30 : /\ i < j
                                          /\ cgroupMetrics[i].desc.name = Number(Current[c])
                                          /\ cgroupMetrics[j].desc.name = Number(Peak[c])
      BY CurrentBeforePeak
    <3>2. name = Number(Current[c]) => Value(Number(Peak[c])) = {}
      <4> SUFFICES ASSUME name = Number(Current[c]) PROVE Value(Number(Peak[c])) = {}
        OBVIOUS
      <4>1. row = i
        BY <1>0, <1>1, <3>1, RowsDistinct
      <4>2. j \in row..Len(cgroupMetrics)
        BY <3>1, <4>1, Table
      <4>3. \A s \in sent : s.desc.name # Number(Peak[c])
        BY <1>1, <3>1, <4>2 DEF ReadingsInv, SentInOrder
      <4> QED
        BY <4>3 DEF Value
    <3>3. /\ Number(Current[c]) \notin Limits
          /\ Number(Peak[c]) \notin Limits
          /\ Number(Current[c]) # Number(Peak[c])
      BY PeaksAreNoLimits
    <3>4. name \in Followed /\ name \notin Limits =>
            stat[name] \in 0..MaxCount /\ Shown(stat[name]) = stat[name]
      BY FollowedShown, WordShown DEF ReadingsInv
    <3> QED
      BY <2>5, <3>2, <3>3, <3>4
  <2>7. ASSUME NEW c \in Controllers, Number(Peak[c]) \in Followed
        PROVE  \A v \in Value(Number(Current[c]))' : v \in Nat /\ v <= stat[Number(Peak[c])]
    <3> SUFFICES ASSUME NEW v \in Value(Number(Current[c]))'
                 PROVE  v \in Nat /\ v <= stat[Number(Peak[c])]
      OBVIOUS
    <3>1. CASE v \in Value(Number(Current[c]))
      BY <2>7, <3>1 DEF ReadingsInv, PeakAhead
    <3>2. CASE v \notin Value(Number(Current[c]))
      <4>1. name = Number(Current[c])
        BY <2>3, <3>2
      <4>2. v = RowValue(row) /\ file \in files
        BY <2>4, <3>2, <4>1
      <4>3. v = stat[name] /\ v \in 0..MaxCount /\ name \in Followed
        BY <2>5, <2>6, <4>1, <4>2
      <4>4. stat[Number(Current[c])] <= stat[Number(Peak[c])]
        BY <2>7, <4>1, <4>3 DEF ReadingsInv, PeakAhead
      <4> QED
        BY <4>1, <4>3, <4>4, ReadingsAssumption
    <3> QED
      BY <3>1, <3>2
  <2>8. PeakAhead'
    BY <2>1, <2>7 DEF PeakAhead, ReadingsInv
  <2>9. ASSUME NEW c \in Controllers, NEW v \in Value(Number(Current[c]))',
               NEW p \in Value(Number(Peak[c]))'
        PROVE  v <= p
    <3>1. CASE name = Number(Current[c])
      <4>1. Value(Number(Peak[c]))' = {}
        BY <2>3, <2>6, <3>1
      <4> QED
        BY <2>9, <4>1
    <3>2. CASE name = Number(Peak[c])
      <4>1. v \in Value(Number(Current[c]))
        BY <2>3, <2>6, <2>9, <3>2
      <4>2. CASE p \in Value(Number(Peak[c]))
        BY <4>1, <4>2 DEF ReadingsInv, PeakCoversCurrent
      <4>3. CASE p \notin Value(Number(Peak[c]))
        <5>1. p = RowValue(row) /\ file \in files
          BY <2>4, <2>9, <3>2, <4>3
        <5>2. p = stat[name] /\ name \in Followed
          BY <2>5, <2>6, <3>2, <5>1
        <5> QED
          BY <3>2, <4>1, <5>2 DEF ReadingsInv, PeakAhead
      <4> QED
        BY <4>2, <4>3
    <3>3. CASE name # Number(Current[c]) /\ name # Number(Peak[c])
      BY <2>3, <2>9, <3>3 DEF ReadingsInv, PeakCoversCurrent
    <3> QED
      BY <3>1, <3>2, <3>3
  <2>10. PeakCoversCurrent'
    BY <2>9 DEF PeakCoversCurrent
  <2> QED
    BY <2>8, <2>10
<1>10. SentSoFar'
  <2>1. phase' = "rows" /\ UNCHANGED <<files, absent, cgroup, process, missed>>
    BY <1>1 DEF kernelVars
  <2>2. ASSUME ~missed, cgroup, NEW i \in DOMAIN cgroupMetrics,
               cgroupMetrics[i].cgroupFile \in files \ absent, i < row'
        PROVE  Value(cgroupMetrics[i].desc.name)' # {}
    <3>1. i \in 1..30
      BY Table
    <3>2. i <= row
      BY <1>1, <1>3, <2>2, <3>1
    <3>3. CASE i < row
      <4>1. Value(cgroupMetrics[i].desc.name) # {}
        BY <1>1, <2>2, <3>3 DEF ReadingsInv, SentSoFar
      <4> QED
        BY <1>2, <4>1, ValueOf
    <3>4. CASE i = row
      <4>1. Exists(file)
        BY <2>2, <3>4, <3>1, RowFiles DEF Exists, file
      <4>2. X = {RowSample(row)}
        BY <1>5, <4>1
      <4>3. RowSample(row) \in {t \in X : t.desc.name = name}
        BY <1>6, <4>2
      <4>4. RowSample(row).value \in Value(name)'
        <5>1. RowSample(row).value \in {s.value : s \in {t \in X : t.desc.name = name}}
          BY <4>3
        <5> QED
          BY <1>2, <5>1, ValueOf
      <4> QED
        BY <1>0, <3>4, <4>4
    <3> QED
      BY <1>1, <3>1, <3>2, <3>3, <3>4
  <2>3. phase' # "gather"
    BY <2>1
  <2> QED
    BY <2>1, <2>2, <2>3 DEF SentSoFar
<1> QED
  BY <1>7, <1>8, <1>9, <1>10 DEF ReadingsInv

(* The steps that send nothing.                                            *)
LEMMA NothingSent ==
  ASSUME ReadingsInv, UNCHANGED <<kernelVars, sent, rejected, held>>, phase # "idle"
  PROVE  /\ HeldSoFar' /\ PeakAhead' /\ PeakCoversCurrent' /\ HeldDuringScrape'
         /\ ReadTogether' /\ RegistryAccepts'
<1>1. /\ \A name : Value(name)' = Value(name)
      /\ \A file : Of(file)' = Of(file)
  BY DEF Value, Of
<1>2. Followed' = Followed /\ stat' = stat /\ files' = files
  BY ContentsSame DEF kernelVars
<1>3. HeldSoFar'
  BY HeldSoFarKept DEF ReadingsInv
<1>4. PeakAhead' /\ PeakCoversCurrent'
  BY <1>1, <1>2 DEF ReadingsInv, PeakAhead, PeakCoversCurrent
<1>5. HeldDuringScrape' /\ ReadTogether'
  BY <1>1, <1>2 DEF ReadingsInv, HeldDuringScrape, ReadTogether
<1>6. RegistryAccepts'
  BY DEF ReadingsInv, RegistryAccepts
<1> QED
  BY <1>3, <1>4, <1>5, <1>6

(* Steps that send nothing keep the types.                                 *)
LEMMA TypeMoves ==
  ASSUME ReadingsTypeOK, UNCHANGED <<kernelVars, sent, rejected>>, missed' \in BOOLEAN,
         phase' \in {"idle", "cgroup", "rows", "multi", "iostat", "procio", "gather"},
         row' \in 1..31, phase' = "multi" => row' <= 2
  PROVE  ReadingsTypeOK'
<1>1. Followed' = Followed /\ UNCHANGED <<files, stat, diskIo, procIo, absent, cgroup, process>>
  BY ContentsSame DEF kernelVars
<1>2. Len(cgroupMetrics) = 30 /\ Len(cgroupMultiValueMetrics) = 1
  BY Table, MultiTable
<1> QED
  BY <1>1, <1>2 DEF ReadingsTypeOK

(* What the types say of the row.                                          *)
LEMMA RowIsTyped ==
  ASSUME ReadingsTypeOK
  PROVE  row \in 1..31 /\ (phase = "multi" => row <= 2) /\ missed \in BOOLEAN
BY Table, MultiTable DEF ReadingsTypeOK

(* Collect begins: nothing is sent, and what the files contain is held.    *)
LEMMA StartCollectPreserves ==
  ASSUME ReadingsInv, StartCollect
  PROVE  ReadingsInv'
<1>1. /\ phase' = "cgroup" /\ sent' = {} /\ rejected' = FALSE /\ missed' = FALSE
      /\ held' = Contents /\ UNCHANGED <<kernelVars, row>>
  BY DEF StartCollect
<1>2. Followed' = Followed /\ Contents' = Contents
      /\ UNCHANGED <<files, stat, diskIo, procIo, absent, cgroup, process>>
  BY <1>1, ContentsSame DEF kernelVars
<1>3. ReadingsTypeOK'
  BY <1>1, <1>2 DEF ReadingsInv, ReadingsTypeOK
<1>4. HeldSoFar'
  <2>1. \A c \in held' : c[1] \in files' /\ (c[1] # "io" => c[1] \notin absent')
    BY <1>1, <1>2, ContentsExist, ExistingFiles
  <2> QED
    BY <1>1, <1>2, <2>1 DEF HeldSoFar
<1>5. \A name : Value(name)' = {}
  BY <1>1 DEF Value
<1>6. \A file : Of(file)' = {}
  BY <1>1 DEF Of
<1>7. SentInOrder' /\ SentSoFar'
  BY <1>1 DEF SentInOrder, SentSoFar
<1>8. PeakAhead' /\ PeakCoversCurrent'
  BY <1>2, <1>5 DEF ReadingsInv, PeakAhead, PeakCoversCurrent
<1>9. HeldDuringScrape' /\ ReadTogether' /\ RegistryAccepts'
  BY <1>1, <1>6 DEF HeldDuringScrape, ReadTogether, RegistryAccepts
<1> QED
  BY <1>3, <1>4, <1>7, <1>8, <1>9 DEF ReadingsInv

(* The cgroup is found.                                                    *)
LEMMA FindCgroupPreserves ==
  ASSUME ReadingsInv, FindCgroup
  PROVE  ReadingsInv'
<1>1. /\ phase = "cgroup" /\ phase' = "rows" /\ row' = NextRow(0)
      /\ UNCHANGED <<kernelVars, sent, rejected, missed, held>>
  BY DEF FindCgroup
<1>2. sent = {}
  BY <1>1 DEF ReadingsInv, SentInOrder
<1>3. row' \in 1..31 /\ \A j \in 1..(row' - 1) : cgroupMetrics[j].cgroupFile \notin files
  <2>1. 0 \in 0..30 /\ 0 + 1 = 1
    OBVIOUS
  <2> QED
    BY <1>1, <2>1, NextRowFacts
<1>4. ReadingsTypeOK'
  BY <1>1, <1>3, TypeMoves, RowIsTyped DEF ReadingsInv
<1>5. SentInOrder'
  BY <1>1, <1>2 DEF SentInOrder
<1>6. SentSoFar'
  <2>1. ASSUME NEW i \in DOMAIN cgroupMetrics, cgroupMetrics[i].cgroupFile \in files, i < row'
        PROVE  FALSE
    <3>1. i \in 1..(row' - 1)
      BY <1>3, <2>1, Table
    <3> QED
      BY <1>3, <2>1, <3>1
  <2>2. files' = files /\ phase' = "rows"
    BY <1>1 DEF kernelVars
  <2> QED
    BY <2>1, <2>2 DEF SentSoFar
<1> QED
  BY <1>1, <1>4, <1>5, <1>6, NothingSent DEF ReadingsInv

(* The cgroup is not found.                                                *)
LEMMA FindCgroupFailsPreserves ==
  ASSUME ReadingsInv, FindCgroupFails
  PROVE  ReadingsInv'
<1>1. /\ phase = "cgroup" /\ phase' = "procio" /\ missed' = TRUE
      /\ UNCHANGED <<kernelVars, row, sent, rejected, held>>
  BY DEF FindCgroupFails
<1>2. sent = {}
  BY <1>1 DEF ReadingsInv, SentInOrder
<1>3. ReadingsTypeOK'
  BY <1>1, TypeMoves, RowIsTyped DEF ReadingsInv
<1>4. SentInOrder' /\ SentSoFar'
  BY <1>1, <1>2 DEF SentInOrder, SentSoFar
<1> QED
  BY <1>1, <1>3, <1>4, NothingSent DEF ReadingsInv

(* The table is done.                                                      *)
LEMMA RowsDonePreserves ==
  ASSUME ReadingsInv, RowsDone
  PROVE  ReadingsInv'
<1>1. /\ phase = "rows" /\ row > 30 /\ phase' = "multi" /\ row' = 1
      /\ UNCHANGED <<kernelVars, sent, rejected, missed, held>>
  BY Table DEF RowsDone
<1>2. ReadingsTypeOK'
  BY <1>1, TypeMoves, RowIsTyped DEF ReadingsInv
<1>3. SentInOrder'
  BY <1>1 DEF ReadingsInv, SentInOrder
<1>4. SentSoFar'
  <2>1. \A i \in DOMAIN cgroupMetrics : i < row
    BY <1>1, RowIsTyped, Table DEF ReadingsInv
  <2>2. \A name : Value(name)' = Value(name)
    BY <1>1 DEF Value
  <2>3. UNCHANGED <<files, absent, cgroup, process>>
    BY <1>1 DEF kernelVars
  <2> QED
    BY <1>1, <2>1, <2>2, <2>3 DEF ReadingsInv, SentSoFar
<1> QED
  BY <1>1, <1>2, <1>3, <1>4, NothingSent DEF ReadingsInv

(* The second table is done.                                               *)
LEMMA MultiDonePreserves ==
  ASSUME ReadingsInv, MultiDone
  PROVE  ReadingsInv'
<1>1. /\ phase = "multi" /\ row > 1 /\ phase' = "iostat"
      /\ UNCHANGED <<kernelVars, row, sent, rejected, missed, held>>
  BY MultiTable DEF MultiDone
<1>2. ReadingsTypeOK'
  BY <1>1, TypeMoves, RowIsTyped DEF ReadingsInv
<1>3. SentInOrder'
  BY <1>1 DEF ReadingsInv, SentInOrder
<1>4. SentSoFar'
  <2>1. /\ \A name : Value(name)' = Value(name)
        /\ \A file : Of(file)' = Of(file)
    BY <1>1 DEF Value, Of
  <2>2. UNCHANGED <<files, absent, cgroup, process>>
    BY <1>1 DEF kernelVars
  <2> QED
    BY <1>1, <2>1, <2>2 DEF ReadingsInv, SentSoFar
<1> QED
  BY <1>1, <1>2, <1>3, <1>4, NothingSent DEF ReadingsInv

(* The registry answers.                                                   *)
LEMMA AnswerPreserves ==
  ASSUME ReadingsInv, Answer
  PROVE  ReadingsInv'
<1>1. /\ phase = "gather" /\ phase' = "idle" /\ held' = {}
      /\ UNCHANGED <<kernelVars, row, sent, rejected, missed>>
  BY DEF Answer
<1>2. ReadingsTypeOK'
  BY <1>1, TypeMoves, RowIsTyped DEF ReadingsInv
<1>3. SentInOrder' /\ SentSoFar' /\ HeldSoFar' /\ HeldDuringScrape' /\ ReadTogether'
  BY <1>1 DEF ReadingsInv, SentInOrder, SentSoFar, HeldSoFar, HeldDuringScrape, ReadTogether
<1>4. \A name : Value(name)' = Value(name)
  BY <1>1 DEF Value
<1>5. Followed' = Followed /\ stat' = stat
  BY <1>1, ContentsSame DEF kernelVars
<1>6. PeakAhead' /\ PeakCoversCurrent'
  BY <1>4, <1>5 DEF ReadingsInv, PeakAhead, PeakCoversCurrent
<1>7. RegistryAccepts'
  BY <1>1 DEF ReadingsInv, RegistryAccepts
<1> QED
  BY <1>2, <1>3, <1>6, <1>7 DEF ReadingsInv

(* After the cgroup's table every file has one turn.                       *)
Turn(X) ==
  \/ phase = "iostat" /\ phase' = "procio" /\ \A s \in X : File(s) = "io.stat"
  \/ phase = "procio" /\ phase' = "gather" /\ \A s \in X : File(s) = "io"

(* What has its turn has not been sent before.                             *)
LEMMA TurnIsFresh ==
  ASSUME SentInOrder, NEW X, Turn(X)
  PROVE  \A s \in X, t \in sent : s.desc.name # t.desc.name
<1> SUFFICES ASSUME NEW s \in X, NEW t \in sent PROVE File(s) # File(t)
  BY DEF File
<1>1. CASE phase = "iostat"
  BY <1>1 DEF Turn, SentInOrder
<1>2. CASE phase = "procio"
  BY <1>2 DEF Turn, SentInOrder
<1> QED
  BY <1>1, <1>2 DEF Turn

(* A turn keeps the invariant.                                             *)
LEMMA TurnKeeps ==
  ASSUME ReadingsInv, NEW X, Send(X), Sendable(X), Turn(X),
         UNCHANGED <<kernelVars, row, missed, held>>,
         phase = "procio" /\ process /\ "io" \in files => Cardinality(Of("io")') = 6
  PROVE  ReadingsInv'
<1>1. sent' = sent \cup X
  BY DEF Send
<1>2. /\ phase \in {"iostat", "procio"} /\ phase' \in {"procio", "gather"}
      /\ \A s \in X : File(s) \in {"io.stat", "io"}
  BY DEF Turn
<1>3. ReadingsTypeOK' /\ HeldSoFar' /\ HeldDuringScrape' /\ ReadTogether' /\ RegistryAccepts'
  <2>1. row' \in 1..31 /\ phase # "idle"
    BY <1>2, RowIsTyped DEF ReadingsInv
  <2> QED
    BY <1>2, <2>1, SendKeeps
<1>4. SentInOrder'
  <2>1. ASSUME NEW s \in sent'
        PROVE  File(s) = "io" => phase' = "gather"
    <3>1. CASE s \in sent
      BY <3>1 DEF Turn, ReadingsInv, SentInOrder
    <3>2. CASE s \in X
      BY <3>2 DEF Turn
    <3> QED
      BY <1>1, <2>1, <3>1, <3>2
  <2> QED
    BY <1>2, <2>1 DEF SentInOrder
<1>5. PeakAhead' /\ PeakCoversCurrent'
  <2>1. \A s \in X : File(s) \notin NumberFiles
    BY <1>2, FilesApart
  <2> QED
    BY <1>1, <2>1, PeaksKept DEF ReadingsInv
<1>6. SentSoFar'
  <2>1. UNCHANGED <<files, absent, cgroup, process, missed>>
    BY DEF kernelVars
  <2>2. Of("cpu.max")' = Of("cpu.max")
    <3>1. \A s \in X : File(s) # "cpu.max"
      BY <1>2
    <3> QED
      BY <1>1, <3>1, OfKept
  <2>3. \A name : Value(name) \subseteq Value(name)'
    BY <1>1, ValueOf
  <2>4. ASSUME phase' = "gather", process, "io" \in files
        PROVE  Cardinality(Of("io")') = 6
    BY <2>4 DEF Turn
  <2>5. ASSUME ~missed, cgroup
        PROVE  /\ \A i \in DOMAIN cgroupMetrics :
                    cgroupMetrics[i].cgroupFile \in files \ absent =>
                      Value(cgroupMetrics[i].desc.name)' # {}
               /\ "cpu.max" \in files \ absent => Cardinality(Of("cpu.max")') = 2
    <3>1. /\ \A i \in DOMAIN cgroupMetrics :
               cgroupMetrics[i].cgroupFile \in files \ absent =>
                 Value(cgroupMetrics[i].desc.name) # {}
          /\ "cpu.max" \in files \ absent => Cardinality(Of("cpu.max")) = 2
      BY <1>2, <2>5 DEF ReadingsInv, SentSoFar
    <3> QED
      BY <2>2, <2>3, <3>1
  <2> QED
    BY <1>2, <2>1, <2>4, <2>5 DEF SentSoFar
<1> QED
  BY <1>3, <1>4, <1>5, <1>6 DEF ReadingsInv

ProcIoSample(key) == Sample(ProcessIo(key), <<>>, procIo[key])

(* A counter of the process is as its file says.                           *)
LEMMA ProcIoParts ==
  ASSUME ReadingsTypeOK, NEW key \in ToSet(procIoKeys)
  PROVE  LET s == ProcIoSample(key)
         IN  /\ s.desc = ProcessIo(key) /\ s.labels = <<>> /\ s.value = procIo[key]
             /\ s.value \in 0..MaxCount
             /\ File(s) = "io" /\ s.desc.name = <<"io", key>> /\ s.desc.labels = processLabels
             /\ Says("io", Content("io"), s)
<1> DEFINE s == ProcIoSample(key)
<1>1. s.desc = ProcessIo(key) /\ s.labels = <<>> /\ s.value = procIo[key]
  BY DEF ProcIoSample, Sample
<1>2. s.value \in 0..MaxCount
  BY <1>1 DEF ReadingsTypeOK
<1>3. File(s) = "io" /\ s.desc.name = <<"io", key>> /\ s.desc.labels = processLabels
  BY <1>1 DEF File, ProcessIo, NewDesc
<1> HIDE DEF s
<1>4. s.desc.name[2] = key
  BY <1>3
<1>5. <<key, procIo[key]>> \in ToSet(Content("io"))
  BY ReadIo
<1>6. Says("io", Content("io"), s)
  BY <1>1, <1>4, <1>5 DEF Says
<1> QED
  BY <1>1, <1>2, <1>3, <1>6 DEF s

(* A list without repetitions counts the elements of a set.                *)
LEMMA Listed ==
  ASSUME NEW n \in Nat, NEW X, NEW f \in [1..n -> X],
         \A j, k \in 1..n : f[j] = f[k] => j = k,
         \A x \in X : \E k \in 1..n : f[k] = x
  PROVE  Cardinality(X) = n
<1>1. f \in Injection(1..n, X)
  BY DEF Injection, IsInjective
<1>2. f \in Surjection(1..n, X)
  BY DEF Surjection
<1>3. ExistsBijection(1..n, X)
  BY <1>1, <1>2 DEF ExistsBijection, Bijection
<1> QED
  BY <1>3, FS_CountingElements

(* As many counters are sent as there are keys.                            *)
LEMMA SixCounters ==
  ASSUME NEW X, X = {ProcIoSample(key) : key \in ToSet(procIoKeys)}
  PROVE  Cardinality(X) = 6
<1> DEFINE f == [k \in 1..6 |-> ProcIoSample(procIoKeys[k])]
<1>1. \A k \in 1..6 : f[k] \in X
  BY KeySets
<1>2. \A x \in X : \E k \in 1..6 : f[k] = x
  BY KeySets
<1>3. ASSUME NEW j \in 1..6, NEW k \in 1..6, f[j] = f[k]
      PROVE  j = k
  <2>1. ProcIoSample(procIoKeys[j]).desc.name = ProcIoSample(procIoKeys[k]).desc.name
    BY <1>3
  <2>2. <<"io", procIoKeys[j]>> = <<"io", procIoKeys[k]>>
    BY <2>1 DEF ProcIoSample, Sample, ProcessIo, NewDesc
  <2> QED
    BY <2>2, Keys
<1>4. f \in [1..6 -> X]
  BY <1>1
<1> HIDE DEF f
<1>5. PICK n \in Nat : n = 6
  OBVIOUS
<1>6. /\ f \in [1..n -> X]
      /\ \A j, k \in 1..n : f[j] = f[k] => j = k
      /\ \A x \in X : \E k \in 1..n : f[k] = x
  BY <1>2, <1>3, <1>4, <1>5
<1>7. Cardinality(X) = n
  BY <1>6, Listed
<1> QED
  BY <1>5, <1>7

(* The turn of the process's counters.                                     *)
LEMMA CollectProcIoPreserves ==
  ASSUME ReadingsInv, CollectProcIo
  PROVE  ReadingsInv'
<1> DEFINE X == UNION {{Sample(ProcessIo(key), <<>>, io[key]) : key \in ToSet(procIoKeys)} :
                       io \in ParseProcIO}
<1>1. /\ phase = "procio" /\ phase' = "gather" /\ Send(X)
      /\ UNCHANGED <<kernelVars, row, missed, held>>
  BY DEF CollectProcIo
<1>2. CASE ~Exists("io")
  <2>1. X = {}
    <3>1. ParseProcIO = {}
      BY <1>2 DEF ParseProcIO
    <3> QED
      BY <3>1
  <2> HIDE DEF X
  <2>2. Sendable(X) /\ Turn(X)
    BY <1>1, <2>1 DEF Sendable, Turn
  <2>3. ~(process /\ "io" \in files)
    BY <1>2 DEF Exists
  <2> QED
    BY <1>1, <2>2, <2>3, TurnKeeps
<1>3. CASE Exists("io")
  <2>1. X = {ProcIoSample(key) : key \in ToSet(procIoKeys)}
    <3> DEFINE io == [key \in ToSet(procIoKeys) |-> procIo[key]]
    <3>1. ParseProcIO = {io}
      BY <1>3, ReadIo DEF ReadingsInv
    <3>2. X = {Sample(ProcessIo(key), <<>>, io[key]) : key \in ToSet(procIoKeys)}
      BY <3>1
    <3>3. \A key \in ToSet(procIoKeys) :
            Sample(ProcessIo(key), <<>>, io[key]) = ProcIoSample(key)
      BY DEF ProcIoSample
    <3> HIDE DEF io
    <3> QED
      BY <3>2, <3>3
  <2> HIDE DEF X
  <2>2. ASSUME NEW s \in X
        PROVE  /\ \E key \in ToSet(procIoKeys) :
                    s = ProcIoSample(key) /\ s.desc.name = <<"io", key>>
               /\ s.value \in -1..MaxCount
               /\ Len(s.desc.labels) = Unlabelled(s.desc) + Len(s.labels)
               /\ File(s) = "io"
               /\ Says("io", Content("io"), s)
    <3>1. PICK key \in ToSet(procIoKeys) : s = ProcIoSample(key)
      BY <2>1, <2>2
    <3>2. /\ s.desc = ProcessIo(key) /\ s.labels = <<>> /\ s.value \in 0..MaxCount
          /\ File(s) = "io" /\ s.desc.name = <<"io", key>> /\ s.desc.labels = processLabels
          /\ Says("io", Content("io"), s)
      BY <3>1, ProcIoParts DEF ReadingsInv
    <3>3. s.value \in -1..MaxCount
      BY <3>2, ReadingsAssumption
    <3>5. Len(s.labels) = 0 /\ Len(s.desc.labels) = Unlabelled(s.desc) + 0
      BY <3>2, Labelled
    <3> QED
      BY <3>1, <3>2, <3>3, <3>5
  <2>3. Turn(X)
    BY <1>1, <2>2 DEF Turn
  <2>4. Of("io") = {}
    BY <1>1 DEF ReadingsInv, SentInOrder, Of, File
  <2>5. \E c \in held : c[1] = "io" /\ c[2] = Content("io")
    BY <1>1, <1>3, HeldNow DEF ReadingsInv
  <2>6. \E c \in held : c[1] = "io" /\ \A s \in X : Says("io", c[2], s)
    BY <2>2, <2>5
  <2>7. \A s, t \in X : Clash(s, t) => s = t
    BY <2>2 DEF Clash
  <2>8. \A s \in X, t \in sent : s.desc.name # t.desc.name
    BY <2>3, TurnIsFresh DEF ReadingsInv
  <2>9. Sendable(X)
    BY <2>2, <2>4, <2>6, <2>7, <2>8 DEF Sendable
  <2>10. Cardinality(Of("io")') = 6
    <3>1. Of("io")' = X
      BY <1>1, <2>2, <2>4, OfNew DEF Send
    <3> QED
      BY <2>1, <3>1, SixCounters
  <2> QED
    BY <1>1, <2>3, <2>9, <2>10, TurnKeeps
<1> QED
  BY <1>2, <1>3

IoSample(d, key) == Sample(CgroupIo(key), d, diskIo[d][key])

(* A counter of a device is as the line of the device says.                *)
LEMMA IoSampleParts ==
  ASSUME ReadingsTypeOK, NEW d \in Used, NEW key \in ToSet(ioStatKeys)
  PROVE  LET s == IoSample(d, key)
         IN  /\ s.desc = CgroupIo(key) /\ s.labels = d /\ s.value = diskIo[d][key]
             /\ s.value \in 0..MaxCount /\ Len(s.labels) = 2
             /\ File(s) = "io.stat" /\ s.desc.name = <<"io.stat", key>>
             /\ s.desc.labels = ioStatLabels
             /\ Says("io.stat", Content("io.stat"), s)
<1> DEFINE s == IoSample(d, key)
           lines == Content("io.stat")
           line == IoStatLine(d)
<1>1. s.desc = CgroupIo(key) /\ s.labels = d /\ s.value = diskIo[d][key]
  BY DEF IoSample, Sample
<1>2. d \in Devices
  BY DEF Used
<1>3. s.value \in 0..MaxCount
  BY <1>1, <1>2 DEF ReadingsTypeOK
<1>4. Len(d) = 2
  <2>1. PICK a \in Nat, b \in Nat : d = <<a, b>>
    BY <1>2, ReadingsAssumption
  <2> QED
    BY <2>1
<1>5. File(s) = "io.stat" /\ s.desc.name = <<"io.stat", key>> /\ s.desc.labels = ioStatLabels
  BY <1>1 DEF File, CgroupIo, NewDesc
<1>6. line[1] = d /\ <<key, diskIo[d][key]>> \in ToSet(Tail(line))
  BY <1>2, IoStatLineParts, ParseLine
<1>7. line \in ToSet(lines)
  BY ReadDevices
<1> HIDE DEF s, line, lines
<1>8. s.desc.name[2] = key
  BY <1>5
<1>9. Says("io.stat", lines, s)
  BY <1>1, <1>6, <1>7, <1>8 DEF Says
<1> QED
  BY <1>1, <1>3, <1>4, <1>5, <1>9 DEF s, lines

(* All counters of all devices are sent.                                   *)
LEMMA IoStatSamplesAre ==
  ASSUME ReadingsTypeOK, Exists("io.stat")
  PROVE  UNION {IoStatSamples(stats) : stats \in ReadIoStat} =
           {IoSample(d, key) : d \in Used, key \in ToSet(ioStatKeys)}
<1> DEFINE all == {IoStat(d) : d \in Used}
<1>1. ReadIoStat = {all}
  BY ReadDevices
<1>2. \A d \in Used, key \in ToSet(ioStatKeys) :
        Sample(CgroupIo(key), IoStat(d).dev, IoStat(d).counters[key]) = IoSample(d, key)
  BY DEF IoStat, IoSample
<1>3. IoStatSamples(all) = {IoSample(d, key) : d \in Used, key \in ToSet(ioStatKeys)}
  <2>1. ASSUME NEW x \in IoStatSamples(all)
        PROVE  \E d \in Used, key \in ToSet(ioStatKeys) : x = IoSample(d, key)
    <3>1. PICK s \in all, key \in ToSet(ioStatKeys) :
            x = Sample(CgroupIo(key), s.dev, s.counters[key])
      BY <2>1 DEF IoStatSamples
    <3>2. PICK d \in Used : s = IoStat(d)
      BY <3>1
    <3> QED
      BY <1>2, <3>1, <3>2
  <2>2. ASSUME NEW d \in Used, NEW key \in ToSet(ioStatKeys)
        PROVE  IoSample(d, key) \in IoStatSamples(all)
    <3>1. IoStat(d) \in all
      OBVIOUS
    <3> HIDE DEF all
    <3>2. Sample(CgroupIo(key), IoStat(d).dev, IoStat(d).counters[key]) \in IoStatSamples(all)
      BY <3>1 DEF IoStatSamples
    <3> QED
      BY <1>2, <3>2
  <2> QED
    BY <2>1, <2>2
<1> HIDE DEF all
<1> DEFINE lists == {IoStatSamples(stats) : stats \in ReadIoStat}
           samples == IoStatSamples(all)
<1>4. lists = {samples}
  BY <1>1
<1> HIDE DEF lists, samples
<1>5. UNION lists = samples
  BY <1>4
<1> QED
  BY <1>3, <1>5 DEF lists, samples

(* The turn of the devices.                                                *)
LEMMA CollectIoStatPreserves ==
  ASSUME ReadingsInv, CollectIoStat
  PROVE  ReadingsInv'
<1> DEFINE X == UNION {IoStatSamples(stats) : stats \in ReadIoStat}
<1>1. /\ phase = "iostat" /\ phase' = "procio" /\ Send(X)
      /\ UNCHANGED <<kernelVars, row, missed, held>>
  BY DEF CollectIoStat
<1>2. CASE ~Exists("io.stat")
  <2>1. X = {}
    <3>1. ReadIoStat = {}
      BY <1>2 DEF ReadIoStat
    <3> QED
      BY <3>1
  <2> HIDE DEF X
  <2>2. Sendable(X) /\ Turn(X)
    BY <1>1, <2>1 DEF Sendable, Turn
  <2> QED
    BY <1>1, <2>2, TurnKeeps
<1>3. CASE Exists("io.stat")
  <2>1. X = {IoSample(d, key) : d \in Used, key \in ToSet(ioStatKeys)}
    BY <1>3, IoStatSamplesAre DEF ReadingsInv
  <2> HIDE DEF X
  <2>2. ASSUME NEW s \in X
        PROVE  /\ \E d \in Used, key \in ToSet(ioStatKeys) :
                    s = IoSample(d, key) /\ s.labels = d /\ s.desc.name = <<"io.stat", key>>
               /\ s.value \in -1..MaxCount
               /\ Len(s.desc.labels) = Unlabelled(s.desc) + Len(s.labels)
               /\ File(s) = "io.stat"
               /\ Says("io.stat", Content("io.stat"), s)
    <3>1. PICK d \in Used, key \in ToSet(ioStatKeys) : s = IoSample(d, key)
      BY <2>1, <2>2
    <3>2. /\ s.desc = CgroupIo(key) /\ s.labels = d /\ s.value \in 0..MaxCount
          /\ Len(s.labels) = 2
          /\ File(s) = "io.stat" /\ s.desc.name = <<"io.stat", key>>
          /\ s.desc.labels = ioStatLabels
          /\ Says("io.stat", Content("io.stat"), s)
      BY <3>1, IoSampleParts DEF ReadingsInv
    <3>3. s.value \in -1..MaxCount
      BY <3>2, ReadingsAssumption
    <3>5. Len(s.desc.labels) = Unlabelled(s.desc) + 2
      BY <3>2, Labelled
    <3> QED
      BY <3>1, <3>2, <3>3, <3>5
  <2>3. Turn(X)
    BY <1>1, <2>2 DEF Turn
  <2>4. Of("io.stat") = {}
    BY <1>1 DEF ReadingsInv, SentInOrder, Of, File
  <2>5. \E c \in held : c[1] = "io.stat" /\ c[2] = Content("io.stat")
    BY <1>1, <1>3, HeldNow DEF ReadingsInv
  <2>6. \E c \in held : c[1] = "io.stat" /\ \A s \in X : Says("io.stat", c[2], s)
    BY <2>2, <2>5
  <2>7. \A s, t \in X : Clash(s, t) => s = t
    <3> SUFFICES ASSUME NEW s \in X, NEW t \in X, Clash(s, t) PROVE s = t
      OBVIOUS
    <3>1. PICK d \in Used, key \in ToSet(ioStatKeys) :
            s = IoSample(d, key) /\ s.labels = d /\ s.desc.name = <<"io.stat", key>>
      BY <2>2
    <3>2. PICK e \in Used, k \in ToSet(ioStatKeys) :
            t = IoSample(e, k) /\ t.labels = e /\ t.desc.name = <<"io.stat", k>>
      BY <2>2
    <3>3. d = e /\ <<"io.stat", key>> = <<"io.stat", k>>
      BY <3>1, <3>2 DEF Clash
    <3>4. key = k
      BY <3>3
    <3> QED
      BY <3>1, <3>2, <3>3, <3>4
  <2>8. \A s \in X, t \in sent : s.desc.name # t.desc.name
    BY <2>3, TurnIsFresh DEF ReadingsInv
  <2>9. Sendable(X)
    BY <2>2, <2>4, <2>6, <2>7, <2>8 DEF Sendable
  <2> QED
    BY <1>1, <2>3, <2>9, TurnKeeps
<1> QED
  BY <1>2, <1>3

(* A value of cpu.max is of the file's metrics.                            *)
LEMMA CpuMaxSampleParts ==
  ASSUME ReadingsTypeOK, "cpu.max" \in files, NEW j \in 1..2
  PROVE  LET s == CpuMaxSample(j)
         IN  /\ s.desc = CpuMaxDesc(j) /\ s.labels = <<>> /\ s.value \in -1..MaxCount
             /\ File(s) = "cpu.max" /\ s.desc.name = CpuMax[j]
             /\ s.desc.labels = containerLabels
<1> DEFINE s == CpuMaxSample(j)
<1>1. s.desc = CpuMaxDesc(j) /\ s.labels = <<>> /\ s.value = Shown(stat[CpuMax[j]])
  BY DEF CpuMaxSample, Sample
<1>2. s.value \in -1..MaxCount
  <2>1. stat[CpuMax[j]] \in 0..MaxCount \cup {NoLimit}
    <3>1. CASE j = 1
      BY <3>1, CpuMaxFollowed
    <3>2. CASE j = 2
      BY <3>2, CpuMaxFollowed
    <3> QED
      BY <3>1, <3>2
  <2> QED
    BY <1>1, <2>1, WordShown
<1>3. s.desc.name = CpuMax[j] /\ s.desc.labels = containerLabels
  BY <1>1 DEF CpuMaxDesc, NewDesc
<1>4. CpuMax[j][1] = "cpu.max"
  BY CpuMaxParts
<1> QED
  BY <1>1, <1>2, <1>3, <1>4 DEF File

MultiSamples(m) ==
  UNION {{Sample(m.descs[j], <<>>, values[j]) : j \in DOMAIN m.descs \cap DOMAIN values} :
         values \in ReadSpaceSeparatedIntegers(m.cgroupFile)}

(* Both values of cpu.max are sent, or none.                               *)
LEMMA MultiSamplesAre ==
  ASSUME ReadingsTypeOK
  PROVE  /\ ~Exists("cpu.max") => MultiSamples(cgroupMultiValueMetrics[1]) = {}
         /\ Exists("cpu.max") =>
              /\ "cpu.max" \in files
              /\ MultiSamples(cgroupMultiValueMetrics[1]) = {CpuMaxSample(j) : j \in 1..2}
<1>0. PICK m : m = cgroupMultiValueMetrics[1]
  OBVIOUS
<1>1. /\ m.cgroupFile = "cpu.max" /\ DOMAIN m.descs = 1..2
      /\ \A j \in 1..2 : m.descs[j] = CpuMaxDesc(j)
  BY <1>0, MultiTable
<1>2. CASE ~Exists("cpu.max")
  <2>1. ReadSpaceSeparatedIntegers(m.cgroupFile) = {}
    BY <1>1, <1>2 DEF ReadSpaceSeparatedIntegers
  <2>2. MultiSamples(m) = {}
    BY <2>1 DEF MultiSamples
  <2> QED
    BY <1>0, <1>2, <2>2
<1>3. CASE Exists("cpu.max")
  <2>1. "cpu.max" \in files
    BY <1>3, ExistingFiles
  <2> DEFINE all == [j \in 1..2 |-> Shown(stat[CpuMax[j]])]
             S(values) == {Sample(m.descs[j], <<>>, values[j]) :
                             j \in DOMAIN m.descs \cap DOMAIN values}
             lists == {S(values) : values \in ReadSpaceSeparatedIntegers(m.cgroupFile)}
             samples == S(all)
  <2>2. ReadSpaceSeparatedIntegers(m.cgroupFile) = {all}
    BY <1>1, <1>3, <2>1, ReadCpuMax
  <2>3. samples = {CpuMaxSample(j) : j \in 1..2}
    <3>1. DOMAIN m.descs \cap DOMAIN all = 1..2
      BY <1>1
    <3>2. \A j \in 1..2 : Sample(m.descs[j], <<>>, all[j]) = CpuMaxSample(j)
      BY <1>1 DEF CpuMaxSample
    <3> HIDE DEF all
    <3> QED
      BY <3>1, <3>2
  <2>4. MultiSamples(m) = UNION lists
    BY DEF MultiSamples
  <2> HIDE DEF all, S
  <2>5. lists = {samples}
    BY <2>2
  <2> HIDE DEF lists, samples
  <2>6. UNION lists = samples
    BY <2>5
  <2> QED
    BY <1>0, <1>3, <2>1, <2>3, <2>4, <2>6
<1> QED
  BY <1>2, <1>3

(* Both are two.                                                           *)
LEMMA TwoValues ==
  ASSUME ReadingsTypeOK, "cpu.max" \in files,
         NEW X, X = {CpuMaxSample(j) : j \in 1..2}
  PROVE  Cardinality(X) = 2
<1> DEFINE f == [k \in 1..2 |-> CpuMaxSample(k)]
<1>1. f \in [1..2 -> X] /\ \A x \in X : \E k \in 1..2 : f[k] = x
  OBVIOUS
<1>2. ASSUME NEW j \in 1..2, NEW k \in 1..2, f[j] = f[k]
      PROVE  j = k
  <2>1. CpuMaxSample(j).desc.name = CpuMaxSample(k).desc.name
    BY <1>2
  <2>2. CpuMax[j] = CpuMax[k]
    BY <2>1, CpuMaxSampleParts
  <2> QED
    BY <2>2, CpuMaxParts
<1> HIDE DEF f
<1>3. PICK n \in Nat : n = 2
  OBVIOUS
<1>4. /\ f \in [1..n -> X]
      /\ \A j, k \in 1..n : f[j] = f[k] => j = k
      /\ \A x \in X : \E k \in 1..n : f[k] = x
  BY <1>1, <1>2, <1>3
<1>5. Cardinality(X) = n
  BY <1>4, Listed
<1> QED
  BY <1>3, <1>5

(* They are fit to be sent.                                                *)
LEMMA MultiSendable ==
  ASSUME ReadingsInv, phase = "multi", row = 1
  PROVE  /\ Sendable(MultiSamples(cgroupMultiValueMetrics[1]))
         /\ \A s \in MultiSamples(cgroupMultiValueMetrics[1]) : File(s) = "cpu.max"
         /\ Of("cpu.max") = {}
<1>0. PICK X : X = MultiSamples(cgroupMultiValueMetrics[1])
  OBVIOUS
<1>1. Of("cpu.max") = {}
  BY DEF ReadingsInv, SentInOrder, Of, File
<1>2. CASE ~Exists("cpu.max")
  <2>1. X = {}
    BY <1>0, <1>2, MultiSamplesAre DEF ReadingsInv
  <2> QED
    BY <1>0, <1>1, <2>1 DEF Sendable
<1>3. CASE Exists("cpu.max")
  <2>1. "cpu.max" \in files /\ X = {CpuMaxSample(j) : j \in 1..2}
    BY <1>0, <1>3, MultiSamplesAre DEF ReadingsInv
  <2>2. ASSUME NEW s \in X
        PROVE  /\ \E j \in 1..2 : s = CpuMaxSample(j) /\ s.desc.name = CpuMax[j]
               /\ s.value \in -1..MaxCount
               /\ Len(s.desc.labels) = Unlabelled(s.desc) + Len(s.labels)
               /\ File(s) = "cpu.max"
               /\ Says("cpu.max", Content("cpu.max"), s)
    <3>1. PICK j \in 1..2 : s = CpuMaxSample(j)
      BY <2>1, <2>2
    <3>2. /\ s.desc = CpuMaxDesc(j) /\ s.labels = <<>> /\ s.value \in -1..MaxCount
          /\ File(s) = "cpu.max" /\ s.desc.name = CpuMax[j]
          /\ s.desc.labels = containerLabels
      BY <2>1, <3>1, CpuMaxSampleParts DEF ReadingsInv
    <3>4. Len(s.labels) = 0 /\ Len(s.desc.labels) = Unlabelled(s.desc) + 0
      BY <3>2, Labelled
    <3>5. Says("cpu.max", Content("cpu.max"), s)
      BY <2>1, <3>1, CpuMaxSays DEF ReadingsInv
    <3> QED
      BY <3>1, <3>2, <3>4, <3>5
  <2>3. \E c \in held : c[1] = "cpu.max" /\ c[2] = Content("cpu.max")
    BY <1>3, HeldNow DEF ReadingsInv
  <2>4. \E c \in held : c[1] = "cpu.max" /\ \A s \in X : Says("cpu.max", c[2], s)
    BY <2>2, <2>3
  <2>5. \A s, t \in X : Clash(s, t) => s = t
    BY <2>2, CpuMaxParts DEF Clash
  <2>6. ASSUME NEW s \in X, NEW t \in sent PROVE s.desc.name # t.desc.name
    <3>1. t.desc.name[1] # "cpu.max"
      BY <1>1 DEF Of
    <3>2. s.desc.name[1] = "cpu.max"
      BY <2>2 DEF File
    <3> QED
      BY <3>1, <3>2
  <2>7. Sendable(X)
    BY <1>1, <2>2, <2>4, <2>5, <2>6 DEF Sendable
  <2> QED
    BY <1>0, <1>1, <2>2, <2>7
<1> QED
  BY <1>2, <1>3

(* Quota and period, from one read, keep the invariant.                    *)
LEMMA CollectMultiRowPreserves ==
  ASSUME ReadingsInv, CollectMultiRow
  PROVE  ReadingsInv'
<1> DEFINE X == MultiSamples(cgroupMultiValueMetrics[1])
<1>1. phase = "multi" /\ row = 1
  <2>1. phase = "multi" /\ row <= Len(cgroupMultiValueMetrics)
    BY DEF CollectMultiRow
  <2>2. Len(cgroupMultiValueMetrics) = 1
    BY MultiTable
  <2>3. row \in 1..31
    BY RowIsTyped DEF ReadingsInv
  <2> QED
    BY <2>1, <2>2, <2>3
<1>2. Send(X) /\ row' = 2 /\ UNCHANGED <<kernelVars, phase, missed, held>>
  BY <1>1 DEF CollectMultiRow, MultiSamples
<1>3. Sendable(X) /\ (\A s \in X : File(s) = "cpu.max") /\ Of("cpu.max") = {}
  BY <1>1, MultiSendable
<1>4. /\ ~Exists("cpu.max") => X = {}
      /\ Exists("cpu.max") => "cpu.max" \in files /\ X = {CpuMaxSample(j) : j \in 1..2}
  BY MultiSamplesAre DEF ReadingsInv
<1> HIDE DEF X
<1>5. sent' = sent \cup X
  BY <1>2 DEF Send
<1>6. /\ ReadingsTypeOK' /\ HeldSoFar' /\ HeldDuringScrape' /\ ReadTogether' /\ RegistryAccepts'
  BY <1>1, <1>2, <1>3, SendKeeps
<1>7. SentInOrder'
  <2>1. ASSUME NEW s \in sent'
        PROVE  File(s) \notin {"io.stat", "io"}
    <3>1. CASE s \in sent
      BY <1>1, <3>1 DEF ReadingsInv, SentInOrder
    <3>2. CASE s \in X
      BY <1>3, <3>2
    <3> QED
      BY <1>5, <2>1, <3>1, <3>2
  <2> QED
    BY <1>1, <1>2, <2>1 DEF SentInOrder
<1>8. PeakAhead' /\ PeakCoversCurrent'
  <2>1. \A s \in X : File(s) \notin NumberFiles
    BY <1>3, FilesApart
  <2> QED
    BY <1>2, <1>5, <2>1, PeaksKept DEF ReadingsInv
<1>9. SentSoFar'
  <2>1. UNCHANGED <<files, absent, cgroup, process, missed>> /\ phase' = "multi"
    BY <1>1, <1>2 DEF kernelVars
  <2>2. \A name : Value(name) \subseteq Value(name)'
    BY <1>5, ValueOf
  <2>3. ASSUME ~missed, cgroup, NEW i \in DOMAIN cgroupMetrics,
               cgroupMetrics[i].cgroupFile \in files \ absent
        PROVE  Value(cgroupMetrics[i].desc.name)' # {}
    <3>1. Value(cgroupMetrics[i].desc.name) # {}
      BY <1>1, <2>3 DEF ReadingsInv, SentSoFar
    <3> QED
      BY <2>2, <3>1
  <2>4. ASSUME cgroup, "cpu.max" \in files \ absent
        PROVE  Cardinality(Of("cpu.max")') = 2
    <3>1. Exists("cpu.max")
      BY <2>4 DEF Exists
    <3>2. Of("cpu.max")' = X
      BY <1>3, <1>5, OfNew
    <3> QED
      BY <1>4, <3>1, <3>2, TwoValues DEF ReadingsInv
  <2> QED
    BY <2>1, <2>3, <2>4 DEF SentSoFar
<1> QED
  BY <1>6, <1>7, <1>8, <1>9 DEF ReadingsInv

-----------------------------------------------------------------------------
(* Every step keeps the invariant.                                         *)
LEMMA ReadingsStep ==
  ReadingsInv /\ [ReadingsNext]_rvars => ReadingsInv'
<1> SUFFICES ASSUME ReadingsInv, [ReadingsNext]_rvars PROVE ReadingsInv'
  OBVIOUS
<1>1. CASE KernelStep
  BY <1>1, KernelPreserves
<1>2. CASE CollectStep
  BY <1>2, StartCollectPreserves, FindCgroupPreserves, FindCgroupFailsPreserves,
     CollectRowPreserves, RowsDonePreserves, CollectMultiRowPreserves, MultiDonePreserves,
     CollectIoStatPreserves, CollectProcIoPreserves, AnswerPreserves DEF CollectStep
<1>3. CASE UNCHANGED rvars
  <2>1. UNCHANGED <<kernelVars, phase, row, sent, rejected, missed, held>>
    BY <1>3 DEF rvars, collectVars
  <2>2. Followed' = Followed /\ Contents' = Contents
        /\ UNCHANGED <<files, stat, diskIo, procIo, absent, cgroup, process>>
    BY <2>1, ContentsSame DEF kernelVars
  <2>3. /\ \A name : Value(name)' = Value(name)
        /\ \A file : Of(file)' = Of(file)
    BY <2>1 DEF Value, Of
  <2>4. ReadingsTypeOK' /\ HeldSoFar' /\ SentInOrder'
    BY <2>1, <2>2 DEF ReadingsInv, ReadingsTypeOK, HeldSoFar, SentInOrder
  <2>5. PeakAhead' /\ SentSoFar' /\ PeakCoversCurrent'
    BY <2>1, <2>2, <2>3 DEF ReadingsInv, PeakAhead, SentSoFar, PeakCoversCurrent
  <2>6. HeldDuringScrape' /\ ReadTogether' /\ RegistryAccepts'
    BY <2>1, <2>2, <2>3 DEF ReadingsInv, HeldDuringScrape, ReadTogether, RegistryAccepts
  <2> QED
    BY <2>4, <2>5, <2>6 DEF ReadingsInv
<1> QED
  BY <1>1, <1>2, <1>3 DEF ReadingsNext

(* The inductive invariant of Collect's reads: the types, what is held of  *)
(* the files, the order of the sends, the peak ahead of what was sent, and *)
(* what was sent so far, together with what they are for.                  *)
THEOREM ReadingsInvariant == ReadingsSpec => []ReadingsInv
<1>1. ReadingsInit => ReadingsInv
  BY ReadingsInitially
<1>2. ReadingsInv /\ [ReadingsNext]_rvars => ReadingsInv'
  BY ReadingsStep
<1> QED
  BY <1>1, <1>2, PTL DEF ReadingsSpec

(* The values of every variable stay within their types                    *)
(* (collector.go:75-346).                                                  *)
THEOREM ReadingsTyped == ReadingsSpec => []ReadingsTypeOK
<1>1. ReadingsInv => ReadingsTypeOK
  BY DEF ReadingsInv
<1> QED
  BY <1>1, ReadingsInvariant, PTL

(* No scrape shows a current value above the peak, whatever the kernel     *)
(* does between the two reads: while the current value is read before the  *)
(* peak, the peak covers what was sent (metrics.go:28-56, 302-328).        *)
THEOREM PeakIsCovered == ReadingsSpec => []PeakCoversCurrent
<1>1. ReadingsInv => PeakCoversCurrent
  BY DEF ReadingsInv
<1> QED
  BY <1>1, ReadingsInvariant, PTL

(* Every value exposed is one that its file showed during the scrape, and  *)
(* -1 stands for no limit only (cgroup.go:62-129, iostat.go:24-113,        *)
(* procio.go:22-71).                                                       *)
THEOREM ValuesWereHeld == ReadingsSpec => []HeldDuringScrape
<1>1. ReadingsInv => HeldDuringScrape
  BY DEF ReadingsInv
<1> QED
  BY <1>1, ReadingsInvariant, PTL

(* Quota and period, the counters of a device, and those of a process are  *)
(* each from one content of their file (collector.go:103-143, 218-243).    *)
THEOREM ValuesGoTogether == ReadingsSpec => []ReadTogether
<1>1. ReadingsInv => ReadTogether
  BY DEF ReadingsInv
<1> QED
  BY <1>1, ReadingsInvariant, PTL

(* A file that cannot be read costs no other metric                        *)
(* (collector.go:81-147, 212-246).                                         *)
THEOREM PresentMetricsAreSent == ReadingsSpec => []PresentIsSent
<1>1. ReadingsInv => PresentIsSent
  <2> SUFFICES ASSUME ReadingsInv, phase = "gather" PROVE PresentIsSent
    BY DEF PresentIsSent
  <2>1. ASSUME ~missed, cgroup
        PROVE  /\ \A i \in DOMAIN cgroupMetrics :
                    cgroupMetrics[i].cgroupFile \in files \ absent =>
                      Value(cgroupMetrics[i].desc.name) # {}
               /\ "cpu.max" \in files \ absent => Cardinality(Of("cpu.max")) = 2
    BY <2>1 DEF ReadingsInv, SentSoFar
  <2>2. \A c \in held : c[1] = "cpu.max" => "cpu.max" \in files \ absent
    BY DEF ReadingsInv, HeldSoFar
  <2>3. process /\ "io" \in files => Cardinality(Of("io")) = 6
    BY DEF ReadingsInv, SentSoFar
  <2> QED
    BY <2>1, <2>2, <2>3 DEF PresentIsSent
<1> QED
  BY <1>1, ReadingsInvariant, PTL

(* Of the values of a cgroup and of a process no series is sent twice, and *)
(* each has as many labels as its metric wants: the table and the lines of *)
(* io.stat give each of their values a series of its own (metrics.go:9-12, *)
(* 28-355, 500-566, collector.go:88-147, 236-243).                         *)
THEOREM RegistryIsContent == ReadingsSpec => []RegistryAccepts
<1>1. ReadingsInv => RegistryAccepts
  BY DEF ReadingsInv
<1> QED
  BY <1>1, ReadingsInvariant, PTL
=============================================================================
