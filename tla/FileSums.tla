------------------------------ MODULE FileSums ------------------------------
(***************************************************************************)
(* collectFileMetrics (collector.go): the sizes of the files a pattern     *)
(* matches are added up, one lstat after the other, while the container    *)
(* goes on writing, creating, renaming and removing them.                  *)
(*                                                                         *)
(* All names here match the pattern and are in one directory.              *)
(***************************************************************************)
EXTENDS Naturals, FiniteSets, Functions

CONSTANTS
  FileNames,   \* numbered in the order in which Glob returns them
  Files,       \* the files themselves (inodes)
  Directories, \* those which are directories
  None,        \* no file of that name
  MaxSize,     \* bound on the size of a file
  MaxChanges   \* bound on the changes of the container

ASSUME FileSumsAssumption ==
  /\ FileNames \subseteq Nat
  /\ IsFiniteSet(FileNames)
  /\ Directories \subseteq Files
  /\ None \notin Files
  /\ MaxSize \in Nat
  /\ MaxChanges \in Nat

VARIABLES
  entry,      \* which file has a name
  size,       \* the size of a file
  changes,    \* number of changes since Glob
  fpc,        \* control point of the collection
  matches,    \* names still to be examined
  totalSize,
  summed,     \* history: which files were added, under which names
  low, high   \* history: least and greatest size under a name since Glob

containerVars == <<entry, size, changes>>
sumVars == <<fpc, matches, totalSize, summed>>
fvars == <<containerVars, sumVars, low, high>>

(* What a name adds to the sum: directories and missing files nothing.     *)
Adds(n) == IF entry[n] \in Files \ Directories THEN size[entry[n]] ELSE 0

FileSumsTypeOK ==
  /\ entry \in [FileNames -> Files \cup {None}]
  /\ size \in [Files -> 0..MaxSize]
  /\ changes \in 0..MaxChanges
  /\ fpc \in {"idle", "lstat"}
  /\ matches \subseteq FileNames
  /\ totalSize \in Nat
  /\ summed \subseteq FileNames \X Files
  /\ low \in [FileNames -> 0..MaxSize]
  /\ high \in [FileNames -> 0..MaxSize]

(* A file has one name.                                                    *)
Entries ==
  {e \in [FileNames -> Files \cup {None}] :
     \A m, n \in FileNames : m # n => e[m] = None \/ e[m] # e[n]}

FileSumsInit ==
  /\ entry \in Entries
  /\ size \in [Files -> 0..MaxSize]
  /\ changes = 0
  /\ fpc = "idle"
  /\ matches = {}
  /\ totalSize = 0
  /\ summed = {}
  /\ low = [n \in FileNames |-> 0]
  /\ high = [n \in FileNames |-> 0]

-----------------------------------------------------------------------------
(* The container.                                                          *)
Changed ==
  /\ changes < MaxChanges
  /\ changes' = changes + 1
  /\ low' = [n \in FileNames |-> IF Adds(n)' < low[n] THEN Adds(n)' ELSE low[n]]
  /\ high' = [n \in FileNames |-> IF Adds(n)' > high[n] THEN Adds(n)' ELSE high[n]]
  /\ UNCHANGED sumVars

(* A file is written to or truncated.                                      *)
Resize(f, s) ==
  /\ size[f] # s
  /\ size' = [size EXCEPT ![f] = s]
  /\ UNCHANGED entry
  /\ Changed

(* rename(2), as logs are rotated: what had the new name is gone.          *)
Rename(old, new) ==
  /\ old # new
  /\ entry[old] # None
  /\ entry' = [entry EXCEPT ![old] = None, ![new] = entry[old]]
  /\ UNCHANGED size
  /\ Changed

Create(n, f) ==
  /\ entry[n] = None
  /\ \A m \in FileNames : entry[m] # f
  /\ entry' = [entry EXCEPT ![n] = f]
  /\ size' = [size EXCEPT ![f] = 0]
  /\ Changed

Unlink(n) ==
  /\ entry[n] # None
  /\ entry' = [entry EXCEPT ![n] = None]
  /\ UNCHANGED size
  /\ Changed

ContainerStep ==
  \/ \E f \in Files, s \in 0..MaxSize : Resize(f, s)
  \/ \E m, n \in FileNames : Rename(m, n)
  \/ \E n \in FileNames, f \in Files : Create(n, f)
  \/ \E n \in FileNames : Unlink(n)

-----------------------------------------------------------------------------
(* The names that match, directories among them.                           *)
Glob ==
  /\ fpc = "idle"
  /\ fpc' = "lstat"
  /\ matches' = {n \in FileNames : entry[n] # None}
  /\ totalSize' = 0
  /\ summed' = {}
  /\ changes' = 0
  /\ low' = [n \in FileNames |-> Adds(n)]
  /\ high' = [n \in FileNames |-> Adds(n)]
  /\ UNCHANGED <<entry, size>>

(* Mutant: a name that is gone ends the loop.                              *)
Lstat_Break ==
  /\ fpc = "lstat"
  /\ \E n \in matches :
       /\ \A m \in matches : n <= m
       /\ matches' = IF entry[n] = None THEN {} ELSE matches \ {n}
       /\ totalSize' = totalSize + Adds(n)
       /\ summed' = IF entry[n] \in Files \ Directories
                     THEN summed \cup {<<n, entry[n]>>} ELSE summed
  /\ UNCHANGED <<containerVars, fpc, low, high>>

(* A name that is gone, and a directory, are passed over.                  *)
Lstat ==
  /\ fpc = "lstat"
  /\ \E n \in matches :
       /\ \A m \in matches : n <= m
       /\ matches' = matches \ {n}
       /\ totalSize' = totalSize + Adds(n)
       /\ summed' = IF entry[n] \in Files \ Directories
                     THEN summed \cup {<<n, entry[n]>>} ELSE summed
  /\ UNCHANGED <<containerVars, fpc, low, high>>

(* The sum is sent.                                                        *)
SendSum ==
  /\ fpc = "lstat"
  /\ matches = {}
  /\ fpc' = "idle"
  /\ UNCHANGED <<containerVars, matches, totalSize, summed, low, high>>

CollectStep == Glob \/ Lstat \/ SendSum

FileSumsNext == ContainerStep \/ CollectStep

FileSumsSpec == FileSumsInit /\ [][FileSumsNext]_fvars

-----------------------------------------------------------------------------
(***************************************************************************)
(* Properties.                                                             *)
(***************************************************************************)
Total(f) == SumFunctionOnSet(f, FileNames)

(* Whatever is written, created, renamed or removed meanwhile, the sum     *)
(* sent lies between the sums of the least and of the greatest size there  *)
(* was under each name since the pattern was matched; so files that are    *)
(* left alone are added exactly, and directories not (collector.go:        *)
(* 312-337).                                                               *)
SumWithinBounds ==
  fpc = "lstat" /\ matches = {} => Total(low) <= totalSize /\ totalSize <= Total(high)

(* "the metric value is the sum of all matching files" (METRICS.md): no    *)
(* file is added twice.                                                    *)
NoFileTwice ==
  \A a, b \in summed : a[2] = b[2] => a = b

-----------------------------------------------------------------------------
(***************************************************************************)
(* Why: what was added so far is within the bounds of the names examined.  *)
(* Those not examined either match still or have been without a file.      *)
(***************************************************************************)
FileSumsInv ==
  /\ FileSumsTypeOK
  /\ fpc = "lstat" =>
       /\ \A n \in FileNames : low[n] <= Adds(n) /\ Adds(n) <= high[n]
       /\ SumFunctionOnSet(low, FileNames \ matches) <= totalSize
       /\ totalSize <= SumFunctionOnSet(high, FileNames \ matches)
=============================================================================
