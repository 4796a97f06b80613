------------------------------- MODULE Smaps -------------------------------
(***************************************************************************)
(* ParseSmaps (smaps.go): the memory of one process, summed by path, from  *)
(* a file the kernel writes mapping by mapping while it is read.           *)
(*                                                                         *)
(* The process goes on mapping and unmapping meanwhile.  All the kernel    *)
(* promises is that the addresses it writes only go up, and that what is   *)
(* mapped all along is written.  A mapping takes one address and is the    *)
(* unit of size; mappings are not split or merged.                         *)
(* When the process executes another program or exits, its old memory is   *)
(* gone and the file ends; once its parent has reaped it, a read fails.    *)
(***************************************************************************)
EXTENDS Naturals, FiniteSets

CONSTANTS
  MaxAddress, \* the address space has addresses 1..MaxAddress
  Names,      \* what smaps writes behind a mapping: a file, [heap], ...
  NoName,     \* ... nothing, behind memory mapped without a file
  Anon,       \* the path "[anon]"
  Permissions

ASSUME SmapsAssumption ==
  /\ MaxAddress \in Nat
  /\ NoName \notin Names
  /\ Anon \notin Names

Addresses == 1..MaxAddress

Mappings == [name : Names \cup {NoName}, perms : Permissions]
Nothing == [name |-> NoName]

Paths == Names \cup {Anon}

(* The path of a mapping without a name is "[anon]".                       *)
Path(m) == IF m.name = NoName THEN Anon ELSE m.name

VARIABLES
  process,           \* "runs", "zombie" or "reaped"
  memory,            \* what the process has mapped at each address
  opened,            \* the memory of the open file is still the process's
  kept,              \* history: mappings nobody touched since Open
  had,               \* history: mappings there were at any time since Open
  spc,               \* control point of ParseSmaps
  offset,            \* the address the file has been read up to
  aggregatedSmaps,   \* the entries, by path
  counted            \* history: mappings read

fileVars == <<spc, offset, aggregatedSmaps, counted>>
smapsVars == <<process, memory, opened, kept, had, spc, offset,
               aggregatedSmaps, counted>>

MappedPaths(mem) ==
  {<<a, Path(mem[a])>> : a \in {b \in Addresses : mem[b] # Nothing}}

(* Every counter is summed alike; two of them stand for the twenty.        *)
SmapsMapping == [Perms : Permissions, Size : Nat, KernelPageSize : Nat]

SmapsTypeOK ==
  /\ process \in {"runs", "zombie", "reaped"}
  /\ memory \in [Addresses -> Mappings \cup {Nothing}]
  /\ opened \in BOOLEAN
  /\ kept \subseteq Addresses \X Paths
  /\ had \subseteq Addresses \X Paths
  /\ spc \in {"idle", "read", "parsed", "failed"}
  /\ offset \in 0..MaxAddress
  /\ DOMAIN aggregatedSmaps \subseteq Paths
  /\ aggregatedSmaps \in [DOMAIN aggregatedSmaps -> SmapsMapping]
  /\ counted \subseteq Addresses \X Paths

SmapsInit ==
  /\ process = "runs"
  /\ memory \in [Addresses -> Mappings \cup {Nothing}]
  /\ opened = FALSE
  /\ kept = {}
  /\ had = {}
  /\ spc = "idle"
  /\ offset = 0
  /\ aggregatedSmaps = [p \in {} |-> Nothing]
  /\ counted = {}

-----------------------------------------------------------------------------
(* The process: mmap, munmap and mprotect.                                 *)
Remap(a, m) ==
  /\ process = "runs"
  /\ memory[a] # m
  /\ memory' = [memory EXCEPT ![a] = m]
  /\ kept' = {k \in kept : k[1] # a}
  /\ had' = had \cup MappedPaths(memory')
  /\ UNCHANGED <<process, opened, fileVars>>

(* execve: other memory, and the file opened before ends.                  *)
Execve ==
  /\ process = "runs"
  /\ memory' \in [Addresses -> Mappings \cup {Nothing}]
  /\ opened' = FALSE
  /\ UNCHANGED <<process, kept, had, fileVars>>

ExitProcess ==
  /\ process = "runs"
  /\ process' = "zombie"
  /\ opened' = FALSE
  /\ UNCHANGED <<memory, kept, had, fileVars>>

Reap ==
  /\ process = "zombie"
  /\ process' = "reaped"
  /\ UNCHANGED <<memory, opened, kept, had, fileVars>>

-----------------------------------------------------------------------------
(* collectSmapsMetrics opens the file of a process and hands it to         *)
(* ParseSmaps, which starts with an empty map.                             *)
Open ==
  /\ spc # "read"
  /\ process # "reaped"
  /\ spc' = "read"
  /\ opened' = (process = "runs")
  /\ kept' = MappedPaths(memory)
  /\ had' = MappedPaths(memory)
  /\ offset' = 0
  /\ aggregatedSmaps' = [p \in {} |-> Nothing]
  /\ counted' = {}
  /\ UNCHANGED <<process, memory>>

OpenFails ==
  /\ spc # "read"
  /\ process = "reaped"
  /\ spc' = "failed"
  /\ UNCHANGED <<process, memory, opened, kept, had, offset,
                 aggregatedSmaps, counted>>

(* The next mapping of the file, if there is one.                          *)
NextMapping ==
  IF opened
  THEN {a \in Addresses :
          /\ a > offset /\ memory[a] # Nothing
          /\ \A b \in Addresses : b > offset /\ b < a => memory[b] = Nothing}
  ELSE {}

(* Mutant: a header makes a new entry even for a path already seen.        *)
Entry_AlwaysNew(m) == [Perms |-> m.perms, Size |-> 0, KernelPageSize |-> 0]

(* The entry of a path: the one there is, or a new one with all counters   *)
(* at zero.                                                                *)
Entry(m) ==
  IF Path(m) \in DOMAIN aggregatedSmaps
  THEN aggregatedSmaps[Path(m)]
  ELSE [Perms |-> m.perms, Size |-> 0, KernelPageSize |-> 0]

(* The lines of a mapping: its header selects the entry, its counters are  *)
(* added to that entry.                                                    *)
Add(m) ==
  LET e == Entry(m)
  IN  [p \in DOMAIN aggregatedSmaps \cup {Path(m)} |->
         IF p = Path(m)
         THEN [Perms |-> e.Perms, Size |-> e.Size + 1,
               KernelPageSize |-> e.KernelPageSize + 1]
         ELSE aggregatedSmaps[p]]

ReadMapping ==
  /\ spc = "read"
  /\ process # "reaped"
  /\ \E a \in NextMapping :
       /\ offset' = a
       /\ aggregatedSmaps' = Add(memory[a])
       /\ counted' = counted \cup {<<a, Path(memory[a])>>}
  /\ UNCHANGED <<process, memory, opened, kept, had, spc>>

(* Memory that is gone looks like the end of the file.                     *)
EndOfFile ==
  /\ spc = "read"
  /\ process # "reaped"
  /\ NextMapping = {}
  /\ spc' = "parsed"
  /\ offset' = MaxAddress
  /\ UNCHANGED <<process, memory, opened, kept, had, aggregatedSmaps, counted>>

(* An error drops what was read.                                           *)
ScanError ==
  /\ spc = "read"
  /\ process = "reaped"
  /\ spc' = "failed"
  /\ UNCHANGED <<process, memory, opened, kept, had, offset,
                 aggregatedSmaps, counted>>

-----------------------------------------------------------------------------
ProcessStep ==
  \/ \E a \in Addresses, m \in Mappings \cup {Nothing} : Remap(a, m)
  \/ Execve \/ ExitProcess \/ Reap

ParseStep == ReadMapping \/ EndOfFile \/ ScanError

SmapsNext == ProcessStep \/ Open \/ OpenFails \/ ParseStep

SmapsSpec == SmapsInit /\ [][SmapsNext]_smapsVars

-----------------------------------------------------------------------------
(***************************************************************************)
(* Properties.                                                             *)
(***************************************************************************)
OfPath(mappings, p) == {c \in mappings : c[2] = p}

SizeOf(p) ==
  IF p \in DOMAIN aggregatedSmaps THEN aggregatedSmaps[p].Size ELSE 0

(* However the process maps and unmaps while its file is read, the size    *)
(* exposed for a path is no more than that of the mappings that had the    *)
(* path at some time during the read, and, unless the process executed     *)
(* another program or exited, no less than that of the ones nobody touched *)
(* (smaps.go:58-164).                                                      *)
SumsBetween ==
  spc = "parsed" =>
    \A p \in Paths :
      /\ SizeOf(p) <= Cardinality(OfPath(had, p))
      /\ opened => Cardinality(OfPath(kept, p)) <= SizeOf(p)

(* "Aggregation is performed by (perms, path)" (smaps.go:14): an entry     *)
(* sums mappings of its own permissions.  The key is the path alone.       *)
PermsApart ==
  spc = "parsed" /\ opened =>
    \A k \in kept : memory[k[1]].perms = aggregatedSmaps[k[2]].Perms

(* "Kernel page size used for the mapping in bytes" (METRICS.md:118).      *)
(* With two mappings of a path it is the sum of their page sizes.          *)
KernelPageSizeOfMapping ==
  spc = "parsed" =>
    \A p \in DOMAIN aggregatedSmaps : aggregatedSmaps[p].KernelPageSize = 1

-----------------------------------------------------------------------------
(***************************************************************************)
(* Why: an entry holds the number of mappings read with its path; these    *)
(* were there when they were read, and include every mapping up to the     *)
(* offset that nobody touched.                                             *)
(***************************************************************************)
EntriesCount ==
  /\ \A c \in counted : c[1] <= offset /\ c[2] \in DOMAIN aggregatedSmaps
  /\ \A p \in DOMAIN aggregatedSmaps :
       aggregatedSmaps[p].Size = Cardinality(OfPath(counted, p))

UntouchedCounted ==
  opened /\ spc \in {"read", "parsed"} =>
    /\ kept \subseteq MappedPaths(memory)
    /\ \A k \in kept : k[1] <= offset => k \in counted

CountedHad ==
  /\ counted \subseteq had
  /\ opened => MappedPaths(memory) \subseteq had

SmapsInv ==
  /\ SmapsTypeOK
  /\ spc = "parsed" => offset = MaxAddress
  /\ EntriesCount
  /\ UntouchedCounted
  /\ CountedHad
=============================================================================
