----------------------------- MODULE Mountpoints -----------------------------
(***************************************************************************)
(* collectDiskMetrics (collector.go) and ParseMountInfo (mountinfo.go):    *)
(* the configured mountpoints are looked up in the mountinfo file of the   *)
(* container's first process, and what is found is measured by statfs      *)
(* under its path.  Labels and values are two reads, and file systems are  *)
(* mounted over each other and unmounted meanwhile.                        *)
(*                                                                         *)
(* No mountpoint but the root contains another one, and the kernel lists   *)
(* the mounts in the order in which they were made.                        *)
(***************************************************************************)
EXTENDS Naturals, Sequences, FiniteSetsExt

CONSTANTS
  Points,        \* directories file systems are mounted on
  Root,          \* the one that is always mounted
  Written,       \* how mountinfo writes a directory: with a blank in it,
                 \* it is written with the blank as \040, and nobody
                 \* has a directory whose name is another one so written
  FileSystems,   \* the type and the source of a file system
  Configured,    \* the container's mountpoint paths, in their order
  MaxMounts,     \* bound on the number of mounts
  MaxRemounts    \* bound on the changes during a scrape

ASSUME MountpointsAssumption ==
  /\ Root \in Points
  /\ DOMAIN Written = Points
  /\ \A p, q \in Points : Written[p] = Written[q] => p = q
  /\ \A p \in Points : Written[p] # "-" /\ (Written[p] \in Points => Written[p] = p)
  /\ FileSystems \subseteq STRING \X STRING
  /\ Configured \in Seq(STRING)
  /\ MaxMounts \in Nat
  /\ MaxRemounts \in Nat

Mount == [point : Points, fs : FileSystems]

VARIABLES
  mounts,    \* the mount namespace, later mounts on top of earlier ones
  process,   \* the first process exists
  remounted, \* history: mountpoints something was done to in this scrape
  remounts,  \* how often
  mpc,       \* control point of the collection
  mountMap,  \* what was found in mountinfo, by mountpoint
  next,      \* the configured path to look at next
  failed,    \* history: configured paths that could not be measured
  sent       \* the metrics: labels and the file system that was measured

namespaceVars == <<mounts, process, remounted, remounts>>
diskVars == <<mpc, mountMap, next, failed, sent>>
mvars == <<namespaceVars, diskVars>>

(* The mount a path leads to: the last one on the mountpoint, if there is  *)
(* one, else the directory belongs to the file system below it.            *)
On(p) == {i \in DOMAIN mounts : mounts[i].point = p}

IsMounted(p) == On(p) # {}

Topmost(p) ==
  LET at == IF IsMounted(p) THEN On(p) ELSE On(Root)
  IN  mounts[Max(at)].fs

MountpointsTypeOK ==
  /\ mounts \in Seq(Mount)
  /\ process \in BOOLEAN
  /\ remounted \subseteq Points
  /\ remounts \in 0..MaxRemounts
  /\ mpc \in {"idle", "statfs", "done"}
  /\ DOMAIN mountMap \subseteq {Written[p] : p \in Points}
  /\ next \in 1..(Len(Configured) + 1)
  /\ failed \subseteq {Configured[i] : i \in DOMAIN Configured}
  /\ \A s \in sent : s.point \in Points /\ {s.label, s.measured} \subseteq FileSystems

(* Some file systems on top of the root file system.                       *)
MountpointsInit ==
  /\ \E n \in 0..(MaxMounts - 1), fs \in FileSystems :
       \E upper \in [1..n -> {m \in Mount : m.point # Root}] :
         mounts = <<[point |-> Root, fs |-> fs]>> \o upper
  /\ process = TRUE
  /\ remounted = {}
  /\ remounts = 0
  /\ mpc = "idle"
  /\ mountMap = [t \in {} |-> 0]
  /\ next = 1
  /\ failed = {}
  /\ sent = {}

-----------------------------------------------------------------------------
(* The container.                                                          *)
Touch(p) ==
  /\ process
  /\ remounts < MaxRemounts
  /\ remounts' = remounts + 1
  /\ remounted' = remounted \cup {p}
  /\ UNCHANGED <<process, diskVars>>

MountOn(p, fs) ==
  /\ p # Root
  /\ Len(mounts) < MaxMounts
  /\ mounts' = Append(mounts, [point |-> p, fs |-> fs])
  /\ Touch(p)

(* What is on top is unmounted, the root file system never.                *)
Unmount(p) ==
  /\ IsMounted(p)
  /\ p # Root
  /\ LET top == Max(On(p))
     IN  mounts' = SubSeq(mounts, 1, top - 1) \o SubSeq(mounts, top + 1, Len(mounts))
  /\ Touch(p)

ExitProcess ==
  /\ process
  /\ process' = FALSE
  /\ UNCHANGED <<mounts, remounted, remounts, diskVars>>

ContainerStep ==
  \/ \E p \in Points : (\E fs \in FileSystems : MountOn(p, fs)) \/ Unmount(p)
  \/ ExitProcess

-----------------------------------------------------------------------------
(***************************************************************************)
(* A line of mountinfo in words: mount ID, parent, device, root,           *)
(* mountpoint, options, any number of optional fields, a dash, type,       *)
(* source and options of the file system.  Only mounts that propagate have *)
(* an optional field; here, those of the root file system.                 *)
(***************************************************************************)
Line(m) ==
  <<"id", "parent", "major:minor", "/", Written[m.point], "rw">> \o
  (IF m.point = Root THEN <<"shared:1">> ELSE <<>>) \o
  <<"-", m.fs[1], m.fs[2], "rw">>

(* Type and source come after the first dash; a line without is ignored.   *)
ParseLine(fields) ==
  LET dashes == {i \in DOMAIN fields : fields[i] = "-"}
      sep == Min(dashes)
  IN  IF dashes = {} \/ Len(fields) < 5 THEN {}
      ELSE IF sep + 2 > Len(fields) THEN {}
      ELSE {[MountPoint |-> fields[5], FsType |-> fields[sep + 1],
             Source |-> fields[sep + 2]]}

ParseMountInfo ==
  UNION {{[at |-> i, entry |-> e] : e \in ParseLine(Line(mounts[i]))} : i \in DOMAIN mounts}

(* Mutant: the first entry of a mountpoint is kept.                        *)
IndexMounts_FirstWins(entries) ==
  [t \in {e.entry.MountPoint : e \in entries} |->
     LET same == {e \in entries : e.entry.MountPoint = t}
     IN  (CHOOSE e \in same : \A f \in same : e.at <= f.at).entry]

(* The map is filled in the order of the file: the last entry stays.       *)
IndexMounts(entries) ==
  [t \in {e.entry.MountPoint : e \in entries} |->
     LET same == {e \in entries : e.entry.MountPoint = t}
     IN  (CHOOSE e \in same : \A f \in same : f.at <= e.at).entry]

ReadMountInfo ==
  /\ mpc \in {"idle", "done"}
  /\ process
  /\ mountMap' = IndexMounts(ParseMountInfo)
  /\ mpc' = "statfs"
  /\ next' = 1
  /\ failed' = {}
  /\ sent' = {}
  /\ remounted' = {}
  /\ remounts' = 0
  /\ UNCHANGED <<mounts, process>>

(* mountinfo cannot be opened or read, for want of the process or for any  *)
(* other reason: nothing is sent.                                          *)
ReadMountInfoFails ==
  /\ mpc \in {"idle", "done"}
  /\ mpc' = "done"
  /\ failed' = {Configured[i] : i \in DOMAIN Configured}
  /\ sent' = {}
  /\ UNCHANGED <<namespaceVars, mountMap, next>>

(* The configured path is looked up as it is written in mountinfo.         *)
Lookup ==
  /\ mpc = "statfs"
  /\ next <= Len(Configured)
  /\ Configured[next] \notin DOMAIN mountMap
  /\ next' = next + 1
  /\ UNCHANGED <<namespaceVars, mpc, mountMap, failed, sent>>

(* statfs measures what the path leads to by now.                          *)
Statfs ==
  /\ mpc = "statfs"
  /\ next <= Len(Configured)
  /\ Configured[next] \in DOMAIN mountMap
  /\ process
  /\ LET found == mountMap[Configured[next]]
     IN  \E p \in Points :
           /\ p = found.MountPoint
           /\ sent' = sent \cup {[point |-> p, label |-> <<found.FsType, found.Source>>,
                                  measured |-> Topmost(p)]}
  /\ next' = next + 1
  /\ UNCHANGED <<namespaceVars, mpc, mountMap, failed>>

(* Mutant: an error ends the collection.                                   *)
StatfsFails_Return ==
  /\ mpc = "statfs"
  /\ next <= Len(Configured)
  /\ Configured[next] \in DOMAIN mountMap
  /\ failed' = failed \cup {Configured[next]}
  /\ mpc' = "done"
  /\ UNCHANGED <<namespaceVars, next, mountMap, sent>>

(* The process is gone, or the file system that is mounted does not answer *)
(* or is denied: the path is passed over, whatever the error.              *)
StatfsFails ==
  /\ mpc = "statfs"
  /\ next <= Len(Configured)
  /\ Configured[next] \in DOMAIN mountMap
  /\ failed' = failed \cup {Configured[next]}
  /\ next' = next + 1
  /\ UNCHANGED <<namespaceVars, mpc, mountMap, sent>>

DiskDone ==
  /\ mpc = "statfs"
  /\ next > Len(Configured)
  /\ mpc' = "done"
  /\ UNCHANGED <<namespaceVars, mountMap, next, failed, sent>>

CollectStep ==
  \/ ReadMountInfo \/ ReadMountInfoFails
  \/ Lookup \/ Statfs \/ StatfsFails \/ DiskDone

MountpointsNext == ContainerStep \/ CollectStep

MountpointsSpec == MountpointsInit /\ [][MountpointsNext]_mvars

-----------------------------------------------------------------------------
(***************************************************************************)
(* Properties.                                                             *)
(***************************************************************************)

(* Type and device among the labels are those of the file system that was  *)
(* measured, however many are mounted over each other, unless one was      *)
(* mounted or unmounted there during the scrape (collector.go:268-300).    *)
LabelsOfMeasured ==
  \A s \in sent : s.point \notin remounted => s.label = s.measured

Exposed(p) == \E s \in sent : s.point = p

(* Each configured path that is written plainly and was mounted all along  *)
(* is exposed, unless it is its own measurement that failed, or the read   *)
(* of mountinfo: one that is not found, or whose statfs fails, costs no    *)
(* other (collector.go:255-288).                                           *)
PlainMountpointsExposed ==
  mpc = "done" =>
    \A i \in DOMAIN Configured : \A p \in Points :
      p = Configured[i] /\ Written[p] = p /\ IsMounted(p) /\ p \notin remounted
        => Exposed(p) \/ p \in failed

(* "filesystem space usage for each mountpoint visible to the container"   *)
(* (METRICS.md:142), if configured: also those with a blank in their name. *)
MountpointsExposed ==
  mpc = "done" =>
    \A i \in DOMAIN Configured : \A p \in Points :
      p = Configured[i] /\ IsMounted(p) /\ p \notin remounted
        => Exposed(p) \/ p \in failed

-----------------------------------------------------------------------------
(***************************************************************************)
(* Why the labels are right.                                               *)
(***************************************************************************)
Entry(m) == [MountPoint |-> Written[m.point], FsType |-> m.fs[1], Source |-> m.fs[2]]

(* What was found under a mountpoint is what is on top of it, as long as   *)
(* it is left alone.                                                       *)
MapMatches ==
  /\ \A t \in DOMAIN mountMap : \E m \in Mount :
       t = Written[m.point] /\ mountMap[t] = Entry(m)
  /\ \A p \in Points : p \notin remounted =>
       /\ IsMounted(p) <=> Written[p] \in DOMAIN mountMap
       /\ IsMounted(p) => mountMap[Written[p]] = Entry(mounts[Max(On(p))])

(* The paths before next have been looked at.                              *)
SeenExposed ==
  \A i \in DOMAIN Configured : \A p \in Points :
    (mpc = "statfs" => i < next) /\ p = Configured[i] /\ Written[p] = p
      /\ IsMounted(p) /\ p \notin remounted => Exposed(p) \/ p \in failed

MountpointsInv ==
  /\ MountpointsTypeOK
  /\ IsMounted(Root)
  /\ LabelsOfMeasured
  /\ mpc = "statfs" => MapMatches
  /\ mpc # "idle" => SeenExposed
=============================================================================
