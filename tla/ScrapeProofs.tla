---------------------------- MODULE ScrapeProofs ----------------------------
(***************************************************************************)
(* Proofs about Scrape, for every node and every configuration.            *)
(***************************************************************************)
EXTENDS Scrape, DiscoveryProofs, WellFoundedInduction

-----------------------------------------------------------------------------
(***************************************************************************)
(* A scrape is a discovery: to the variables of the discovery, a step of   *)
(* Collect is a step of the discovery or none.                             *)
(***************************************************************************)
LEMMA ReadKeepsDiscovery ==
  ASSUME Read \/ ReadFiles \/ Restart
  PROVE  UNCHANGED dvars
<1> USE DEF Goto, Panic
<1>1. CASE DiscoveryFailed \/ ContainersDiscovered \/ FindCgroup \/ FindCgroupFails
  BY <1>1 DEF DiscoveryFailed, ContainersDiscovered, FindCgroup, FindCgroupFails
<1>2. ASSUME NEW c \in Containers, NextContainer(c) PROVE UNCHANGED dvars
  BY <1>2 DEF NextContainer
<1>3. ASSUME NEW m \in CgroupMetrics, readCgroupMetric(m) PROVE UNCHANGED dvars
  BY <1>3 DEF readCgroupMetric
<1>4. CASE ReadProcess("smaps") \/ ReadProcess("io")
  BY <1>4 DEF ReadProcess
<1>5. CASE CgroupDone \/ SmapsDone \/ ProcIoDone \/ DiskDone \/ FilesDone
  BY <1>5 DEF CgroupDone, SmapsDone, ProcIoDone, DiskDone, FilesDone
<1>6. CASE ReadMountInfo \/ Statfs \/ Glob \/ Lstat \/ CollectReturns \/ Respond
  BY <1>6 DEF ReadMountInfo, Statfs, Glob, Lstat, CollectReturns, Respond
<1>7. CASE ReadProcessPanics \/ StatfsPanics \/ Restart
  BY <1>7 DEF ReadProcessPanics, StatfsPanics, Restart
<1> QED
  BY <1>1, <1>2, <1>3, <1>4, <1>5, <1>6, <1>7 DEF Read, ReadFiles

LEMMA ScrapeStepDiscovers ==
  ASSUME [ScrapeNext]_svars
  PROVE  [DiscoveryNext]_dvars
<1>1. CASE NodeStep \/ Request \/ Discover
  BY <1>1 DEF NodeStep, Request, Discover, DiscoveryNext
<1>2. CASE Read \/ ReadFiles \/ Restart
  BY <1>2, ReadKeepsDiscovery
<1>3. CASE UNCHANGED svars
  BY <1>3 DEF svars
<1> QED
  BY <1>1, <1>2, <1>3 DEF ScrapeNext

(* Whatever holds of a discovery holds of the one a request makes: the     *)
(* collector never disturbs what it was given.                             *)
THEOREM ScrapeDiscovers == ScrapeSpec => DiscoverySpec
<1>1. ScrapeInit => DiscoveryInit
  BY DEF ScrapeInit
<1>2. [ScrapeNext]_svars => [DiscoveryNext]_dvars
  BY ScrapeStepDiscovers
<1> QED
  BY <1>1, <1>2, PTL DEF ScrapeSpec, DiscoverySpec

-----------------------------------------------------------------------------
(***************************************************************************)
(* Type correctness.                                                       *)
(***************************************************************************)
LEMMA PathsTyped ==
  ASSUME NEW l
  PROVE  /\ \A place \in MountpointPaths(l) : MountpointAt(place) \in Paths
         /\ \A place \in FileMetricPaths(l) : FileAt(place) \in Paths
<1>1. \A i \in MatchingFilters(l) :
        /\ Filters[i].mountpoints \in Seq(Paths)
        /\ Filters[i].files \in Seq(Paths)
  <2>1. ASSUME NEW i \in DOMAIN Filters PROVE Filters[i] \in ContainerFilter
    BY FiltersAssumption DEF FiltersAssumption
  <2> QED
    BY <2>1 DEF MatchingFilters, ContainerFilter
<1>2. ASSUME NEW place \in MountpointPaths(l) PROVE MountpointAt(place) \in Paths
  <2>1. PICK i \in MatchingFilters(l) : place \in {i} \X DOMAIN Filters[i].mountpoints
    BY DEF MountpointPaths
  <2>2. place[1] = i /\ place[2] \in DOMAIN Filters[i].mountpoints
    BY <2>1
  <2> QED
    BY <1>1, <2>2 DEF MountpointAt
<1>3. ASSUME NEW place \in FileMetricPaths(l) PROVE FileAt(place) \in Paths
  <2>1. PICK i \in MatchingFilters(l) : place \in {i} \X DOMAIN Filters[i].files
    BY DEF FileMetricPaths
  <2>2. place[1] = i /\ place[2] \in DOMAIN Filters[i].files
    BY <2>1
  <2> QED
    BY <1>1, <2>2 DEF FileAt
<1> QED
  BY <1>2, <1>3

LEMMA SeriesTyped ==
  ASSUME ctr \in Containers, NEW item
  PROVE  /\ item \in CgroupMetrics =>
              [family |-> "cgroup", label |-> Label(ctr), item |-> item] \in Series
         /\ item \in ProcessInfo => \A family \in {"smaps", "io"} :
              [family |-> family, label |-> Label(ctr), item |-> item] \in Series
         /\ item \in Paths => \A family \in {"mountpoint", "file"} :
              [family |-> family, label |-> Label(ctr), item |-> item] \in Series
<1>1. Label(ctr) \in ContainerLabels
  BY DEF ContainerLabels
<1> QED
  BY <1>1 DEF Series

SkippedTyped ==
  skipped \subseteq
    (Families \X found) \cup (Families \X found \X (CgroupMetrics \cup ProcessInfo \cup Paths))

RegistryTyped == (\A s \in samples : s \in Sample) /\ gatherErr \in BOOLEAN

(* What sending does to the registry's state, ...                          *)
LEMMA SendTyped ==
  ASSUME RegistryTyped, SkippedTyped, UNCHANGED found,
         NEW family, NEW item, NEW source \in Owners \cup Process \cup {Nothing},
         [family |-> family, label |-> Label(ctr), item |-> item] \in Series,
         Send(family, item, source)
  PROVE  RegistryTyped' /\ SkippedTyped'
<1> DEFINE series == [family |-> family, label |-> Label(ctr), item |-> item]
<1>1. [series |-> series, source |-> source] \in Sample
  BY DEF Sample
<1>2. RegistryTyped'
  BY <1>1 DEF Send, RegistryTyped
<1> QED
  BY <1>2 DEF Send, SkippedTyped

(* ... and what passing over does: nothing but for the record of it.       *)
Quiet == UNCHANGED <<samples, gatherErr>> /\ skipped \subseteq skipped'

LEMMA QuietSteps ==
  /\ SendNothing => Quiet /\ UNCHANGED skipped
  /\ \A what : PassOver(what) => Quiet /\ what \in skipped'
BY DEF SendNothing, PassOver, Quiet

LEMMA PassOverTyped ==
  ASSUME RegistryTyped, SkippedTyped, UNCHANGED found, ctr \in found,
         NEW family \in Families
  PROVE  /\ SendNothing => RegistryTyped' /\ SkippedTyped'
         /\ PassOver(<<family, ctr>>) => RegistryTyped' /\ SkippedTyped'
         /\ \A item \in CgroupMetrics \cup ProcessInfo \cup Paths :
              PassOver(<<family, ctr, item>>) => RegistryTyped' /\ SkippedTyped'
<1>1. CASE SendNothing
  BY <1>1 DEF SendNothing, RegistryTyped, SkippedTyped
<1>2. ASSUME NEW what, PassOver(what),
             what \in (Families \X found) \cup
                      (Families \X found \X (CgroupMetrics \cup ProcessInfo \cup Paths))
      PROVE  RegistryTyped' /\ SkippedTyped'
  BY <1>2 DEF PassOver, RegistryTyped, SkippedTyped
<1> QED
  BY <1>1, <1>2

LEMMA FirstOwnerTyped == DiscoveryTypeOK => FirstOwner \subseteq Owners
BY DEF DiscoveryTypeOK, HostTypeOK, ProcessTables, Process, FirstOwner

LEMMA ScrapeTypeInit == ScrapeInit => ScrapeTypeOK
BY DiscoveryTypeInit DEF ScrapeInit, ScrapeTypeOK, Collecting

(* The types, but for those of the discovery and of the registry.          *)
ControlTyped ==
  /\ phase \in {"idle", "discover", "container", "cgroup", "cgroupFiles", "smaps",
                "io", "mountinfo", "statfs", "glob", "lstat", "gather", "panicked"}
  /\ todo \subseteq found
  /\ ctr \in IF Collecting THEN found ELSE {Nothing}
  /\ phase = "cgroupFiles" => work \subseteq CgroupMetrics
  /\ phase \in {"smaps", "io"} => work \subseteq pids[ctr]
  /\ phase = "statfs" => work \subseteq MountpointPaths(Label(ctr))
  /\ phase \in {"glob", "lstat"} => work \subseteq FileMetricPaths(Label(ctr))
  /\ root \in Owners \cup {Nothing}
  /\ response \in {"none", "200", "500"}

LEMMA ScrapeTypes ==
  ScrapeTypeOK <=> DiscoveryTypeOK /\ ControlTyped /\ RegistryTyped /\ SkippedTyped
BY DEF ScrapeTypeOK, ControlTyped, RegistryTyped, SkippedTyped

(* The steps of the collection: nothing of the discovery changes.          *)
LEMMA ReadTyped ==
  ASSUME ScrapeTypeOK, ScrapeControl, Read \/ ReadFiles \/ Restart
  PROVE  ScrapeTypeOK'
<1>1. UNCHANGED dvars
  BY ReadKeepsDiscovery
<1>2. DiscoveryTypeOK /\ DiscoveryTypeOK'
  BY <1>1, DiscoveryTypeStep, ScrapeTypes
<1>3. UNCHANGED <<dpc, found, pids, procs>>
  BY <1>1 DEF dvars, hostVars, discoveryVars
<1>4. pids \in [Containers -> SUBSET ProcessInfo] /\ found \subseteq Containers
      /\ procs \subseteq Process
  BY <1>2 DEF DiscoveryTypeOK, HostTypeOK, ProcessTables
<1>5. ControlTyped /\ RegistryTyped /\ SkippedTyped
  BY ScrapeTypes
<1>6. FirstOwner \subseteq Owners
  BY <1>2, FirstOwnerTyped
<1>7. UNCHANGED <<samples, gatherErr, skipped>> => RegistryTyped' /\ SkippedTyped'
  BY <1>3, <1>5 DEF RegistryTyped, SkippedTyped
<1> SUFFICES ControlTyped' /\ RegistryTyped' /\ SkippedTyped'
  BY <1>2 DEF ScrapeTypeOK, ControlTyped, RegistryTyped, SkippedTyped
<1> USE DEF ControlTyped, Collecting
<1>8. CASE DiscoveryFailed \/ ContainersDiscovered \/ CollectReturns \/ Respond \/ Restart
  <2>1. RegistryTyped' /\ SkippedTyped'
    BY <1>3, <1>5, <1>8
       DEF DiscoveryFailed, ContainersDiscovered, CollectReturns, Respond, Restart,
           RegistryTyped, SkippedTyped
  <2> QED
    BY <1>3, <1>5, <1>8, <2>1
       DEF DiscoveryFailed, ContainersDiscovered, CollectReturns, Respond, Restart
<1>9. ASSUME NEW c \in Containers, NextContainer(c)
      PROVE  ControlTyped' /\ RegistryTyped' /\ SkippedTyped'
  BY <1>3, <1>5, <1>7, <1>9 DEF NextContainer
<1>10. CASE FindCgroup
  BY <1>3, <1>5, <1>7, <1>10 DEF FindCgroup
<1>11. CASE FindCgroupFails
  <2>1. RegistryTyped' /\ SkippedTyped'
    BY <1>3, <1>5, <1>11, PassOverTyped DEF FindCgroupFails, Families
  <2> QED
    BY <1>3, <1>5, <1>11, <2>1 DEF FindCgroupFails
<1>12. CASE CgroupDone \/ SmapsDone \/ ProcIoDone \/ DiskDone
  BY <1>3, <1>5, <1>7, <1>12 DEF CgroupDone, SmapsDone, ProcIoDone, DiskDone, Goto
<1>13. CASE FilesDone
  BY <1>3, <1>5, <1>7, <1>13 DEF FilesDone
<1>14. ASSUME NEW m \in CgroupMetrics, readCgroupMetric(m)
       PROVE  ControlTyped' /\ RegistryTyped' /\ SkippedTyped'
  <2>1. ctr \in Containers /\ ctr \in found /\ phase = "cgroupFiles"
    BY <1>4, <1>5, <1>14 DEF readCgroupMetric
  <2>2. CASE Send("cgroup", m, ctr)
    <3>1. RegistryTyped' /\ SkippedTyped'
      BY <1>3, <1>5, <2>1, <2>2, SeriesTyped, SendTyped DEF Owners
    <3> QED
      BY <1>3, <1>5, <1>14, <2>1, <3>1 DEF readCgroupMetric
  <2>3. CASE SendNothing \/ PassOver(<<"cgroup", ctr, m>>)
    <3>1. RegistryTyped' /\ SkippedTyped'
      BY <1>3, <1>5, <2>1, <2>3, PassOverTyped DEF Families
    <3> QED
      BY <1>3, <1>5, <1>14, <2>1, <3>1 DEF readCgroupMetric
  <2> QED
    BY <1>14, <2>2, <2>3 DEF readCgroupMetric
<1>15. ASSUME NEW file \in {"smaps", "io"}, ReadProcess(file)
       PROVE  ControlTyped' /\ RegistryTyped' /\ SkippedTyped'
  <2>1. PICK e \in work :
          /\ work' = work \ {e} /\ phase = file
          /\ \/ \E p \in procs : Send(file, e, p)
             \/ SendNothing
             \/ PassOver(<<file, ctr, e>>)
          /\ UNCHANGED <<phase, todo, ctr, root, response>>
    BY <1>15 DEF ReadProcess
  <2>2. ctr \in Containers /\ ctr \in found /\ e \in ProcessInfo
    BY <1>4, <1>5, <2>1
  <2>3. RegistryTyped' /\ SkippedTyped'
    <3>1. ASSUME NEW p \in procs, Send(file, e, p) PROVE RegistryTyped' /\ SkippedTyped'
      BY <1>3, <1>4, <1>5, <2>2, <3>1, SeriesTyped, SendTyped
    <3>2. CASE SendNothing \/ PassOver(<<file, ctr, e>>)
      BY <1>3, <1>5, <2>2, <3>2, PassOverTyped DEF Families
    <3> QED
      BY <2>1, <3>1, <3>2
  <2> QED
    BY <1>3, <1>5, <2>1, <2>3
<1>16. CASE ReadMountInfo
  <2>1. ctr \in found /\ phase = "mountinfo" /\ work = {}
    BY <1>5, <1>16 DEF ReadMountInfo, ScrapeControl
  <2>2. RegistryTyped' /\ SkippedTyped'
    BY <1>3, <1>5, <1>16, <2>1, PassOverTyped DEF ReadMountInfo, Families
  <2>3. root' \in Owners \cup {Nothing} /\ work' \subseteq MountpointPaths(Label(ctr))
    BY <1>5, <1>6, <1>16, <2>1 DEF ReadMountInfo
  <2> QED
    BY <1>3, <1>5, <1>16, <2>1, <2>2, <2>3 DEF ReadMountInfo
<1>17. CASE Statfs
  <2>1. PICK place \in work :
          /\ work' = work \ {place} /\ phase = "statfs"
          /\ \/ \E o \in FirstOwner : Send("mountpoint", MountpointAt(place), o)
             \/ SendNothing
             \/ PassOver(<<"mountpoint", ctr, MountpointAt(place)>>)
          /\ UNCHANGED <<phase, todo, ctr, root, response>>
    BY <1>17 DEF Statfs
  <2>2. ctr \in Containers /\ ctr \in found /\ MountpointAt(place) \in Paths
    BY <1>4, <1>5, <2>1, PathsTyped
  <2>3. RegistryTyped' /\ SkippedTyped'
    <3>1. ASSUME NEW o \in FirstOwner, Send("mountpoint", MountpointAt(place), o)
          PROVE  RegistryTyped' /\ SkippedTyped'
      BY <1>3, <1>5, <1>6, <2>2, <3>1, SeriesTyped, SendTyped
    <3>2. CASE SendNothing \/ PassOver(<<"mountpoint", ctr, MountpointAt(place)>>)
      BY <1>3, <1>5, <2>2, <3>2, PassOverTyped DEF Families
    <3> QED
      BY <2>1, <3>1, <3>2
  <2> QED
    BY <1>3, <1>5, <2>1, <2>3
<1>18. CASE Glob
  <2>1. PICK place \in work :
          /\ work' \subseteq work /\ phase = "glob" /\ phase' \in {"glob", "lstat"}
          /\ root' \in FirstOwner \cup {Nothing} \/ UNCHANGED root
          /\ UNCHANGED skipped \/ PassOver(<<"file", ctr, FileAt(place)>>)
          /\ UNCHANGED <<todo, ctr, samples, gatherErr, response>>
    BY <1>18 DEF Glob
  <2>2. ctr \in found /\ FileAt(place) \in Paths
    BY <1>5, <2>1, PathsTyped
  <2>3. RegistryTyped' /\ SkippedTyped'
    BY <1>3, <1>5, <1>7, <2>1, <2>2, PassOverTyped DEF Families
  <2> QED
    BY <1>3, <1>5, <1>6, <2>1, <2>3
<1>19. CASE Lstat
  <2>1. PICK place \in work, source \in FirstOwner \cup {Nothing} :
          /\ work' = work \ {place} /\ phase = "lstat" /\ phase' = "glob"
          /\ Send("file", FileAt(place), source)
          /\ root' = Nothing
          /\ UNCHANGED <<todo, ctr, response>>
    BY <1>19 DEF Lstat
  <2>2. ctr \in Containers /\ FileAt(place) \in Paths
    BY <1>4, <1>5, <2>1, PathsTyped
  <2>3. RegistryTyped' /\ SkippedTyped'
    BY <1>3, <1>5, <1>6, <2>1, <2>2, SeriesTyped, SendTyped
  <2> QED
    BY <1>3, <1>5, <2>1, <2>3
<1>20. CASE ReadProcessPanics \/ StatfsPanics
  BY <1>3, <1>5, <1>20
     DEF ReadProcessPanics, StatfsPanics, Panic, RegistryTyped, SkippedTyped
<1> QED
  BY <1>8, <1>9, <1>10, <1>11, <1>12, <1>13, <1>14, <1>15, <1>16, <1>17, <1>18, <1>19, <1>20
     DEF Read, ReadFiles

LEMMA ScrapeTypeStep ==
  ASSUME ScrapeTypeOK, ScrapeControl, [ScrapeNext]_svars
  PROVE  ScrapeTypeOK'
<1> USE DEF ScrapeTypeOK, Collecting, collectVars
<1>1. DiscoveryTypeOK'
  BY ScrapeStepDiscovers, DiscoveryTypeStep
<1>2. CASE NodeStep
  BY <1>1, <1>2 DEF NodeStep, HostStep, discoveryVars
<1>3. CASE Request
  BY <1>1, <1>3 DEF Request, ScrapeControl
<1>4. CASE Discover
  <2>1. found \subseteq found'
    BY <1>4 DEF Discover, Listing, Scanning, Deadline, ListPodSandbox, ListPodSandboxFails,
                ListContainers, ListContainersFails, ReadDir, ReadDirFails, readCgroup,
                getComm, getNamespacePID, ScanEnds
  <2>2. SkippedTyped'
    BY <1>4, <2>1 DEF Discover, SkippedTyped
  <2> QED
    BY <1>1, <1>4, <2>1, <2>2 DEF Discover, SkippedTyped
<1>5. CASE Read \/ ReadFiles \/ Restart
  BY <1>5, ReadTyped
<1>6. CASE UNCHANGED svars
  BY <1>1, <1>6 DEF svars, dvars, discoveryVars
<1> QED
  BY <1>2, <1>3, <1>4, <1>5, <1>6 DEF ScrapeNext

-----------------------------------------------------------------------------
(***************************************************************************)
(* The control points of the collection.                                   *)
(***************************************************************************)
LEMMA ScrapeControlStep ==
  ASSUME ScrapeTypeOK, ScrapeControl, [ScrapeNext]_svars
  PROVE  ScrapeControl'
<1> USE DEF ScrapeControl, Collecting, collectVars
<1>1. CASE NodeStep
  BY <1>1 DEF NodeStep, HostStep, discoveryVars
<1>2. CASE Request
  BY <1>2 DEF Request
<1>3. CASE Discover
  BY <1>3 DEF Discover
<1>4. CASE Read \/ ReadFiles \/ Restart
  <2>1. UNCHANGED pids
    BY <1>4, ReadKeepsDiscovery DEF dvars, discoveryVars
  <2>2. CASE DiscoveryFailed \/ ContainersDiscovered \/ CollectReturns \/ Respond \/ Restart
    BY <2>2 DEF DiscoveryFailed, ContainersDiscovered, CollectReturns, Respond, Restart
  <2>3. ASSUME NEW c \in Containers, NextContainer(c) PROVE ScrapeControl'
    BY <2>3 DEF NextContainer
  <2>4. CASE FindCgroup \/ FindCgroupFails \/ Statfs
    BY <2>4 DEF FindCgroup, FindCgroupFails, Statfs
  <2>5. CASE CgroupDone \/ SmapsDone \/ ProcIoDone \/ DiskDone \/ FilesDone
    BY <2>1, <2>5 DEF CgroupDone, SmapsDone, ProcIoDone, DiskDone, FilesDone, Goto
  <2>6. ASSUME NEW m \in CgroupMetrics, readCgroupMetric(m) PROVE ScrapeControl'
    BY <2>6 DEF readCgroupMetric
  <2>7. CASE ReadProcess("smaps") \/ ReadProcess("io")
    BY <2>7 DEF ReadProcess
  <2>8. CASE Glob \/ Lstat
    BY <2>1, <2>8 DEF Glob, Lstat
  <2>9. CASE ReadMountInfo
    <3>1. FirstOwner \subseteq Owners
      BY FirstOwnerTyped DEF ScrapeTypeOK
    <3> QED
      BY <2>9, <3>1 DEF ReadMountInfo
  <2>10. CASE ReadProcessPanics \/ StatfsPanics
    BY <2>10 DEF ReadProcessPanics, StatfsPanics, Panic
  <2> QED
    BY <1>4, <2>2, <2>3, <2>4, <2>5, <2>6, <2>7, <2>8, <2>9, <2>10 DEF Read, ReadFiles
<1>5. CASE UNCHANGED svars
  BY <1>5 DEF svars, dvars, discoveryVars
<1> QED
  BY <1>1, <1>2, <1>3, <1>4, <1>5 DEF ScrapeNext

-----------------------------------------------------------------------------
(***************************************************************************)
(* No series is sent twice, so nothing but a path listed twice is an error *)
(* to the registry.                                                        *)
(***************************************************************************)
LEMMA SentIsNotPending ==
  ASSUME DiscoveryInv, ScrapeTypeOK, SentOnce, Collecting,
         NEW family, NEW item \in Pending(family), NEW s \in samples,
         s.series = [family |-> family, label |-> Label(ctr), item |-> item]
  PROVE  ListedTwice(s.series)
<1>1. PICK c \in found \ todo :
        /\ s.series.label = Label(c)
        /\ c = ctr /\ ~ListedTwice(s.series) => s.series.item \notin Pending(s.series.family)
  BY DEF SentOnce
<1>2. ctr \in found /\ Label(c) = Label(ctr)
  BY <1>1 DEF ScrapeTypeOK
<1>3. c = ctr
  BY <1>1, <1>2 DEF DiscoveryInv, ListingInv, LabelsIdentifyContainer
<1> QED
  BY <1>1, <1>3

(* A step of a loop: it sends what was pending, and is done with it.       *)
LEMMA SendStep ==
  ASSUME DiscoveryInv, ScrapeTypeOK, ScrapeControl, SentOnce, ErrorsAreExplained,
         Collecting, phase' # "panicked", UNCHANGED <<dvars, todo, ctr>>,
         \A f \in Families : Pending(f)' \subseteq Pending(f),
         NEW family \in Families, NEW item \in Pending(family), NEW source,
         Send(family, item, source) \/ Quiet,
         \/ item \notin Pending(family)'
         \/ ListedTwice([family |-> family, label |-> Label(ctr), item |-> item])
  PROVE  SentOnce' /\ ErrorsAreExplained'
<1> DEFINE series == [family |-> family, label |-> Label(ctr), item |-> item]
<1>1. UNCHANGED <<dpc, found>>
  BY DEF dvars, discoveryVars
<1>2. /\ samples \subseteq samples'
      /\ \A s \in samples' : s \in samples \/ s.series = series
      /\ gatherErr' => gatherErr \/ \E s \in samples : s.series = series
  BY DEF Send, Quiet
<1>3. gatherErr' => dpc = "failed" \/ \E s \in samples' : ListedTwice(s.series)
  <2>1. gatherErr => dpc = "failed" \/ \E s \in samples' : ListedTwice(s.series)
    BY <1>2 DEF ErrorsAreExplained
  <2>2. (\E s \in samples : s.series = series) => \E s \in samples' : ListedTwice(s.series)
    BY <1>2, SentIsNotPending
  <2> QED
    BY <1>2, <2>1, <2>2
<1>4. ctr \in found \ todo
  BY DEF ScrapeTypeOK, ScrapeControl
<1>5. ASSUME NEW s \in samples'
      PROVE  \E c \in found \ todo :
               /\ s.series.label = Label(c)
               /\ c = ctr /\ ~ListedTwice(s.series) =>
                    s.series.item \notin Pending(s.series.family)'
  <2>1. CASE s.series = series
    BY <1>4, <2>1
  <2>2. CASE s \in samples
    <3>1. PICK c \in found \ todo :
            /\ s.series.label = Label(c)
            /\ c = ctr /\ ~ListedTwice(s.series) =>
                 s.series.item \notin Pending(s.series.family)
      BY <2>2 DEF SentOnce
    <3>2. s.series.family \in Families
      BY <2>2 DEF ScrapeTypeOK, Sample, Series, Families
    <3> QED
      BY <3>1, <3>2
  <2> QED
    BY <1>2, <2>1, <2>2
<1>6. SentOnce'
  BY <1>1, <1>5 DEF SentOnce
<1> QED
  BY <1>1, <1>3, <1>6 DEF ErrorsAreExplained

(* A step between the loops: nothing is sent.                              *)
LEMMA MoveStep ==
  ASSUME ScrapeTypeOK, SentOnce, ErrorsAreExplained, phase' # "panicked",
         UNCHANGED <<dvars, todo, samples, gatherErr>>,
         Collecting' => /\ Collecting /\ UNCHANGED ctr
                        /\ \A f \in Families : Pending(f)' \subseteq Pending(f)
  PROVE  SentOnce' /\ ErrorsAreExplained'
<1>1. UNCHANGED <<dpc, found>>
  BY DEF dvars, discoveryVars
<1>2. \A s \in samples : s.series.family \in Families
  BY DEF ScrapeTypeOK, Sample, Series, Families
<1>3. SentOnce'
  BY <1>1, <1>2 DEF SentOnce
<1> QED
  BY <1>1, <1>3 DEF ErrorsAreExplained

LEMMA ReadSends ==
  ASSUME DiscoveryInv, ScrapeTypeOK, ScrapeControl, SentOnce, ErrorsAreExplained,
         Read \/ ReadFiles \/ Restart,
         ~(ReadProcessPanics \/ StatfsPanics)
  PROVE  SentOnce' /\ ErrorsAreExplained'
<1> USE DEF Collecting
<1>1. UNCHANGED dvars
  BY ReadKeepsDiscovery
<1>2. UNCHANGED <<dpc, found, pids>>
  BY <1>1 DEF dvars, discoveryVars
<1>4. CASE DiscoveryFailed
  BY <1>2, <1>4 DEF DiscoveryFailed, ScrapeControl, SentOnce, ErrorsAreExplained
<1>5. CASE ContainersDiscovered
  BY <1>2, <1>5 DEF ContainersDiscovered, ScrapeControl, SentOnce, ErrorsAreExplained
<1>6. CASE CollectReturns \/ Respond \/ FilesDone \/ Restart
  <2>1. /\ ~Collecting' /\ phase' # "panicked"
        /\ UNCHANGED <<todo, samples, gatherErr>>
    BY <1>6 DEF CollectReturns, Respond, FilesDone, Restart
  <2> QED
    BY <1>1, <2>1, MoveStep
<1>7. ASSUME NEW c \in Containers, NextContainer(c) PROVE SentOnce' /\ ErrorsAreExplained'
  <2>1. /\ ctr' = c /\ c \in todo /\ todo' = todo \ {c} /\ phase' # "panicked"
        /\ UNCHANGED <<samples, gatherErr>>
    BY <1>7 DEF NextContainer
  <2>2. SentOnce'
    BY <1>2, <2>1 DEF SentOnce
  <2> QED
    BY <1>2, <2>1, <2>2 DEF ErrorsAreExplained
<1>8. CASE FindCgroup \/ FindCgroupFails \/ CgroupDone \/ SmapsDone \/ ProcIoDone
           \/ ReadMountInfo \/ DiskDone \/ Glob
  <2>1. /\ Collecting /\ phase' # "panicked"
        /\ UNCHANGED <<todo, ctr, samples, gatherErr>>
    BY <1>8 DEF FindCgroup, FindCgroupFails, CgroupDone, SmapsDone, ProcIoDone,
                ReadMountInfo, DiskDone, Glob, Goto, SendNothing, PassOver
  <2>2. FindCgroup \/ FindCgroupFails \/ CgroupDone \/ SmapsDone \/ ProcIoDone
        => \A f \in Families : Pending(f)' \subseteq Pending(f)
    BY <1>2, <2>1
       DEF FindCgroup, FindCgroupFails, CgroupDone, SmapsDone, ProcIoDone, Goto,
           Families, Pending
  <2>3. DiskDone \/ Glob => \A f \in Families : Pending(f)' \subseteq Pending(f)
    BY <1>2, <2>1 DEF DiskDone, Glob, Goto, Families, Pending
  <2>4. ReadMountInfo => \A f \in Families : Pending(f)' \subseteq Pending(f)
    <3>1. ReadMountInfo =>
            /\ phase = "mountinfo" /\ phase' = "statfs"
            /\ work' \subseteq MountpointPaths(Label(ctr))
      BY DEF ReadMountInfo, ScrapeControl
    <3> QED
      BY <1>2, <2>1, <3>1 DEF Families, Pending
  <2> QED
    BY <1>1, <1>8, <2>1, <2>2, <2>3, <2>4, MoveStep
<1>9. ASSUME NEW m \in CgroupMetrics, readCgroupMetric(m)
      PROVE  SentOnce' /\ ErrorsAreExplained'
  <2>1. /\ phase = "cgroupFiles" /\ m \in work /\ work' = work \ {m}
        /\ UNCHANGED <<phase, todo, ctr>>
        /\ Send("cgroup", m, ctr) \/ Quiet
    BY <1>9, QuietSteps DEF readCgroupMetric
  <2>2. /\ m \in Pending("cgroup") /\ m \notin Pending("cgroup")'
        /\ \A f \in Families : Pending(f)' \subseteq Pending(f)
    BY <1>2, <2>1 DEF Pending, Families
  <2> QED
    BY <1>1, <2>1, <2>2, SendStep DEF Families
<1>10. ASSUME NEW file \in {"smaps", "io"}, ReadProcess(file)
       PROVE  SentOnce' /\ ErrorsAreExplained'
  <2>1. PICK e \in work :
          /\ phase = file /\ work' = work \ {e}
          /\ UNCHANGED <<phase, todo, ctr>>
          /\ \/ \E p \in procs : Send(file, e, p)
             \/ Quiet
    BY <1>10, QuietSteps DEF ReadProcess
  <2>2. /\ e \in Pending(file) /\ e \notin Pending(file)'
        /\ \A f \in Families : Pending(f)' \subseteq Pending(f)
    BY <1>2, <2>1 DEF Pending, Families
  <2> QED
    BY <1>1, <2>1, <2>2, SendStep DEF Families
<1>11. CASE Statfs
  <2>1. PICK place \in work :
          /\ phase = "statfs" /\ work' = work \ {place}
          /\ UNCHANGED <<phase, todo, ctr>>
          /\ \/ \E o \in FirstOwner : Send("mountpoint", MountpointAt(place), o)
             \/ Quiet
    BY <1>11, QuietSteps DEF Statfs
  <2> DEFINE path == MountpointAt(place)
             series == [family |-> "mountpoint", label |-> Label(ctr), item |-> path]
  <2>2. /\ path \in Pending("mountpoint")
        /\ \A f \in Families : Pending(f)' \subseteq Pending(f)
    BY <1>2, <2>1 DEF Pending, Families
  <2>3. path \notin Pending("mountpoint")' \/ ListedTwice(series)
    <3>1. work \subseteq MountpointPaths(Label(ctr))
      BY <2>1 DEF ScrapeTypeOK
    <3>2. ASSUME path \in Pending("mountpoint")' PROVE ListedTwice(series)
      <4>1. PICK q \in work' : MountpointAt(q) = path
        BY <2>1, <3>2 DEF Pending
      <4>2. MountpointListedTwice(Label(ctr), path)
        BY <2>1, <3>1, <4>1 DEF MountpointListedTwice
      <4> QED
        BY <4>2 DEF ListedTwice
    <3> QED
      BY <3>2
  <2> QED
    BY <1>1, <2>1, <2>2, <2>3, SendStep DEF Families
<1>12. CASE Lstat
  <2>1. PICK place \in work, source \in FirstOwner \cup {Nothing} :
          /\ phase = "lstat" /\ phase' = "glob" /\ work' = work \ {place}
          /\ UNCHANGED <<todo, ctr>>
          /\ Send("file", FileAt(place), source)
    BY <1>12 DEF Lstat
  <2> DEFINE path == FileAt(place)
             series == [family |-> "file", label |-> Label(ctr), item |-> path]
  <2>2. /\ path \in Pending("file")
        /\ \A f \in Families : Pending(f)' \subseteq Pending(f)
    BY <1>2, <2>1 DEF Pending, Families
  <2>3. path \notin Pending("file")' \/ ListedTwice(series)
    <3>1. work \subseteq FileMetricPaths(Label(ctr))
      BY <2>1 DEF ScrapeTypeOK
    <3>2. ASSUME path \in Pending("file")' PROVE ListedTwice(series)
      <4>1. PICK q \in work' : FileAt(q) = path
        BY <2>1, <3>2 DEF Pending
      <4>2. FileListedTwice(Label(ctr), path)
        BY <2>1, <3>1, <4>1 DEF FileListedTwice
      <4> QED
        BY <4>2 DEF ListedTwice
    <3> QED
      BY <3>2
  <2> QED
    BY <1>1, <2>1, <2>2, <2>3, SendStep DEF Families
<1> QED
  BY <1>4, <1>5, <1>6, <1>7, <1>8, <1>9, <1>10, <1>11, <1>12 DEF Read, ReadFiles

-----------------------------------------------------------------------------
(***************************************************************************)
(* Where the values come from.                                             *)
(***************************************************************************)
LEMMA PidsAreNumbers ==
  ASSUME DiscoveryTypeOK, NEW c \in Containers
  PROVE  \A e \in pids[c] : e.pid \in Nat
<1>1. pids[c] \subseteq ProcessInfo
  BY DEF DiscoveryTypeOK
<1>2. \A e \in ProcessInfo : e.pid \in Pids
  BY DEF ProcessInfo
<1>3. Pids \subseteq Nat
  BY HostAssumption DEF HostAssumption
<1> QED
  BY <1>1, <1>2, <1>3

LEMMA FirstExists ==
  ASSUME DiscoveryTypeOK, NEW c \in Containers, pids[c] # {}
  PROVE  \E e \in pids[c] : IsFirst(e, pids[c])
<1> DEFINE T == {e.pid : e \in pids[c]}
<1>1. \A e \in pids[c] : e.pid \in Nat
  BY PidsAreNumbers
<1>2. T \subseteq Nat /\ T # {}
  BY <1>1
<1>3. PICK x \in T : \A y \in T : <<y, x>> \notin OpToRel(<, Nat)
  BY <1>2, NatLessThanWellFounded, WFMin
<1>4. \A y \in T : ~(y < x)
  BY <1>2, <1>3 DEF OpToRel
<1>5. PICK e \in pids[c] : e.pid = x
  OBVIOUS
<1>6. \A f \in pids[c] : e.pid <= f.pid
  BY <1>2, <1>4, <1>5
<1> QED
  BY <1>5, <1>6 DEF IsFirst

(* The process that stands for the container's file system, while the node *)
(* leaves it alone.                                                        *)
LEMMA FirstOwnerIsCtr ==
  ASSUME DiscoveryInv, ctr \in Containers,
         NEW e, IsFirst(e, pids[ctr]), Untouched(e.pid)
  PROVE  FirstOwner = {ctr}
<1> DEFINE p == [pid |-> e.pid, owner |-> ctr, comm |-> e.comm]
<1>1. e \in pids[ctr] /\ p \in procs
  BY DEF IsFirst, DiscoveryInv, ScanInv, AttachedProcesses
<1>2. ASSUME NEW f, IsFirst(f, pids[ctr]) PROVE f.pid = e.pid
  <2>1. \A g \in pids[ctr] : g.pid \in Nat
    BY PidsAreNumbers DEF DiscoveryInv
  <2>2. e.pid \in Nat /\ f.pid \in Nat /\ e.pid <= f.pid /\ f.pid <= e.pid
    BY <1>2, <2>1 DEF IsFirst
  <2> QED
    BY <2>2
<1>3. \A q \in procs : q.pid = e.pid => q = p
  BY <1>1 DEF DiscoveryInv, DiscoveryTypeOK, HostTypeOK, ProcessTables
<1> QED
  BY <1>1, <1>2, <1>3 DEF FirstOwner

(* The lists are worked off in an order: one place is the first.           *)
LEMMA FirstPlaceUnique ==
  ASSUME NEW l, NEW places, places \subseteq FileMetricPaths(l),
         NEW p \in places, NEW q \in places, IsFirstPlace(p, places), IsFirstPlace(q, places)
  PROVE  p = q
<1>1. ASSUME NEW r \in FileMetricPaths(l)
      PROVE  r = <<r[1], r[2]>> /\ r[1] \in Nat /\ r[2] \in Nat
  <2>1. PICK i \in MatchingFilters(l) : r \in {i} \X DOMAIN Filters[i].files
    BY DEF FileMetricPaths
  <2>2. i \in DOMAIN Filters
    BY DEF MatchingFilters
  <2>3. DOMAIN Filters \subseteq Nat
    BY FiltersAssumption DEF FiltersAssumption
  <2>4. Filters[i] \in ContainerFilter
    BY <2>2, FiltersAssumption DEF FiltersAssumption
  <2>5. Filters[i].files \in Seq(Paths)
    BY <2>4 DEF ContainerFilter
  <2>6. DOMAIN Filters[i].files \subseteq Nat
    BY <2>5
  <2> QED
    BY <2>1, <2>2, <2>3, <2>6
<1>2. /\ p[1] < q[1] \/ (p[1] = q[1] /\ p[2] <= q[2])
      /\ q[1] < p[1] \/ (q[1] = p[1] /\ q[2] <= p[2])
  BY DEF IsFirstPlace
<1>3. /\ p = <<p[1], p[2]>> /\ p[1] \in Nat /\ p[2] \in Nat
      /\ q = <<q[1], q[2]>> /\ q[1] \in Nat /\ q[2] \in Nat
  BY <1>1
<1>4. p[1] = q[1] /\ p[2] = q[2]
  BY <1>2, <1>3
<1> QED
  BY <1>3, <1>4

(* What was taken from a container stays so: a change of the node, or what *)
(* is passed over, only excuses more.                                      *)
LEMMA TakenKept ==
  ASSUME ScrapeTypeOK, SamplesOfTheirContainer, UNCHANGED <<found, pids>>,
         touched \subseteq touched', skipped \subseteq skipped',
         NEW s \in samples
  PROVE  (\E c \in found : TakenFrom(c, s))'
BY DEF SamplesOfTheirContainer, TakenFrom, Untouched, ScrapeTypeOK, PassedOver

LEMMA SendTaken ==
  ASSUME ScrapeTypeOK, SamplesOfTheirContainer, Collecting, UNCHANGED <<dvars, ctr>>,
         NEW family, NEW item, NEW source,
         TakenFrom(ctr, [series |-> [family |-> family, label |-> Label(ctr), item |-> item],
                         source |-> source]),
         Send(family, item, source) \/ Quiet
  PROVE  SamplesOfTheirContainer'
<1> DEFINE sample == [series |-> [family |-> family, label |-> Label(ctr), item |-> item],
                      source |-> source]
<1>1. UNCHANGED <<found, pids, touched>> /\ ctr \in found /\ skipped \subseteq skipped'
  BY DEF dvars, hostVars, discoveryVars, ScrapeTypeOK, Send, Quiet
<1>2. TakenFrom(ctr, sample)'
  BY <1>1 DEF TakenFrom, Untouched, PassedOver
<1>3. \A s \in samples' : s \in samples \/ s = sample
  BY DEF Send, Quiet
<1>4. \A s \in samples : (\E c \in found : TakenFrom(c, s))'
  BY <1>1, TakenKept
<1> QED
  BY <1>1, <1>2, <1>3, <1>4 DEF SamplesOfTheirContainer

LEMMA ReadTakes ==
  ASSUME ScrapeInv, Read \/ ReadFiles \/ Restart
  PROVE  SamplesOfTheirContainer' /\ RootMatched'
<1> USE DEF ScrapeInv
<1>1. UNCHANGED dvars
  BY ReadKeepsDiscovery
<1>2. UNCHANGED <<found, pids, touched>>
  BY <1>1 DEF dvars, hostVars, discoveryVars
<1>3. Collecting => ctr \in Containers /\ ctr \in found
  BY DEF ScrapeTypeOK, DiscoveryTypeOK
<1>4. CASE Quiet /\ phase' \notin {"statfs", "lstat"}
  BY <1>2, <1>4, TakenKept DEF SamplesOfTheirContainer, RootMatched, Quiet
<1>5. CASE DiscoveryFailed \/ ContainersDiscovered \/ CollectReturns \/ Respond
           \/ FindCgroup \/ FindCgroupFails \/ CgroupDone \/ SmapsDone \/ ProcIoDone
           \/ DiskDone \/ FilesDone \/ Restart
           \/ \E c \in Containers : NextContainer(c)
  <2>1. UNCHANGED samples /\ skipped \subseteq skipped' /\ phase' \notin {"statfs", "lstat"}
    BY <1>5
       DEF DiscoveryFailed, ContainersDiscovered, CollectReturns, Respond, FindCgroup,
           FindCgroupFails, CgroupDone, SmapsDone, ProcIoDone, DiskDone, FilesDone,
           Goto, NextContainer, Restart, SendNothing, PassOver
  <2> QED
    BY <1>2, <2>1, TakenKept DEF SamplesOfTheirContainer, RootMatched
<1>6. ASSUME NEW m \in CgroupMetrics, readCgroupMetric(m)
      PROVE  SamplesOfTheirContainer' /\ RootMatched'
  <2>1. /\ phase = "cgroupFiles" /\ phase' = phase /\ UNCHANGED ctr
        /\ Send("cgroup", m, ctr) \/ Quiet
    BY <1>6, QuietSteps DEF readCgroupMetric
  <2>2. TakenFrom(ctr, [series |-> [family |-> "cgroup", label |-> Label(ctr), item |-> m],
                        source |-> ctr])
    BY DEF TakenFrom
  <2> QED
    BY <1>1, <2>1, <2>2, SendTaken DEF Collecting, RootMatched
<1>7. ASSUME NEW file \in {"smaps", "io"}, ReadProcess(file)
      PROVE  SamplesOfTheirContainer' /\ RootMatched'
  <2>1. PICK e \in work :
          /\ phase = file /\ phase' = phase /\ UNCHANGED ctr
          /\ \/ \E p \in procs : p.pid = e.pid /\ Send(file, e, p)
             \/ Quiet
    BY <1>7, QuietSteps DEF ReadProcess
  <2>2. e \in pids[ctr]
    BY <2>1 DEF ScrapeTypeOK
  <2>3. ASSUME NEW p \in procs, p.pid = e.pid, Send(file, e, p)
        PROVE  SamplesOfTheirContainer'
    <3> DEFINE q == [pid |-> e.pid, owner |-> ctr, comm |-> e.comm]
    <3>0. Untouched(e.pid) => q \in procs
      BY <1>3, <2>1, <2>2 DEF Collecting, DiscoveryInv, ScanInv, AttachedProcesses
    <3>1. Untouched(e.pid) => p = q
      BY <2>3, <3>0 DEF DiscoveryInv, DiscoveryTypeOK, HostTypeOK, ProcessTables
    <3>2. TakenFrom(ctr, [series |-> [family |-> file, label |-> Label(ctr), item |-> e],
                          source |-> p])
      BY <2>2, <3>1 DEF TakenFrom
    <3> QED
      BY <1>1, <2>1, <2>3, <3>2, SendTaken DEF Collecting
  <2>4. CASE Quiet
    BY <1>4, <2>1, <2>4
  <2> QED
    BY <2>1, <2>3, <2>4 DEF RootMatched
<1>8. CASE ReadMountInfo
  <2>1. SamplesOfTheirContainer'
    <3>1. UNCHANGED samples /\ skipped \subseteq skipped'
      BY <1>8, QuietSteps DEF ReadMountInfo, Quiet
    <3> QED
      BY <1>2, <3>1, TakenKept DEF SamplesOfTheirContainer
  <2>2. ASSUME NEW e \in pids[ctr], IsFirst(e, pids[ctr]), Untouched(e.pid), work' # {}
        PROVE  root' = ctr
    <3>1. phase = "mountinfo" /\ work = {}
      BY <1>8 DEF ReadMountInfo, ScrapeControl
    <3>2. FirstOwner = {ctr}
      BY <1>3, <2>2, <3>1, FirstOwnerIsCtr DEF Collecting
    <3> QED
      BY <1>8, <2>2, <3>1, <3>2 DEF ReadMountInfo
  <2> QED
    BY <1>2, <1>8, <2>1, <2>2 DEF ReadMountInfo, RootMatched, Untouched
<1>9. CASE Statfs
  <2>1. PICK place \in work :
          /\ phase = "statfs" /\ phase' = phase /\ UNCHANGED <<ctr, root>>
          /\ \/ \E o \in FirstOwner : Send("mountpoint", MountpointAt(place), o)
             \/ Quiet
    BY <1>9, QuietSteps DEF Statfs
  <2>2. ASSUME NEW o \in FirstOwner, Send("mountpoint", MountpointAt(place), o)
        PROVE  SamplesOfTheirContainer'
    <3>1. PICK e \in pids[ctr] : IsFirst(e, pids[ctr])
      BY DEF FirstOwner
    <3>2. Untouched(e.pid) => o = ctr
      BY <1>3, <2>1, <3>1, FirstOwnerIsCtr DEF Collecting
    <3>3. TakenFrom(ctr, [series |-> [family |-> "mountpoint", label |-> Label(ctr),
                                      item |-> MountpointAt(place)],
                          source |-> o])
      BY <3>1, <3>2 DEF TakenFrom
    <3> QED
      BY <1>1, <2>1, <2>2, <3>3, SendTaken DEF Collecting
  <2>3. Quiet => SamplesOfTheirContainer'
    BY <1>2, TakenKept DEF SamplesOfTheirContainer, Quiet
  <2>4. RootMatched'
    <3>1. work # {}
      BY <2>1
    <3> QED
      BY <1>2, <2>1, <3>1 DEF RootMatched, Collecting, Untouched
  <2> QED
    BY <2>1, <2>2, <2>3, <2>4
<1>10. CASE Glob
  <2>1. SamplesOfTheirContainer'
    <3>1. UNCHANGED samples /\ skipped \subseteq skipped'
      BY <1>10, QuietSteps DEF Glob, Quiet
    <3> QED
      BY <1>2, <3>1, TakenKept DEF SamplesOfTheirContainer
  <2>2. ASSUME phase' = "lstat", NEW e \in pids[ctr], IsFirst(e, pids[ctr]), Untouched(e.pid)
        PROVE  \/ root' = ctr
               \/ root' = Nothing /\ \A place \in work :
                    IsFirstPlace(place, work) => PassedOver(ctr, "file", FileAt(place))'
    <3>1. phase = "glob"
      BY <1>10 DEF Glob
    <3>2. FirstOwner = {ctr}
      BY <1>3, <2>2, <3>1, FirstOwnerIsCtr DEF Collecting
    <3>3. PICK place \in work :
            /\ IsFirstPlace(place, work)
            /\ \/ root' \in FirstOwner
               \/ root' = Nothing /\ PassOver(<<"file", ctr, FileAt(place)>>)
      BY <1>10, <2>2, <3>1, <3>2 DEF Glob
    <3>4. CASE root' \in FirstOwner
      BY <3>2, <3>4
    <3>5. CASE root' = Nothing /\ PassOver(<<"file", ctr, FileAt(place)>>)
      <4>1. <<"file", ctr, FileAt(place)>> \in skipped' /\ UNCHANGED ctr
        BY <1>10, <3>5 DEF PassOver, Glob
      <4>2. work \subseteq FileMetricPaths(Label(ctr))
        BY <3>1 DEF ScrapeTypeOK
      <4>3. \A q \in work : IsFirstPlace(q, work) => q = place
        BY <3>3, <4>2, FirstPlaceUnique
      <4> QED
        BY <3>5, <4>1, <4>3 DEF PassedOver
    <3> QED
      BY <3>3, <3>4, <3>5
  <2>3. /\ phase = "glob" /\ UNCHANGED ctr /\ phase' \in {"glob", "lstat"}
        /\ phase' = "lstat" => UNCHANGED work
    BY <1>10 DEF Glob
  <2>4. RootMatched'
    <3>1. CASE phase' = "glob"
      BY <3>1 DEF RootMatched
    <3>2. CASE phase' = "lstat"
      BY <1>2, <2>2, <2>3, <3>2 DEF RootMatched, Untouched, PassedOver
    <3> QED
      BY <2>3, <3>1, <3>2
  <2> QED
    BY <2>1, <2>4
<1>11. CASE Lstat
  <2>1. PICK place \in work, source \in FirstOwner \cup {Nothing} :
          /\ phase = "lstat" /\ phase' = "glob" /\ UNCHANGED ctr
          /\ IsFirstPlace(place, work)
          /\ root = Nothing => source = Nothing
          /\ root \in FirstOwner => source = root
          /\ Send("file", FileAt(place), source)
    BY <1>11 DEF Lstat
  <2>2. PICK e \in pids[ctr] : IsFirst(e, pids[ctr])
    BY <1>3, <2>1, FirstExists
       DEF ScrapeControl, Collecting, DiscoveryInv
  <2>3. ASSUME Untouched(e.pid)
        PROVE  source = ctr \/ (source = Nothing /\ PassedOver(ctr, "file", FileAt(place)))
    <3>1. FirstOwner = {ctr}
      BY <1>3, <2>1, <2>2, <2>3, FirstOwnerIsCtr DEF Collecting
    <3>2. \/ root = ctr
          \/ root = Nothing /\ PassedOver(ctr, "file", FileAt(place))
      BY <2>1, <2>2, <2>3 DEF RootMatched, Collecting
    <3> QED
      BY <2>1, <3>1, <3>2
  <2>4. TakenFrom(ctr, [series |-> [family |-> "file", label |-> Label(ctr),
                                    item |-> FileAt(place)],
                        source |-> source])
    BY <2>2, <2>3 DEF TakenFrom
  <2> QED
    BY <1>1, <2>1, <2>4, SendTaken DEF Collecting, RootMatched
<1>12. CASE ReadProcessPanics \/ StatfsPanics
  BY <1>12
     DEF ReadProcessPanics, StatfsPanics, Panic, SamplesOfTheirContainer, RootMatched,
         Collecting
<1> QED
  BY <1>5, <1>6, <1>7, <1>8, <1>9, <1>10, <1>11, <1>12 DEF Read, ReadFiles

LEMMA SamplesStep ==
  ASSUME ScrapeInv, [ScrapeNext]_svars
  PROVE  SamplesOfTheirContainer' /\ RootMatched'
<1> USE DEF ScrapeInv, collectVars
<1>1. CASE NodeStep \/ UNCHANGED svars
  <2>1. UNCHANGED <<collectVars, found, pids>> /\ touched \subseteq touched'
    BY <1>1, HostKeeps
       DEF NodeStep, HostStep, discoveryVars, svars, dvars, hostVars, ScrapeTypeOK,
           DiscoveryTypeOK
  <2>2. SamplesOfTheirContainer'
    BY <2>1, TakenKept DEF SamplesOfTheirContainer
  <2>3. RootMatched'
    BY <2>1 DEF RootMatched, Untouched, PassedOver, Collecting
  <2> QED
    BY <2>2, <2>3
<1>2. CASE Request
  BY <1>2 DEF Request, SamplesOfTheirContainer, RootMatched, Collecting
<1>3. CASE Discover
  BY <1>3 DEF Discover, ScrapeControl, SamplesOfTheirContainer, RootMatched, Collecting
<1>4. CASE Read \/ ReadFiles \/ Restart
  BY <1>4, ReadTakes
<1> QED
  BY <1>1, <1>2, <1>3, <1>4 DEF ScrapeNext

-----------------------------------------------------------------------------
(***************************************************************************)
(* What spoils a scrape.                                                   *)
(***************************************************************************)

(* A panic is over a name of the container being collected, or of what has *)
(* the pid of one of its processes now.                                    *)
LEMMA PanicExplained ==
  ASSUME ScrapeInv, ReadProcessPanics \/ StatfsPanics
  PROVE  SentOnce' /\ ErrorsAreExplained'
<1> USE DEF ScrapeInv
<1>1. Panic
  BY DEF ReadProcessPanics, StatfsPanics
<1>2. UNCHANGED <<found, pids, touched>>
  BY <1>1 DEF Panic, dvars, hostVars, discoveryVars
<1>3. Collecting
  BY DEF ReadProcessPanics, StatfsPanics, Collecting
<1>4. ctr \in Containers /\ ctr \in found
  BY <1>3 DEF ScrapeTypeOK, DiscoveryTypeOK
<1>5. \E e \in pids[ctr] :
        \/ e.comm \in InvalidUTF8
        \/ \E o \in Owners :
             /\ Untouched(e.pid) => o = ctr
             /\ o \in InvalidUTF8 \/ \E path \in Paths : <<o, path>> \in InvalidUTF8
  <2>1. CASE ReadProcessPanics
    <3>1. PICK e \in work, p \in procs :
            phase \in {"smaps", "io"} /\ p.pid = e.pid /\ ~Valid(phase, e, p)
      BY <2>1 DEF ReadProcessPanics
    <3>2. e \in pids[ctr]
      BY <3>1 DEF ScrapeTypeOK
    <3>3. e.comm \in InvalidUTF8 \/ p.owner \in InvalidUTF8
      BY <3>1 DEF Valid, NodeNames
    <3>4. p.owner \in Owners
      BY DEF ScrapeTypeOK, DiscoveryTypeOK, HostTypeOK, ProcessTables, Process
    <3> DEFINE q == [pid |-> e.pid, owner |-> ctr, comm |-> e.comm]
    <3>5. Untouched(e.pid) => q \in procs
      BY <1>4, <3>2 DEF DiscoveryInv, ScanInv, AttachedProcesses
    <3>6. Untouched(e.pid) => p.owner = ctr
      BY <3>1, <3>5 DEF DiscoveryInv, DiscoveryTypeOK, HostTypeOK, ProcessTables
    <3> QED
      BY <3>2, <3>3, <3>4, <3>6
  <2>2. CASE StatfsPanics
    <3>1. PICK place \in work, o \in FirstOwner :
            phase = "statfs" /\ ~Valid("mountpoint", MountpointAt(place), o)
      BY <2>2 DEF StatfsPanics
    <3>2. PICK e \in pids[ctr] : IsFirst(e, pids[ctr])
      BY DEF FirstOwner
    <3>3. <<root, MountpointAt(place)>> \in InvalidUTF8
      BY <3>1 DEF Valid, NodeNames
    <3>4. work # {}
      BY <3>1
    <3>5. root \in Owners
      BY <3>1, <3>4 DEF ScrapeControl
    <3>6. Untouched(e.pid) => root = ctr
      BY <1>3, <3>1, <3>2, <3>4 DEF RootMatched
    <3>7. MountpointAt(place) \in Paths
      BY <3>1, PathsTyped DEF ScrapeTypeOK
    <3> QED
      BY <3>2, <3>3, <3>5, <3>6, <3>7
  <2> QED
    BY <2>1, <2>2
<1> QED
  BY <1>1, <1>2, <1>4, <1>5 DEF Panic, SentOnce, ErrorsAreExplained, Untouched

LEMMA SentOnceStep ==
  ASSUME ScrapeInv, [ScrapeNext]_svars
  PROVE  SentOnce' /\ ErrorsAreExplained'
<1> USE DEF ScrapeInv, collectVars
<1>1. CASE NodeStep \/ UNCHANGED svars
  <2>1. UNCHANGED <<collectVars, dpc, found, pids>> /\ touched \subseteq touched'
    BY <1>1, HostKeeps
       DEF NodeStep, HostStep, discoveryVars, svars, dvars, hostVars, ScrapeTypeOK,
           DiscoveryTypeOK
  <2>2. \A f \in Families : Pending(f)' = Pending(f)
    BY <2>1 DEF Pending, Families
  <2>3. \A s \in samples : s.series.family \in Families
    BY DEF ScrapeTypeOK, Sample, Series, Families
  <2>4. SentOnce'
    BY <2>1, <2>2, <2>3 DEF SentOnce, Collecting
  <2>5. ErrorsAreExplained'
    BY <2>1 DEF ErrorsAreExplained, Untouched
  <2> QED
    BY <2>4, <2>5
<1>2. CASE Request
  BY <1>2 DEF Request, SentOnce, ErrorsAreExplained
<1>3. CASE Discover
  BY <1>3 DEF Discover, ScrapeControl, SentOnce, ErrorsAreExplained
<1>4. CASE ReadProcessPanics \/ StatfsPanics
  BY <1>4, PanicExplained
<1>5. CASE (Read \/ ReadFiles \/ Restart) /\ ~(ReadProcessPanics \/ StatfsPanics)
  BY <1>5, ReadSends
<1> QED
  BY <1>1, <1>2, <1>3, <1>4, <1>5 DEF ScrapeNext

-----------------------------------------------------------------------------
(***************************************************************************)
(* The theorems.                                                           *)
(***************************************************************************)
LEMMA ScrapeInvInit == ScrapeInit => ScrapeInv
<1> SUFFICES ASSUME ScrapeInit PROVE ScrapeInv
  OBVIOUS
<1>1. ScrapeTypeOK /\ DiscoveryInv
  BY ScrapeTypeInit, DiscoveryInvInit DEF ScrapeInit
<1>2. ScrapeControl /\ SentOnce /\ RootMatched /\ SamplesOfTheirContainer /\ ErrorsAreExplained
  BY DEF ScrapeInit, ScrapeControl, SentOnce, RootMatched, SamplesOfTheirContainer,
         ErrorsAreExplained, Collecting
<1> QED
  BY <1>1, <1>2 DEF ScrapeInv

LEMMA ScrapeInvStep ==
  ASSUME ScrapeInv, [ScrapeNext]_svars
  PROVE  ScrapeInv'
<1>1. ScrapeTypeOK' /\ ScrapeControl'
  BY ScrapeTypeStep, ScrapeControlStep DEF ScrapeInv
<1>2. DiscoveryInv'
  BY ScrapeStepDiscovers, DiscoveryInvStep DEF ScrapeInv
<1>3. SentOnce' /\ ErrorsAreExplained' /\ SamplesOfTheirContainer' /\ RootMatched'
  BY SentOnceStep, SamplesStep
<1> QED
  BY <1>1, <1>2, <1>3 DEF ScrapeInv

(* The inductive invariant of a scrape holds on every node and under every *)
(* configuration.                                                          *)
THEOREM ScrapeInvariant == ScrapeSpec => []ScrapeInv
<1>1. ScrapeInit => ScrapeInv
  BY ScrapeInvInit
<1>2. ScrapeInv /\ [ScrapeNext]_svars => ScrapeInv'
  BY ScrapeInvStep
<1> QED
  BY <1>1, <1>2, PTL DEF ScrapeSpec

(* Every variable of a scrape keeps its type.                              *)
THEOREM ScrapeTypeCorrect == ScrapeSpec => []ScrapeTypeOK
<1>1. ScrapeInv => ScrapeTypeOK
  BY DEF ScrapeInv
<1> QED
  BY <1>1, ScrapeInvariant, PTL

(* A value is read from the container its labels name, as far as the node  *)
(* left the process alone.                                                 *)
THEOREM SamplesCorrect == ScrapeSpec => []SamplesOfTheirContainer
<1>1. ScrapeInv => SamplesOfTheirContainer
  BY DEF ScrapeInv
<1> QED
  BY <1>1, ScrapeInvariant, PTL

(* Only a failed discovery or a path exposed and listed twice fails a      *)
(* scrape; only a name that is not valid UTF-8 ends it with the process.   *)
THEOREM ErrorsCorrect == ScrapeSpec => []ErrorsAreExplained
<1>1. ScrapeInv => ErrorsAreExplained
  BY DEF ScrapeInv
<1> QED
  BY <1>1, ScrapeInvariant, PTL

-----------------------------------------------------------------------------
(***************************************************************************)
(* A good answer is complete.                                              *)
(***************************************************************************)

(* What is owed only ever becomes less.                                    *)
LEMMA OwedKept ==
  ASSUME UNCHANGED pids, touched \subseteq touched', skipped \subseteq skipped',
         NEW c, StableContainer(c)' => StableContainer(c), NEW f \in Families
  PROVE  Owed(c, f)' \subseteq Owed(c, f)
<1>1. Due(c, f)' \subseteq Due(c, f)
  BY DEF Due, Families, FirstLeftAlone, Untouched
<1>2. \A i : PassedOver(c, f, i) => PassedOver(c, f, i)'
  BY DEF PassedOver
<1> QED
  BY <1>1, <1>2 DEF Owed

(* A step of the collection of one container: what it owes is sent or      *)
(* stays pending.                                                          *)
LEMMA CollectServes ==
  ASSUME ScrapeInv, CompleteSoFar, Collecting, Collecting',
         UNCHANGED <<dvars, todo, ctr, response>>,
         NEW family, NEW item, NEW source,
         Send(family, item, source) \/ Quiet,
         \A f \in Families : \A i \in Owed(ctr, f)' : i \in Pending(f) =>
           \/ i \in Pending(f)'
           \/ /\ f = family /\ i = item /\ Send(family, item, source)
              /\ source = SourceOf(ctr, family, item)
  PROVE  CompleteSoFar'
<1>1. UNCHANGED <<dpc, found, pids, touched, ctrState>>
  BY DEF dvars, hostVars, discoveryVars
<1>2. /\ response' # "200" /\ phase' \notin {"idle", "discover", "panicked"}
      /\ phase \notin {"idle", "discover", "panicked"}
  BY DEF CompleteSoFar, Collecting
<1>3. /\ samples \subseteq samples' /\ skipped \subseteq skipped'
      /\ ~gatherErr' => ~gatherErr
  BY DEF Send, Quiet, ScrapeInv, ScrapeTypeOK
<1> SUFFICES ASSUME ~gatherErr', NEW c \in found \ todo, NEW f \in Families,
                    NEW i \in Owed(c, f)'
             PROVE  \/ Exposes(f, c, i, SourceOf(c, f, i))'
                    \/ c = ctr /\ i \in Pending(f)'
  BY <1>1, <1>2, <1>3 DEF CompleteSoFar, SentOrPending
<1>4. i \in Owed(c, f)
  BY <1>1, <1>3, OwedKept DEF StableContainer, Untouched
<1>5. SourceOf(c, f, i)' = SourceOf(c, f, i)
  BY DEF SourceOf
<1>6. \/ Exposes(f, c, i, SourceOf(c, f, i))
      \/ c = ctr /\ i \in Pending(f)
  BY <1>1, <1>2, <1>3, <1>4 DEF CompleteSoFar, SentOrPending
<1>7. CASE Exposes(f, c, i, SourceOf(c, f, i))
  BY <1>3, <1>5, <1>7 DEF Exposes
<1>8. CASE c = ctr /\ i \in Pending(f)
  <2>1. CASE i \in Pending(f)'
    BY <1>8, <2>1
  <2>2. CASE /\ f = family /\ i = item /\ Send(family, item, source)
             /\ source = SourceOf(ctr, family, item)
    BY <1>5, <1>8, <2>2 DEF Send, Exposes
  <2> QED
    BY <1>8, <2>1, <2>2
<1> QED
  BY <1>6, <1>7, <1>8

(* The loops of the collection, phase by phase.                            *)
LEMMA LoopServes ==
  ASSUME ScrapeInv, CompleteSoFar, Collecting,
         \/ FindCgroup \/ FindCgroupFails \/ CgroupDone \/ SmapsDone \/ ProcIoDone
         \/ ReadMountInfo \/ DiskDone \/ Glob
         \/ \E m \in CgroupMetrics : readCgroupMetric(m)
         \/ ReadProcess("smaps") \/ ReadProcess("io")
         \/ Statfs \/ Lstat
  PROVE  CompleteSoFar'
<1>1. UNCHANGED dvars
  BY ReadKeepsDiscovery DEF Read, ReadFiles
<1>2. UNCHANGED <<dpc, found, pids, touched, ctrState, podState, procs>>
  BY <1>1 DEF dvars, hostVars, discoveryVars
<1>3. ctr \in Containers /\ ctr \in found
  BY DEF ScrapeInv, ScrapeTypeOK, DiscoveryTypeOK
<1>4. ASSUME FirstLeftAlone(ctr) PROVE FirstOwner = {ctr} /\ pids[ctr] # {}
  BY <1>3, <1>4, FirstOwnerIsCtr DEF FirstLeftAlone, ScrapeInv
<1>5. CASE FindCgroup \/ FindCgroupFails
  <2>1. /\ phase = "cgroup" /\ phase' \in {"cgroupFiles", "smaps"}
        /\ UNCHANGED <<todo, ctr, response>> /\ Quiet
    BY <1>5, QuietSteps DEF FindCgroup, FindCgroupFails, Quiet
  <2>2. ASSUME NEW f \in Families, NEW i \in Owed(ctr, f)', i \in Pending(f)
        PROVE  i \in Pending(f)'
    <3>1. CASE FindCgroup
      BY <1>2, <2>1, <2>2, <3>1 DEF FindCgroup, Pending, Families
    <3>2. CASE FindCgroupFails /\ f # "cgroup"
      BY <1>2, <2>1, <2>2, <3>2 DEF FindCgroupFails, Pending, Families
    <3>3. CASE FindCgroupFails /\ f = "cgroup"
      <4>1. StableContainer(ctr)' /\ ~PassedOver(ctr, "cgroup", i)'
        BY <2>1, <2>2, <3>3 DEF Owed, Due
      <4>2. ctrState[ctr] = "running"
        BY <1>2, <2>1, <4>1 DEF StableContainer
      <4>3. <<"cgroup", ctr>> \in skipped'
        BY <3>3, <4>2, QuietSteps DEF FindCgroupFails
      <4> QED
        BY <2>1, <4>1, <4>3 DEF PassedOver
    <3> QED
      BY <1>5, <3>1, <3>2, <3>3
  <2> QED
    BY <1>1, <2>1, <2>2, CollectServes DEF Collecting
<1>6. CASE CgroupDone \/ SmapsDone \/ ProcIoDone
  <2>1. /\ phase' \in {"smaps", "io", "mountinfo"}
        /\ UNCHANGED <<todo, ctr, response>> /\ Quiet
    BY <1>6 DEF CgroupDone, SmapsDone, ProcIoDone, Goto, Quiet
  <2>2. ASSUME NEW f \in Families, NEW i \in Owed(ctr, f)', i \in Pending(f)
        PROVE  i \in Pending(f)'
    BY <1>2, <1>6, <2>1, <2>2
       DEF CgroupDone, SmapsDone, ProcIoDone, Goto, Pending, Families
  <2> QED
    BY <1>1, <2>1, <2>2, CollectServes DEF Collecting
<1>7. CASE ReadMountInfo
  <2>1. /\ phase = "mountinfo" /\ phase' = "statfs"
        /\ UNCHANGED <<todo, ctr, response>> /\ Quiet
    BY <1>7, QuietSteps DEF ReadMountInfo, Quiet
  <2>2. ASSUME NEW f \in Families, NEW i \in Owed(ctr, f)', i \in Pending(f)
        PROVE  i \in Pending(f)'
    <3>1. CASE f = "mountpoint"
      <4>1. i \in Due(ctr, "mountpoint")' /\ ~PassedOver(ctr, "mountpoint", i)'
        BY <2>1, <2>2, <3>1 DEF Owed
      <4>2. PICK place \in MountpointPaths(Label(ctr)) :
              i = MountpointAt(place) /\ FirstLeftAlone(ctr)'
              /\ MountpointAt(place) \in Mounts[ctr]
        BY <2>1, <4>1 DEF Due
      <4>3. FirstOwner = {ctr}
        BY <1>2, <1>4, <2>1, <4>2 DEF FirstLeftAlone, Untouched
      <4>4. <<"mountpoint", ctr>> \notin skipped'
        BY <2>1, <4>1 DEF PassedOver
      <4>5. work' = {q \in MountpointPaths(Label(ctr)) : MountpointAt(q) \in Mounts[ctr]}
        BY <1>7, <4>3, <4>4, QuietSteps DEF ReadMountInfo
      <4>6. place \in work'
        BY <4>2, <4>5
      <4> QED
        BY <2>1, <3>1, <4>2, <4>6 DEF Pending
    <3>2. CASE f # "mountpoint"
      BY <1>2, <2>1, <2>2, <3>2 DEF Pending, Families
    <3> QED
      BY <3>1, <3>2
  <2> QED
    BY <1>1, <2>1, <2>2, CollectServes DEF Collecting
<1>8. CASE DiskDone
  <2>1. /\ phase = "statfs" /\ phase' = "glob" /\ work = {}
        /\ (pids[ctr] # {} => work' = FileMetricPaths(Label(ctr)))
        /\ UNCHANGED <<todo, ctr, response>> /\ Quiet
    BY <1>8 DEF DiskDone, Goto, Quiet
  <2>2. ASSUME NEW f \in Families, NEW i \in Owed(ctr, f)', i \in Pending(f)
        PROVE  i \in Pending(f)'
    <3>1. CASE f = "file"
      <4>1. FirstLeftAlone(ctr)'
        BY <2>1, <2>2, <3>1 DEF Owed, Due
      <4>2. FirstLeftAlone(ctr)
        BY <1>2, <2>1, <4>1 DEF FirstLeftAlone, Untouched
      <4> QED
        BY <1>4, <2>1, <2>2, <3>1, <4>2 DEF Pending
    <3>2. CASE f # "file"
      BY <1>2, <2>1, <2>2, <3>2 DEF Pending, Families
    <3> QED
      BY <3>1, <3>2
  <2> QED
    BY <1>1, <2>1, <2>2, CollectServes DEF Collecting
<1>9. CASE Glob
  <2>1. PICK place \in work :
          \/ FileAt(place) \in Malformed /\ work' = work \ {place} /\ UNCHANGED phase
          \/ phase' = "lstat" /\ UNCHANGED work
    BY <1>9 DEF Glob
  <2>2. /\ phase = "glob" /\ UNCHANGED <<todo, ctr, response>> /\ Quiet
        /\ phase' \in {"glob", "lstat"}
    BY <1>9, QuietSteps DEF Glob, Quiet
  <2>3. ASSUME NEW f \in Families, NEW i \in Owed(ctr, f)', i \in Pending(f)
        PROVE  i \in Pending(f)'
    <3>1. CASE f = "file"
      <4>1. PICK q \in work : i = FileAt(q)
        BY <2>2, <2>3, <3>1 DEF Pending
      <4>2. i \notin Malformed
        BY <2>3, <3>1 DEF Owed, Due
      <4>3. q \in work'
        BY <2>1, <4>1, <4>2
      <4> QED
        BY <2>2, <3>1, <4>1, <4>3 DEF Pending
    <3>2. CASE f # "file"
      BY <1>2, <2>2, <2>3, <3>2 DEF Pending, Families
    <3> QED
      BY <3>1, <3>2
  <2> QED
    BY <1>1, <2>2, <2>3, CollectServes DEF Collecting
<1>10. ASSUME NEW m \in CgroupMetrics, readCgroupMetric(m) PROVE CompleteSoFar'
  <2>1. /\ phase = "cgroupFiles" /\ m \in work /\ work' = work \ {m}
        /\ UNCHANGED <<phase, todo, ctr, response>>
        /\ \/ ctrState[ctr] = "running" /\ Send("cgroup", m, ctr)
           \/ ctrState[ctr] = "running" /\ Quiet /\ <<"cgroup", ctr, m>> \in skipped'
           \/ ctrState[ctr] # "running" /\ Quiet
    BY <1>10, QuietSteps DEF readCgroupMetric
  <2>2. ASSUME NEW f \in Families, NEW i \in Owed(ctr, f)', i \in Pending(f)
        PROVE  \/ i \in Pending(f)'
               \/ f = "cgroup" /\ i = m /\ Send("cgroup", m, ctr)
                  /\ ctr = SourceOf(ctr, "cgroup", m)
    <3>1. CASE f = "cgroup" /\ i = m
      <4>1. StableContainer(ctr)' /\ ~PassedOver(ctr, "cgroup", m)'
        BY <2>1, <2>2, <3>1 DEF Owed, Due
      <4>2. ctrState[ctr] = "running" /\ <<"cgroup", ctr, m>> \notin skipped'
        BY <1>2, <2>1, <4>1 DEF StableContainer, PassedOver
      <4> QED
        BY <2>1, <3>1, <4>2 DEF SourceOf
    <3>2. CASE ~(f = "cgroup" /\ i = m)
      BY <1>2, <2>1, <2>2, <3>2 DEF Pending, Families
    <3> QED
      BY <3>1, <3>2
  <2> QED
    BY <1>1, <2>1, <2>2, CollectServes DEF Collecting
<1>11. ASSUME NEW file \in {"smaps", "io"}, ReadProcess(file) PROVE CompleteSoFar'
  <2>1. PICK e \in work :
          /\ phase = file /\ work' = work \ {e}
          /\ UNCHANGED <<phase, todo, ctr, response>>
          /\ \/ \E p \in procs : p.pid = e.pid /\ Send(file, e, p)
             \/ Quiet /\ (~Alive(e.pid) \/ <<file, ctr, e>> \in skipped')
    BY <1>11, QuietSteps DEF ReadProcess
  <2>2. e \in pids[ctr]
    BY <2>1 DEF ScrapeInv, ScrapeTypeOK
  <2> DEFINE q == [pid |-> e.pid, owner |-> ctr, comm |-> e.comm]
  <2>3. Untouched(e.pid) => q \in procs
    BY <1>3, <2>2 DEF ScrapeInv, DiscoveryInv, ScanInv, AttachedProcesses
  <2>4. PICK source : \/ source \in procs /\ source.pid = e.pid /\ Send(file, e, source)
                      \/ Quiet /\ (~Alive(e.pid) \/ <<file, ctr, e>> \in skipped')
    BY <2>1
  <2>5. Untouched(e.pid) /\ <<file, ctr, e>> \notin skipped' =>
          source = q /\ Send(file, e, source)
    BY <2>3, <2>4
       DEF Alive, ScrapeInv, DiscoveryInv, DiscoveryTypeOK, HostTypeOK, ProcessTables
  <2>6. ASSUME NEW f \in Families, NEW i \in Owed(ctr, f)', i \in Pending(f)
        PROVE  \/ i \in Pending(f)'
               \/ f = file /\ i = e /\ Send(file, e, source)
                  /\ source = SourceOf(ctr, file, e)
    <3>1. CASE f = file /\ i = e
      <4>1. Untouched(e.pid) /\ <<file, ctr, e>> \notin skipped'
        BY <1>2, <2>1, <2>6, <3>1 DEF Owed, Due, Untouched, PassedOver
      <4> QED
        BY <2>5, <3>1, <4>1 DEF SourceOf
    <3>2. CASE ~(f = file /\ i = e)
      BY <1>2, <2>1, <2>6, <3>2 DEF Pending, Families
    <3> QED
      BY <3>1, <3>2
  <2>7. Send(file, e, source) \/ Quiet
    BY <2>4
  <2> QED
    BY <1>1, <2>1, <2>6, <2>7, CollectServes DEF Collecting
<1>12. CASE Statfs
  <2>1. PICK place \in work :
          /\ phase = "statfs" /\ work' = work \ {place}
          /\ UNCHANGED <<phase, todo, ctr, response>>
          /\ \/ \E o \in FirstOwner : Send("mountpoint", MountpointAt(place), o)
             \/ /\ Quiet
                /\ \/ \A o \in FirstOwner : MountpointAt(place) \notin Mounts[o]
                   \/ <<"mountpoint", ctr, MountpointAt(place)>> \in skipped'
    BY <1>12, QuietSteps DEF Statfs
  <2>2. PICK o : \/ o \in FirstOwner /\ Send("mountpoint", MountpointAt(place), o)
                 \/ /\ Quiet
                    /\ \/ \A r \in FirstOwner : MountpointAt(place) \notin Mounts[r]
                       \/ <<"mountpoint", ctr, MountpointAt(place)>> \in skipped'
    BY <2>1
  <2>3. ASSUME NEW f \in Families, NEW i \in Owed(ctr, f)', i \in Pending(f)
        PROVE  \/ i \in Pending(f)'
               \/ f = "mountpoint" /\ i = MountpointAt(place)
                  /\ Send("mountpoint", MountpointAt(place), o)
                  /\ o = SourceOf(ctr, "mountpoint", MountpointAt(place))
    <3>1. CASE f = "mountpoint" /\ i = MountpointAt(place)
      <4>1. /\ FirstLeftAlone(ctr)' /\ i \in Mounts[ctr]
            /\ <<"mountpoint", ctr, i>> \notin skipped'
        BY <2>1, <2>3, <3>1 DEF Owed, Due, PassedOver
      <4>2. FirstOwner = {ctr}
        BY <1>2, <1>4, <2>1, <4>1 DEF FirstLeftAlone, Untouched
      <4> QED
        BY <2>2, <3>1, <4>1, <4>2 DEF SourceOf
    <3>2. CASE f = "mountpoint" /\ i # MountpointAt(place)
      <4>1. PICK r \in work : i = MountpointAt(r)
        BY <2>1, <2>3, <3>2 DEF Pending
      <4>2. r \in work' /\ phase' = "statfs"
        BY <2>1, <3>2, <4>1
      <4> QED
        BY <3>2, <4>1, <4>2 DEF Pending
    <3>3. CASE f # "mountpoint"
      BY <1>2, <2>1, <2>3, <3>3 DEF Pending, Families
    <3> QED
      BY <3>1, <3>2, <3>3
  <2>4. Send("mountpoint", MountpointAt(place), o) \/ Quiet
    BY <2>2
  <2> QED
    BY <1>1, <2>1, <2>3, <2>4, CollectServes DEF Collecting
<1>13. CASE Lstat
  <2>1. PICK place \in work, source \in FirstOwner \cup {Nothing} :
          /\ IsFirstPlace(place, work)
          /\ root \in FirstOwner => source = root
          /\ phase = "lstat" /\ phase' = "glob" /\ work' = work \ {place}
          /\ UNCHANGED <<todo, ctr, response>>
          /\ Send("file", FileAt(place), source)
    BY <1>13 DEF Lstat
  <2>2. ASSUME NEW f \in Families, NEW i \in Owed(ctr, f)', i \in Pending(f)
        PROVE  \/ i \in Pending(f)'
               \/ f = "file" /\ i = FileAt(place)
                  /\ Send("file", FileAt(place), source)
                  /\ source = SourceOf(ctr, "file", FileAt(place))
    <3>1. CASE f = "file" /\ i = FileAt(place)
      <4>1. PICK e \in pids[ctr] : IsFirst(e, pids[ctr]) /\ Untouched(e.pid)
        BY <1>2, <2>1, <2>2, <3>1 DEF Owed, Due, FirstLeftAlone, Untouched
      <4>2. ~PassedOver(ctr, "file", FileAt(place))
        BY <2>1, <2>2, <3>1 DEF Owed, PassedOver, Send
      <4>3. root = ctr
        BY <2>1, <4>1, <4>2 DEF ScrapeInv, RootMatched
      <4>4. FirstOwner = {ctr}
        BY <1>4, <4>1 DEF FirstLeftAlone
      <4> QED
        BY <2>1, <3>1, <4>3, <4>4 DEF SourceOf
    <3>2. CASE f = "file" /\ i # FileAt(place)
      <4>1. PICK r \in work : i = FileAt(r)
        BY <2>1, <2>2, <3>2 DEF Pending
      <4>2. r \in work' /\ phase' = "glob"
        BY <2>1, <3>2, <4>1
      <4> QED
        BY <3>2, <4>1, <4>2 DEF Pending
    <3>3. CASE f # "file"
      BY <1>2, <2>1, <2>2, <3>3 DEF Pending, Families
    <3> QED
      BY <3>1, <3>2, <3>3
  <2> QED
    BY <1>1, <2>1, <2>2, CollectServes DEF Collecting
<1> QED
  BY <1>5, <1>6, <1>7, <1>8, <1>9, <1>10, <1>11, <1>12, <1>13

LEMMA CompleteSoFarStep ==
  ASSUME ScrapeInv, CompleteSoFar, [ScrapeNext]_svars
  PROVE  CompleteSoFar'
<1> USE DEF collectVars
<1>0. found \subseteq Containers
  BY DEF ScrapeInv, ScrapeTypeOK, DiscoveryTypeOK
<1>1. CASE NodeStep \/ UNCHANGED svars
  <2>1. UNCHANGED <<collectVars, dpc, found, pids>> /\ touched \subseteq touched'
        /\ \A c \in Containers : StableContainer(c)' => StableContainer(c)
    BY <1>1, StableBefore
       DEF NodeStep, HostStep, discoveryVars, svars, dvars, hostVars, ScrapeInv,
           ScrapeTypeOK, DiscoveryTypeOK, StableContainer, Untouched
  <2>2. \A c \in Containers : \A f \in Families : Owed(c, f)' \subseteq Owed(c, f)
    BY <2>1, OwedKept
  <2>3. \A f \in Families : Pending(f)' = Pending(f)
    BY <2>1 DEF Pending, Families
  <2>4. \A c \in Containers : \A f \in Families :
          SentOrPending(c, f) => SentOrPending(c, f)'
    BY <2>1, <2>2, <2>3 DEF SentOrPending, Exposes, Collecting, SourceOf
  <2> QED
    BY <1>0, <2>1, <2>4 DEF CompleteSoFar
<1>2. CASE Request \/ Discover \/ Restart \/ ReadProcessPanics \/ StatfsPanics
  <2>1. phase' \in {"idle", "discover", "panicked"} /\ response' # "200"
    BY <1>2 DEF Request, Discover, Restart, ReadProcessPanics, StatfsPanics, Panic,
                CompleteSoFar
  <2> QED
    BY <2>1 DEF CompleteSoFar
<1>3. CASE DiscoveryFailed \/ ContainersDiscovered
  <2>1. /\ response' # "200" /\ phase' \in {"gather", "container"}
        /\ gatherErr' = TRUE \/ (dpc = "done" /\ todo' = found)
        /\ UNCHANGED <<dpc, found>>
    BY <1>3 DEF DiscoveryFailed, ContainersDiscovered, CompleteSoFar, dvars, discoveryVars
  <2> QED
    BY <2>1 DEF CompleteSoFar
<1>4. ASSUME NEW c \in Containers, NextContainer(c) PROVE CompleteSoFar'
  <2>1. /\ phase = "container" /\ phase' = "cgroup" /\ ctr' = c /\ todo' = todo \ {c}
        /\ UNCHANGED <<dvars, samples, gatherErr, response, skipped>>
    BY <1>4 DEF NextContainer
  <2>2. UNCHANGED <<dpc, found, pids, touched, ctrState>>
    BY <2>1 DEF dvars, hostVars, discoveryVars
  <2>3. \A d \in Containers : \A f \in Families : Owed(d, f)' \subseteq Owed(d, f)
    BY <2>1, <2>2, OwedKept DEF StableContainer, Untouched
  <2>4. ASSUME NEW f \in Families PROVE SentOrPending(c, f)'
    <3>1. Due(c, f)' \subseteq Pending(f)'
      BY <2>1, <2>2 DEF Due, Pending, Families
    <3> QED
      BY <2>1, <3>1 DEF SentOrPending, Collecting, Owed
  <2>5. ASSUME NEW d \in Containers, NEW f \in Families, SentOrPending(d, f)
        PROVE  SentOrPending(d, f)'
    BY <2>1, <2>3, <2>5 DEF SentOrPending, Collecting, Exposes, SourceOf
  <2> QED
    BY <1>0, <2>1, <2>2, <2>4, <2>5 DEF CompleteSoFar
<1>5. CASE FilesDone \/ CollectReturns \/ Respond
  <2>1. /\ ~Collecting' /\ UNCHANGED <<dvars, todo, samples, gatherErr, skipped>>
        /\ phase \notin {"idle", "discover", "panicked"} /\ phase' # "discover"
        /\ response' = "200" => (phase' = "idle" /\ ~gatherErr) \/ response = "200"
        /\ Collecting => phase = "glob" /\ work = {}
    BY <1>5 DEF FilesDone, CollectReturns, Respond, Collecting
  <2>2. UNCHANGED <<dpc, found, pids, touched, ctrState>>
    BY <2>1 DEF dvars, hostVars, discoveryVars
  <2>3. Collecting => \A f \in Families : Pending(f) = {}
    BY <2>1 DEF Pending, Families
  <2>4. \A d \in Containers : \A f \in Families : Owed(d, f)' \subseteq Owed(d, f)
    BY <2>1, <2>2, OwedKept DEF StableContainer, Untouched
  <2>5. ASSUME NEW d \in Containers, NEW f \in Families, SentOrPending(d, f)
        PROVE  SentOrPending(d, f)'
    BY <2>1, <2>3, <2>4, <2>5 DEF SentOrPending, Exposes, SourceOf
  <2> QED
    BY <1>0, <2>1, <2>2, <2>5 DEF CompleteSoFar
<1>6. CASE /\ Read \/ ReadFiles
           /\ ~(DiscoveryFailed \/ ContainersDiscovered)
           /\ ~(\E c \in Containers : NextContainer(c))
           /\ ~(FilesDone \/ CollectReturns \/ Respond)
           /\ ~(ReadProcessPanics \/ StatfsPanics)
  <2>1. \/ FindCgroup \/ FindCgroupFails \/ CgroupDone \/ SmapsDone \/ ProcIoDone
        \/ ReadMountInfo \/ DiskDone \/ Glob
        \/ \E m \in CgroupMetrics : readCgroupMetric(m)
        \/ ReadProcess("smaps") \/ ReadProcess("io")
        \/ Statfs \/ Lstat
    BY <1>6 DEF Read, ReadFiles
  <2>2. Collecting
    BY <2>1
       DEF FindCgroup, FindCgroupFails, CgroupDone, SmapsDone, ProcIoDone,
           ReadMountInfo, DiskDone, Glob, readCgroupMetric, ReadProcess, Statfs, Lstat,
           Collecting
  <2> QED
    BY <2>1, <2>2, LoopServes
<1> QED
  BY <1>1, <1>2, <1>3, <1>4, <1>5, <1>6 DEF ScrapeNext

(* Nothing that was left alone is missing from a good answer, but for the  *)
(* reads that failed: each costs its own metrics (collector.go:38-74).     *)
THEOREM AnswersComplete == ScrapeSpec => []ServedComplete
<1>1. ScrapeInit => CompleteSoFar
  BY DEF ScrapeInit, DiscoveryInit, CompleteSoFar
<1>2. ScrapeInv /\ CompleteSoFar /\ [ScrapeNext]_svars => CompleteSoFar'
  BY CompleteSoFarStep
<1>3. ScrapeInv /\ CompleteSoFar => ServedComplete
  <2> SUFFICES ASSUME ScrapeInv, CompleteSoFar, response = "200" PROVE ServedComplete
    BY DEF ServedComplete
  <2>1. phase = "idle" /\ ~gatherErr /\ dpc = "done" /\ todo = {}
    BY DEF CompleteSoFar, ScrapeInv, ScrapeControl
  <2>2. ASSUME NEW c \in Containers, StableContainer(c), MatchesContainer(Label(c)),
               <<"pod", PodOf[c]>> \notin lost
        PROVE  \A f \in Families : \A i \in Due(c, f) :
                 Served(c, f, i, SourceOf(c, f, i))
    <3>1. c \in found
      BY <2>1, <2>2
         DEF ScrapeInv, DiscoveryInv, ListingInv, StableContainersFound, Listed
    <3> QED
      BY <2>1, <3>1 DEF CompleteSoFar, SentOrPending, Collecting, Owed, Served
  <2>3. ASSUME NEW c \in Containers, StableContainer(c), MatchesContainer(Label(c)),
               <<"pod", PodOf[c]>> \notin lost, NEW m \in CgroupMetrics
        PROVE  Served(c, "cgroup", m, c)
    <3>1. m \in Due(c, "cgroup")
      BY <2>3 DEF Due
    <3> QED
      BY <2>2, <2>3, <3>1 DEF Families, SourceOf
  <2>4. ASSUME NEW c \in Containers, StableContainer(c), MatchesContainer(Label(c)),
               <<"pod", PodOf[c]>> \notin lost, <<"procDir">> \notin lost,
               NEW p \in procs, p.owner = c, Untouched(p.pid),
               MatchesProcess(Label(c), p.comm),
               NEW e, e = [pid |-> p.pid, comm |-> p.comm]
        PROVE  /\ Served(c, "smaps", e, p)
               /\ Served(c, "io", e, p)
               /\ IsFirst(e, pids[c]) => FirstLeftAlone(c)
    <3>1. c \in found
      BY <2>1, <2>4
         DEF ScrapeInv, DiscoveryInv, ListingInv, StableContainersFound, Listed
    <3>2. e \in pids[c] /\ Untouched(e.pid)
      BY <2>1, <2>4, <3>1 DEF ScrapeInv, DiscoveryInv, ScanInv, StableProcessesAttached
    <3>3. p = [pid |-> e.pid, owner |-> c, comm |-> e.comm]
      BY <2>4 DEF ScrapeInv, DiscoveryInv, DiscoveryTypeOK, HostTypeOK, ProcessTables,
                  Process
    <3>4. e \in Due(c, "smaps") /\ e \in Due(c, "io")
      BY <3>2 DEF Due
    <3>5. Served(c, "smaps", e, SourceOf(c, "smaps", e))
          /\ Served(c, "io", e, SourceOf(c, "io", e))
      BY <2>2, <2>4, <3>4 DEF Families
    <3>6. SourceOf(c, "smaps", e) = p /\ SourceOf(c, "io", e) = p
      BY <3>3 DEF SourceOf
    <3> QED
      BY <3>2, <3>5, <3>6 DEF FirstLeftAlone
  <2>5. ASSUME NEW c \in Containers, StableContainer(c), MatchesContainer(Label(c)),
               <<"pod", PodOf[c]>> \notin lost, FirstLeftAlone(c)
        PROVE  /\ \A place \in MountpointPaths(Label(c)) :
                    MountpointAt(place) \in Mounts[c] =>
                      Served(c, "mountpoint", MountpointAt(place), c)
               /\ \A place \in FileMetricPaths(Label(c)) :
                    FileAt(place) \notin Malformed =>
                      Served(c, "file", FileAt(place), c)
    <3>1. ASSUME NEW place \in MountpointPaths(Label(c)), MountpointAt(place) \in Mounts[c]
          PROVE  MountpointAt(place) \in Due(c, "mountpoint")
      BY <2>5, <3>1 DEF Due
    <3>2. ASSUME NEW place \in FileMetricPaths(Label(c)), FileAt(place) \notin Malformed
          PROVE  FileAt(place) \in Due(c, "file")
      BY <2>5, <3>2 DEF Due
    <3> QED
      BY <2>2, <2>5, <3>1, <3>2 DEF Families, SourceOf
  <2> QED
    BY <2>1, <2>3, <2>4, <2>5 DEF ServedComplete
<1> QED
  BY <1>1, <1>2, <1>3, ScrapeInvariant, PTL DEF ScrapeSpec

-----------------------------------------------------------------------------
(***************************************************************************)
(* A scrape implements the contract.                                       *)
(***************************************************************************)
OneValue == \A s, t \in samples : s.series = t.series => s = t

LEMMA OneValueStep ==
  ASSUME OneValue, [ScrapeNext]_svars
  PROVE  OneValue'
<1> USE DEF OneValue, collectVars
<1>1. CASE NodeStep \/ Discover \/ UNCHANGED svars
  BY <1>1 DEF NodeStep, Discover, svars
<1>2. CASE Request
  BY <1>2 DEF Request
<1>3. CASE Read \/ ReadFiles \/ Restart
  <2>1. ASSUME NEW family, NEW item, NEW source, Send(family, item, source)
        PROVE  OneValue'
    BY <2>1 DEF Send
  <2>2. CASE UNCHANGED samples
    BY <2>2
  <2>3. ASSUME NEW m \in CgroupMetrics, readCgroupMetric(m) PROVE OneValue'
    BY <2>1, <2>2, <2>3 DEF readCgroupMetric, SendNothing, PassOver
  <2>4. CASE ReadProcess("smaps") \/ ReadProcess("io")
    BY <2>1, <2>2, <2>4 DEF ReadProcess, SendNothing, PassOver
  <2>5. CASE Statfs \/ Lstat
    BY <2>1, <2>2, <2>5 DEF Statfs, Lstat, SendNothing, PassOver
  <2>6. CASE ReadProcessPanics \/ StatfsPanics
    BY <2>6 DEF ReadProcessPanics, StatfsPanics, Panic
  <2> QED
    BY <1>3, <2>2, <2>3, <2>4, <2>5, <2>6
       DEF Read, ReadFiles, DiscoveryFailed, ContainersDiscovered, NextContainer, FindCgroup,
           FindCgroupFails, CgroupDone, SmapsDone, ProcIoDone, ReadMountInfo, DiskDone,
           Glob, FilesDone, CollectReturns, Respond, Goto, Restart, SendNothing, PassOver
<1> QED
  BY <1>1, <1>2, <1>3 DEF ScrapeNext

LEMMA ExposedValue ==
  ASSUME OneValue, NEW s \in samples
  PROVE  s.series \in DOMAIN Exposed /\ Exposed[s.series] = s.source
BY DEF Exposed, OneValue

(* A metric sent, unless of a series met before, is one value more.        *)
LEMMA ExposeStep ==
  ASSUME ScrapeInv, OneValue, OneValue', Collecting, phase' \notin {"idle", "panicked"},
         NEW sample, sample \in samples', samples' = samples \cup {sample},
         \A s \in samples : s.series # sample.series,
         ScrapeInv', UNCHANGED gatherErr
  PROVE  Contract!Expose
<1> DEFINE m == sample.series
<1>1. sample \in Sample
  BY DEF ScrapeInv, ScrapeTypeOK
<1>2. m \in Series /\ sample.source \in Owners \cup Process \cup {Nothing}
  BY <1>1 DEF Sample
<1>3. m \notin DOMAIN Exposed
  BY DEF Exposed
<1>4. m.label \in {l \in ContainerLabels : MatchesContainer(l)}
  <2>1. PICK c \in found' : m.label = Label(c)
    BY DEF ScrapeInv, SamplesOfTheirContainer, TakenFrom
  <2>2. c \in Containers /\ MatchesContainer(Label(c))
    BY <2>1 DEF ScrapeInv, ScrapeTypeOK, DiscoveryTypeOK, DiscoveryInv, ListingInv,
                FoundWereRunning
  <2> QED
    BY <2>1, <2>2 DEF ContainerLabels
<1>5. /\ DOMAIN Exposed' = DOMAIN Exposed \cup {m}
      /\ Exposed'[m] = sample.source
      /\ \A n \in DOMAIN Exposed : Exposed'[n] = Exposed[n]
  <2>1. DOMAIN Exposed' = DOMAIN Exposed \cup {m}
    BY DEF Exposed
  <2>2. \A s \in samples' : Exposed'[s.series] = s.source
    BY DEF Exposed, OneValue
  <2>3. \A s \in samples : Exposed[s.series] = s.source
    BY ExposedValue
  <2>4. \A n \in DOMAIN Exposed : \E s \in samples : n = s.series
    BY DEF Exposed
  <2> QED
    BY <2>1, <2>2, <2>3, <2>4
<1>6. UNCHANGED Status /\ Status \in {"collecting", "broken"}
  BY DEF Status, Collecting
<1> QED
  BY <1>2, <1>3, <1>4, <1>5, <1>6 DEF Contract!Expose

LEMMA SendContract ==
  ASSUME ScrapeInv, ScrapeInv', OneValue, OneValue', Collecting,
         phase' \notin {"idle", "panicked"},
         NEW family, NEW item, NEW source,
         Send(family, item, source) \/ Quiet
  PROVE  [Contract!Next]_Contract!contractVars
<1> DEFINE sample == [series |-> [family |-> family, label |-> Label(ctr), item |-> item],
                      source |-> source]
<1>1. CASE samples' = samples \cup {sample} /\ UNCHANGED gatherErr
           /\ \A s \in samples : s.series # sample.series
  BY <1>1, ExposeStep DEF Contract!Next
<1>2. CASE UNCHANGED samples /\ gatherErr'
  <2>1. UNCHANGED Exposed /\ Status' = "broken" /\ Status \in {"collecting", "broken"}
    BY <1>2 DEF Exposed, Status, Collecting
  <2> QED
    BY <2>1 DEF Contract!Next, Contract!Break, Contract!contractVars
<1>3. CASE UNCHANGED <<samples, gatherErr>>
  BY <1>3 DEF Exposed, Status, Contract!contractVars, Collecting
<1> QED
  BY <1>1, <1>2, <1>3 DEF Send, Quiet

LEMMA ContractStep ==
  ASSUME ScrapeInv, ScrapeInv', OneValue, OneValue', [ScrapeNext]_svars
  PROVE  [Contract!Next]_Contract!contractVars
<1> USE DEF collectVars
<1>1. CASE /\ UNCHANGED <<samples, gatherErr, response>>
           /\ phase \in {"idle", "panicked"} <=> phase' \in {"idle", "panicked"}
  BY <1>1 DEF Exposed, Status, Contract!contractVars
<1>2. CASE NodeStep \/ Discover \/ Restart \/ UNCHANGED svars
  BY <1>1, <1>2 DEF NodeStep, Discover, Restart, svars
<1>3. CASE Request
  <2>1. Status = response /\ response \in {"none", "200", "500"} /\ Status' = "collecting"
    BY <1>3 DEF Request, Status, ScrapeInv, ScrapeTypeOK
  <2>2. Exposed' = [m \in {} |-> {}]
    BY <1>3 DEF Request, Exposed
  <2> QED
    BY <2>1, <2>2 DEF Contract!Next, Contract!Request
<1>4. CASE DiscoveryFailed
  <2>1. UNCHANGED Exposed /\ Status = "collecting" /\ Status' = "broken"
    BY <1>4 DEF DiscoveryFailed, Exposed, Status, ScrapeInv, ScrapeControl
  <2> QED
    BY <2>1 DEF Contract!Next, Contract!Break
<1>5. CASE Respond
  <2>1. UNCHANGED Exposed
    BY <1>5 DEF Respond, Exposed
  <2>2. \/ Status = "broken" /\ Status' = "500"
        \/ Status = "collecting" /\ Status' = "200"
    BY <1>5 DEF Respond, Status
  <2> QED
    BY <2>1, <2>2 DEF Contract!Next, Contract!Serve, Contract!Fail
<1>6. CASE ReadProcessPanics \/ StatfsPanics
  <2>1. Panic /\ phase \notin {"idle", "panicked"}
    BY <1>6 DEF ReadProcessPanics, StatfsPanics
  <2>2. response = "none"
    BY <2>1 DEF ScrapeInv, ScrapeControl
  <2>3. Status \in {"collecting", "broken"} /\ Status' = "none"
    BY <2>1, <2>2 DEF Panic, Status
  <2>4. Exposed' = [m \in {} |-> {}]
    BY <2>1 DEF Panic, Exposed
  <2> QED
    BY <2>3, <2>4 DEF Contract!Next, Contract!Crash
<1>7. ASSUME NEW m \in CgroupMetrics, readCgroupMetric(m)
      PROVE  [Contract!Next]_Contract!contractVars
  <2>1. /\ Send("cgroup", m, ctr) \/ Quiet
        /\ phase = "cgroupFiles" /\ phase' = phase
    BY <1>7, QuietSteps DEF readCgroupMetric
  <2> QED
    BY <2>1, SendContract DEF Collecting
<1>8. ASSUME NEW file \in {"smaps", "io"}, ReadProcess(file)
      PROVE  [Contract!Next]_Contract!contractVars
  <2>1. /\ (\E e, p : Send(file, e, p)) \/ Quiet
        /\ phase = file /\ phase' = phase
    BY <1>8, QuietSteps DEF ReadProcess
  <2> QED
    BY <2>1, SendContract DEF Collecting
<1>9. CASE Statfs
  <2>1. /\ (\E path, o : Send("mountpoint", path, o)) \/ Quiet
        /\ phase = "statfs" /\ phase' = phase
    BY <1>9, QuietSteps DEF Statfs
  <2> QED
    BY <2>1, SendContract DEF Collecting
<1>10. CASE Lstat
  <2>1. /\ \E path, o : Send("file", path, o)
        /\ phase = "lstat" /\ phase' = "glob"
    BY <1>10 DEF Lstat
  <2> QED
    BY <2>1, SendContract DEF Collecting
<1>11. CASE ContainersDiscovered \/ FindCgroup \/ FindCgroupFails \/ CgroupDone
            \/ SmapsDone \/ ProcIoDone \/ ReadMountInfo \/ DiskDone \/ Glob \/ FilesDone
            \/ CollectReturns \/ \E c \in Containers : NextContainer(c)
  BY <1>1, <1>11
     DEF ContainersDiscovered, FindCgroup, FindCgroupFails, CgroupDone, SmapsDone,
         ProcIoDone, ReadMountInfo, DiskDone, Glob, FilesDone, CollectReturns,
         NextContainer, Goto, SendNothing, PassOver
<1> QED
  BY <1>2, <1>3, <1>4, <1>5, <1>6, <1>7, <1>8, <1>9, <1>10, <1>11
     DEF ScrapeNext, Read, ReadFiles

(* Whatever happens on the node, each answer is collected from nothing,    *)
(* has one value for a series, only series of selected containers, and is  *)
(* served as collected, or not at all after an error.                      *)
THEOREM ScrapeImplementsContract == ScrapeSpec => ImplementsContract
<1>1. ScrapeInit => Contract!Init
  BY DEF ScrapeInit, Contract!Init, Status, Exposed
<1>2. ScrapeInit => OneValue
  BY DEF ScrapeInit, OneValue
<1>3. OneValue /\ [ScrapeNext]_svars => OneValue'
  BY OneValueStep
<1>4. ScrapeInv /\ ScrapeInv' /\ OneValue /\ OneValue' /\ [ScrapeNext]_svars
        => [Contract!Next]_Contract!contractVars
  BY ContractStep
<1> QED
  BY <1>1, <1>2, <1>3, <1>4, ScrapeInvariant, PTL
     DEF ScrapeSpec, ImplementsContract, Contract!Spec
=============================================================================
