------------------------------- MODULE Scrape -------------------------------
(***************************************************************************)
(* One request to /metrics: Collector.Collect (collector.go) discovers the *)
(* containers and then reads, container by container, the files of the     *)
(* cgroup, of every process and of the first process, sending a metric for *)
(* each; the registry gathers them and the handler answers.  What cannot   *)
(* be read is logged and passed over; a metric that cannot be made panics. *)
(*                                                                         *)
(* Collect keeps no state between requests and requests share none, so one *)
(* request at a time stands for them all.                                  *)
(***************************************************************************)
EXTENDS Discovery

CONSTANTS
  CgroupMetrics, \* the metrics whose cgroup file the kernel provides
  Mounts,        \* the mountpoints in the mount namespace of an owner
  Malformed,     \* the file patterns doublestar rejects
  InvalidUTF8,   \* what has a name that is not valid UTF-8: a comm itself, an
                 \* owner for the files its processes map, an owner and a
                 \* mountpoint for the source mounted there
  Nothing,       \* no container, and the source of a value for which nothing
                 \* could be read
  MaxFaults      \* bound: reads that fail in one scrape

ASSUME ScrapeAssumption ==
  /\ Mounts \in [Owners -> SUBSET Paths]
  /\ Malformed \subseteq Paths
  /\ InvalidUTF8 \subseteq Comms \cup Owners \cup (Owners \X Paths)
  /\ Nothing \notin Owners
  /\ MaxFaults \in Nat

VARIABLES
  phase,      \* control point of Collect
  todo,       \* containers still to be collected
  ctr,        \* the container being collected, or Nothing
  work,       \* what the present loop has still to read for it
  root,       \* whose mountinfo was read, or in whose root directory the
              \* pattern under way was matched
  samples,    \* the metrics gathered
  gatherErr,  \* the registry has met an error
  response,   \* the status of the answer
  skipped     \* what was there and could not be read, which is only logged

collectVars == <<phase, todo, ctr, work, root, samples, gatherErr, response, skipped>>
svars == <<dvars, collectVars>>

(***************************************************************************)
(* A metric: its name and labels (the series), and the source its value    *)
(* was read from.  The metrics one read yields together have one series    *)
(* here: "cgroup" by file, "smaps" and "io" by process, "mountpoint" and   *)
(* "file" by path.                                                         *)
(***************************************************************************)
ContainerLabels == {Label(c) : c \in Containers}

Series ==
  [family : {"cgroup"}, label : ContainerLabels, item : CgroupMetrics] \cup
  [family : {"smaps", "io"}, label : ContainerLabels, item : ProcessInfo] \cup
  [family : {"mountpoint", "file"}, label : ContainerLabels, item : Paths]

Families == {"cgroup", "smaps", "io", "mountpoint", "file"}

(* The phases in which ctr is the container being collected.               *)
Collecting == phase \notin {"idle", "discover", "container", "gather", "panicked"}

Sample == [series : Series, source : Owners \cup Process \cup {Nothing}]

ScrapeTypeOK ==
  /\ DiscoveryTypeOK
  /\ phase \in {"idle", "discover", "container", "cgroup", "cgroupFiles", "smaps",
                "io", "mountinfo", "statfs", "glob", "lstat", "gather", "panicked"}
  /\ todo \subseteq found
  /\ ctr \in IF Collecting THEN found ELSE {Nothing}
  /\ phase = "cgroupFiles" => work \subseteq CgroupMetrics
  /\ phase \in {"smaps", "io"} => work \subseteq pids[ctr]
  /\ phase = "statfs" => work \subseteq MountpointPaths(Label(ctr))
  /\ phase \in {"glob", "lstat"} => work \subseteq FileMetricPaths(Label(ctr))
  /\ root \in Owners \cup {Nothing}
  /\ \A s \in samples : s \in Sample
  /\ gatherErr \in BOOLEAN
  /\ response \in {"none", "200", "500"}
  /\ skipped \subseteq
       (Families \X found) \cup (Families \X found \X (CgroupMetrics \cup ProcessInfo \cup Paths))

ScrapeInit ==
  /\ DiscoveryInit
  /\ phase = "idle"
  /\ todo = {}
  /\ ctr = Nothing
  /\ work = {}
  /\ root = Nothing
  /\ samples = {}
  /\ gatherErr = FALSE
  /\ response = "none"
  /\ skipped = {}

(***************************************************************************)
(* Sending a metric.  MustNewConstMetric makes one only of labels that are *)
(* valid UTF-8, and some of them are names as the node shows them.  The    *)
(* registry keeps the metrics of a series it has not met before and turns  *)
(* a second one into an error.                                             *)
(***************************************************************************)
NodeNames(family, item, source) ==
  CASE family = "smaps"      -> {item.comm, source.owner}
    [] family = "io"         -> {item.comm}
    [] family = "mountpoint" -> {<<root, item>>}
    [] OTHER                 -> {}

Valid(family, item, source) == NodeNames(family, item, source) \cap InvalidUTF8 = {}

Send(family, item, source) ==
  LET series == [family |-> family, label |-> Label(ctr), item |-> item]
  IN  /\ Valid(family, item, source)
      /\ UNCHANGED skipped
      /\ IF \E s \in samples : s.series = series
         THEN gatherErr' = TRUE /\ UNCHANGED samples
         ELSE /\ samples' = samples \cup {[series |-> series, source |-> source]}
              /\ UNCHANGED gatherErr

SendNothing == UNCHANGED <<samples, gatherErr, skipped>>

(* A read fails although what it reads is there: an error of the kernel or *)
(* of a file system, or a content that cannot be parsed.  It is logged.    *)
PassOver(what) ==
  /\ Cardinality(skipped) < MaxFaults
  /\ skipped' = skipped \cup {what}
  /\ UNCHANGED <<samples, gatherErr>>

(* What was, according to skipped: the item, or all of its family.         *)
PassedOver(c, family, item) ==
  <<family, c>> \in skipped \/ <<family, c, item>> \in skipped

(* The loop has nothing left to read and Collect goes on.                  *)
Goto(next, newWork) ==
  /\ work = {}
  /\ phase' = next
  /\ work' = newWork
  /\ root' = Nothing
  /\ UNCHANGED <<dvars, todo, ctr, samples, gatherErr, response, skipped>>

-----------------------------------------------------------------------------
(* Mutant: the metrics of the request before are not dropped.              *)
Request_KeepSamples ==
  /\ phase = "idle"
  /\ Begin
  /\ phase' = "discover"
  /\ gatherErr' = FALSE
  /\ response' = "none"
  /\ skipped' = {}
  /\ UNCHANGED <<todo, ctr, work, root, samples>>

Request ==
  /\ phase = "idle"
  /\ Begin
  /\ phase' = "discover"
  /\ samples' = {}
  /\ gatherErr' = FALSE
  /\ response' = "none"
  /\ skipped' = {}
  /\ UNCHANGED <<todo, ctr, work, root>>

Discover ==
  /\ phase = "discover"
  /\ Listing \/ Scanning
  /\ UNCHANGED collectVars

(* An invalid metric is sent, which is an error to the registry.           *)
DiscoveryFailed ==
  /\ phase = "discover"
  /\ dpc = "failed"
  /\ gatherErr' = TRUE
  /\ phase' = "gather"
  /\ UNCHANGED <<dvars, todo, ctr, work, root, samples, response, skipped>>

(* Without containers Collect returns at once and sends nothing.           *)
ContainersDiscovered ==
  /\ phase = "discover"
  /\ dpc = "done"
  /\ todo' = found
  /\ phase' = "container"
  /\ UNCHANGED <<dvars, ctr, work, root, samples, gatherErr, response, skipped>>

NextContainer(c) ==
  /\ phase = "container"
  /\ c \in todo
  /\ ctr' = c
  /\ todo' = todo \ {c}
  /\ phase' = "cgroup"
  /\ UNCHANGED <<dvars, work, root, samples, gatherErr, response, skipped>>

-----------------------------------------------------------------------------
(* collectCgroupMetrics.  The walk through the cgroup tree finds the scope *)
(* of the container as long as it runs, unless it fails at some directory, *)
(* for instance at one that has vanished since it was seen.                *)
FindCgroup ==
  /\ phase = "cgroup"
  /\ ctrState[ctr] = "running"
  /\ phase' = "cgroupFiles"
  /\ work' = CgroupMetrics
  /\ UNCHANGED <<dvars, todo, ctr, root, samples, gatherErr, response, skipped>>

FindCgroupFails ==
  /\ phase = "cgroup"
  /\ IF ctrState[ctr] = "running" THEN PassOver(<<"cgroup", ctr>>) ELSE SendNothing
  /\ phase' = "smaps"
  /\ work' = pids[ctr]
  /\ UNCHANGED <<dvars, todo, ctr, root, response>>

(* Every metric opens its file anew; the order of the table is immaterial. *)
readCgroupMetric(m) ==
  /\ phase = "cgroupFiles"
  /\ m \in work
  /\ work' = work \ {m}
  /\ IF ctrState[ctr] = "running"
     THEN Send("cgroup", m, ctr) \/ PassOver(<<"cgroup", ctr, m>>)
     ELSE SendNothing
  /\ UNCHANGED <<dvars, phase, todo, ctr, root, response>>

CgroupDone == phase = "cgroupFiles" /\ Goto("smaps", pids[ctr])

(* Mutants: a process that is gone ends the loop, or is tried again; the   *)
(* PID is not among the labels.                                            *)
ReadProcess_Return(file) ==
  /\ phase = file
  /\ \E e \in work :
       /\ IsFirst(e, work)
       /\ \/ work' = work \ {e} /\ \E p \in procs : p.pid = e.pid /\ Send(file, e, p)
          \/ work' = {} /\ ~Alive(e.pid) /\ SendNothing
          \/ work' = {} /\ Alive(e.pid) /\ PassOver(<<file, ctr, e>>)
  /\ UNCHANGED <<dvars, phase, todo, ctr, root, response>>

ReadProcess_NoPid(file) ==
  /\ phase = file
  /\ \E e \in work :
       /\ IsFirst(e, work)
       /\ work' = work \ {e}
       /\ \/ \E p \in procs : p.pid = e.pid /\ Send(file, [comm |-> e.comm], p)
          \/ ~Alive(e.pid) /\ SendNothing
          \/ Alive(e.pid) /\ PassOver(<<file, ctr, e>>)
  /\ UNCHANGED <<dvars, phase, todo, ctr, root, response>>

ReadProcess_Retry(file) ==
  /\ phase = file
  /\ \E e \in work :
       /\ IsFirst(e, work)
       /\ \/ work' = work \ {e} /\ \E p \in procs : p.pid = e.pid /\ Send(file, e, p)
          \/ UNCHANGED work /\ ~Alive(e.pid) /\ SendNothing
  /\ UNCHANGED <<dvars, phase, todo, ctr, root, response>>

(* collectSmapsMetrics and collectProcIoMetrics: one file of each process, *)
(* in the order of the scan.  The labels are what the scan recorded, the   *)
(* values are those of the process that has the pid by now.                *)
ReadProcess(file) ==
  /\ phase = file
  /\ \E e \in work :
       /\ IsFirst(e, work)
       /\ work' = work \ {e}
       /\ \/ \E p \in procs : p.pid = e.pid /\ Send(file, e, p)
          \/ ~Alive(e.pid) /\ SendNothing
          \/ Alive(e.pid) /\ PassOver(<<file, ctr, e>>)
  /\ UNCHANGED <<dvars, phase, todo, ctr, root, response>>

SmapsDone == phase = "smaps" /\ Goto("io", pids[ctr])

ProcIoDone == phase = "io" /\ Goto("mountinfo", {})

-----------------------------------------------------------------------------
(* container.PIDs[0], which stands for the container's file system: the    *)
(* owner of the process that has its pid by now, or Nothing.               *)
FirstOwner ==
  {p.owner : p \in {q \in procs : \E e \in pids[ctr] :
                                   IsFirst(e, pids[ctr]) /\ q.pid = e.pid}}

(* collectDiskMetrics: mountinfo is read once, and each listed mountpoint  *)
(* found in it is then asked for.  Without processes there is nothing to   *)
(* read, as when the first has exited.                                     *)
ReadMountInfo ==
  /\ phase = "mountinfo"
  /\ \/ \E o \in FirstOwner :
          /\ root' = o
          /\ work' = {place \in MountpointPaths(Label(ctr)) :
                        MountpointAt(place) \in Mounts[o]}
          /\ SendNothing
     \/ FirstOwner = {} /\ UNCHANGED <<root, work>> /\ SendNothing
     \/ FirstOwner # {} /\ UNCHANGED <<root, work>> /\ PassOver(<<"mountpoint", ctr>>)
  /\ phase' = "statfs"
  /\ UNCHANGED <<dvars, todo, ctr, response>>

(* The lists are worked off in their order.                                *)
IsFirstPlace(p, places) ==
  \A q \in places : p[1] < q[1] \/ (p[1] = q[1] /\ p[2] <= q[2])

(* A path that is no mountpoint of the process now behind the pid may be a *)
(* directory of its file system or may be missing; and a file system may   *)
(* refuse to answer.                                                       *)
Statfs ==
  /\ phase = "statfs"
  /\ \E place \in work :
       /\ IsFirstPlace(place, work)
       /\ work' = work \ {place}
       /\ \/ \E o \in FirstOwner : Send("mountpoint", MountpointAt(place), o)
          \/ /\ \A o \in FirstOwner : MountpointAt(place) \notin Mounts[o]
             /\ SendNothing
          \/ /\ \E o \in FirstOwner : MountpointAt(place) \in Mounts[o]
             /\ PassOver(<<"mountpoint", ctr, MountpointAt(place)>>)
  /\ UNCHANGED <<dvars, phase, todo, ctr, root, response>>

DiskDone ==
  /\ phase = "statfs"
  /\ Goto("glob", IF pids[ctr] # {} THEN FileMetricPaths(Label(ctr)) ELSE {})

(* collectFileMetrics: a pattern is matched below the root directory of    *)
(* the first process.  A root that is gone, or cannot be read, has no      *)
(* matches.                                                                *)
Glob ==
  /\ phase = "glob"
  /\ \E place \in work :
       /\ IsFirstPlace(place, work)
       /\ IF FileAt(place) \in Malformed
          THEN work' = work \ {place} /\ UNCHANGED <<phase, root, skipped>>
          ELSE /\ \/ root' \in FirstOwner /\ UNCHANGED skipped
                  \/ FirstOwner = {} /\ root' = Nothing /\ UNCHANGED skipped
                  \/ /\ FirstOwner # {} /\ root' = Nothing
                     /\ PassOver(<<"file", ctr, FileAt(place)>>)
               /\ phase' = "lstat"
               /\ UNCHANGED work
  /\ UNCHANGED <<dvars, todo, ctr, samples, gatherErr, response>>

(* Every match is then examined under its full path.  What cannot be read  *)
(* any more, or not in another root, adds nothing, and the sum is sent all *)
(* the same.  A match that cannot be examined counts as none.              *)
Lstat ==
  /\ phase = "lstat"
  /\ \E place \in work, source \in FirstOwner \cup {Nothing} :
       /\ IsFirstPlace(place, work)
       /\ root = Nothing => source = Nothing
       /\ root \in FirstOwner => source = root
       /\ Send("file", FileAt(place), source)
       /\ work' = work \ {place}
  /\ root' = Nothing
  /\ phase' = "glob"
  /\ UNCHANGED <<dvars, todo, ctr, response>>

FilesDone ==
  /\ phase = "glob"
  /\ work = {}
  /\ phase' = "container"
  /\ ctr' = Nothing
  /\ UNCHANGED <<dvars, todo, work, root, samples, gatherErr, response, skipped>>

-----------------------------------------------------------------------------
(* Collect returns, ...                                                    *)
CollectReturns ==
  /\ phase = "container"
  /\ todo = {}
  /\ phase' = "gather"
  /\ UNCHANGED <<dvars, todo, ctr, work, root, samples, gatherErr, response, skipped>>

(* ... and promhttp answers: any error fails the whole request.            *)
Respond ==
  /\ phase = "gather"
  /\ response' = IF gatherErr THEN "500" ELSE "200"
  /\ phase' = "idle"
  /\ UNCHANGED <<dvars, todo, ctr, work, root, samples, gatherErr, skipped>>

-----------------------------------------------------------------------------
(* MustNewConstMetric panics over a name that is not valid UTF-8.  Nobody  *)
(* recovers it in the goroutine the registry collects in, so that it ends  *)
(* the process, and every request with it.  Patterns are at least one      *)
(* character long here.                                                    *)
Panic ==
  /\ phase' = "panicked"
  /\ todo' = {}
  /\ ctr' = Nothing
  /\ work' = {}
  /\ root' = Nothing
  /\ samples' = {}
  /\ gatherErr' = FALSE
  /\ UNCHANGED <<dvars, response, skipped>>

ReadProcessPanics ==
  /\ phase \in {"smaps", "io"}
  /\ \E e \in work, p \in procs :
       IsFirst(e, work) /\ p.pid = e.pid /\ ~Valid(phase, e, p)
  /\ Panic

StatfsPanics ==
  /\ phase = "statfs"
  /\ \E place \in work, o \in FirstOwner :
       IsFirstPlace(place, work) /\ ~Valid("mountpoint", MountpointAt(place), o)
  /\ Panic

(* The DaemonSet starts the exporter again.                                *)
Restart ==
  /\ phase = "panicked"
  /\ phase' = "idle"
  /\ UNCHANGED <<dvars, todo, ctr, work, root, samples, gatherErr, response, skipped>>

-----------------------------------------------------------------------------
NodeStep == HostStep /\ UNCHANGED collectVars

Read ==
  \/ DiscoveryFailed \/ ContainersDiscovered
  \/ \E c \in Containers : NextContainer(c)
  \/ FindCgroup \/ FindCgroupFails \/ CgroupDone
  \/ \E m \in CgroupMetrics : readCgroupMetric(m)
  \/ ReadProcess("smaps") \/ SmapsDone
  \/ ReadProcess("io") \/ ProcIoDone
  \/ ReadMountInfo \/ DiskDone \/ FilesDone
  \/ CollectReturns \/ Respond \/ ReadProcessPanics

(* Calls to the file systems of a container.                               *)
ReadFiles == Statfs \/ StatfsPanics \/ Glob \/ Lstat

ScrapeNext ==
  NodeStep \/ Request \/ Discover \/ Read \/ ReadFiles \/ Restart

ScrapeSpec == ScrapeInit /\ [][ScrapeNext]_svars

(***************************************************************************)
(* Fairness.  The goroutine takes its steps, and files of /proc and of the *)
(* cgroup tree are read without waiting for anything; the timer of the     *)
(* context fires and a call whose context has expired returns, though the  *)
(* runtime owes no answer and nothing makes the node change.               *)
(* statfs, the match of a pattern and lstat have no fairness: they wait    *)
(* for a file system that may be remote, and no deadline is set on them.   *)
(* Nobody has to ask for another scrape or to start the exporter again.    *)
(***************************************************************************)
ScrapeFairSpec ==
  /\ ScrapeSpec
  /\ WF_svars(Discover /\ Deadline)
  /\ WF_svars(Discover /\ AbortedCall)
  /\ WF_svars(Discover /\ Scanning)
  /\ WF_svars(Read)

-----------------------------------------------------------------------------
(***************************************************************************)
(* Properties.                                                             *)
(***************************************************************************)

TakenFrom(c, s) ==
  /\ s.series.label = Label(c)
  /\ s.series.family = "cgroup" => s.source = c
  /\ s.series.family \in {"smaps", "io"} =>
       /\ s.series.item \in pids[c]
       /\ Untouched(s.series.item.pid) =>
            s.source = [pid |-> s.series.item.pid, owner |-> c, comm |-> s.series.item.comm]
  /\ s.series.family \in {"mountpoint", "file"} =>
       \E e \in pids[c] :
         /\ IsFirst(e, pids[c])
         /\ Untouched(e.pid) =>
              s.source = c \/ (s.source = Nothing /\ PassedOver(c, "file", s.series.item))

(* What a value says of a container is read from that container: always    *)
(* for the cgroup, whose path holds the container's ID, and for the files  *)
(* of a process and of its root directory as long as the pid was not given *)
(* away since the scan (collector.go:81-346).                              *)
SamplesOfTheirContainer == \A s \in samples : \E c \in found : TakenFrom(c, s)

Exposes(family, c, item, source) ==
  [series |-> [family |-> family, label |-> Label(c), item |-> item],
   source |-> source] \in samples

Served(c, family, item, source) ==
  PassedOver(c, family, item) \/ Exposes(family, c, item, source)

(* An answer of status 200 is complete up to what was logged and passed    *)
(* over: every metric of a selected container that ran all along, of each  *)
(* of its selected processes that did, and, if that holds for the first of *)
(* them, of each listed mountpoint and file pattern.  A read that fails    *)
(* costs its own metrics and no others (collector.go:38-74, 164-177,       *)
(* 220-233, 285-288).                                                      *)
ServedComplete ==
  response = "200" =>
    /\ dpc = "done"
    /\ \A c \in Containers :
         /\ StableContainer(c)
         /\ MatchesContainer(Label(c))
         /\ <<"pod", PodOf[c]>> \notin lost
         =>
         /\ \A m \in CgroupMetrics : Served(c, "cgroup", m, c)
         /\ <<"procDir">> \notin lost =>
              \A p \in procs :
                /\ p.owner = c
                /\ Untouched(p.pid)
                /\ MatchesProcess(Label(c), p.comm)
                =>
                LET e == [pid |-> p.pid, comm |-> p.comm]
                IN  /\ Served(c, "smaps", e, p)
                    /\ Served(c, "io", e, p)
                    /\ IsFirst(e, pids[c]) =>
                         /\ \A place \in MountpointPaths(Label(c)) :
                              MountpointAt(place) \in Mounts[c] =>
                                Served(c, "mountpoint", MountpointAt(place), c)
                         /\ \A place \in FileMetricPaths(Label(c)) :
                              FileAt(place) \notin Malformed =>
                                Served(c, "file", FileAt(place), c)

ListedTwice(series) ==
  \/ series.family = "mountpoint" /\ MountpointListedTwice(series.label, series.item)
  \/ series.family = "file" /\ FileListedTwice(series.label, series.item)

(* What spoils a scrape.  The registry meets an error only if the          *)
(* discovery failed or a path exposed is listed twice for its container:   *)
(* restarts, reused pids and changed names never produce two metrics of    *)
(* one series (config.go:150-173, kubernetes.go:55-164).  The process      *)
(* panics only over a name of a container it collects: its process, a file *)
(* mapped by it or a mount, or, if the pid was given away since the scan,  *)
(* what has the pid now (collector.go:78-100).                             *)
ErrorsAreExplained ==
  /\ gatherErr => dpc = "failed" \/ \E s \in samples : ListedTwice(s.series)
  /\ phase = "panicked" =>
       \E c \in found : \E e \in pids[c] :
         \/ e.comm \in InvalidUTF8
         \/ \E o \in Owners :
              /\ Untouched(e.pid) => o = c
              /\ o \in InvalidUTF8 \/ \E path \in Paths : <<o, path>> \in InvalidUTF8

(* A request is what ScrapeContract promises.                              *)
Exposed ==
  [series \in {s.series : s \in samples} |->
     (CHOOSE s \in samples : s.series = series).source]

Status ==
  IF phase \in {"idle", "panicked"} THEN response
  ELSE IF gatherErr THEN "broken" ELSE "collecting"

Contract == INSTANCE ScrapeContract
  WITH Metrics <- Series, Sources <- Owners \cup Process \cup {Nothing},
       Selected <- {l \in ContainerLabels : MatchesContainer(l)},
       status <- Status, exposed <- Exposed

ImplementsContract == Contract!Spec

(* Every scrape ends, with an answer or with the process, though the       *)
(* runtime may never answer and the node changes under it, unless a call   *)
(* to a file system of the container never returns (collector.go:16, 285,  *)
(* 313, 322).                                                              *)
ScrapeEnds ==
  []<>(phase \notin {"statfs", "glob", "lstat"}) =>
    []<>(phase \in {"idle", "panicked"})

-----------------------------------------------------------------------------
(***************************************************************************)
(* What the repository says of a scrape and the code does not do.          *)
(***************************************************************************)

(* "Fail the scrape rather than expose an incomplete result"               *)
(* (collector.go:45), "a scrape always sees one complete and current       *)
(* collection" (collector.go:20): no selected container that ran all along *)
(* is missing from an answer of status 200.                                *)
CompleteOrFailed ==
  response = "200" =>
    \A c \in Containers :
      StableContainer(c) /\ MatchesContainer(Label(c)) => c \in found

(* "every response reflects the state at the time of the request"          *)
(* (README.md:14): a value exposed for a process is that of the process    *)
(* its labels name.                                                        *)
ProcessValuesAreCurrent ==
  response = "200" =>
    \A s \in samples :
      s.series.family \in {"smaps", "io"} => s.source.comm = s.series.item.comm

(* "When a wildcard matches multiple files, the metric value is the sum of *)
(* all matching files" (METRICS.md:162), "all processes in a container     *)
(* share the same mount namespace" (collector.go:253): a container with a  *)
(* process that was there all along has its files measured.                *)
FilesAreMeasured ==
  response = "200" =>
    \A s \in samples :
      (s.series.family = "file" /\ s.source = Nothing) =>
        ~ \E c \in found : /\ Label(c) = s.series.label
                           /\ \E e \in pids[c] : Untouched(e.pid)

(* "If any filter matches, the container is monitored"                     *)
(* (examples/example-config.yaml:20): only a failed discovery keeps the    *)
(* metrics of the matched containers from being exposed.                   *)
AnyMatchIsMonitored == response = "500" => dpc = "failed"

-----------------------------------------------------------------------------
(***************************************************************************)
(* Why the safety properties hold: what is true between the steps.         *)
(***************************************************************************)
ScrapeControl ==
  /\ phase \in {"idle", "discover", "gather", "panicked"} => todo = {}
  /\ phase = "discover" => samples = {} /\ ~gatherErr
  /\ Collecting => ctr \notin todo
  /\ phase = "mountinfo" => work = {}
  /\ phase \in {"glob", "lstat"} /\ work # {} => pids[ctr] # {}
  /\ phase = "statfs" /\ work # {} => root \in Owners
  /\ phase # "idle" => response = "none"

(* What of a family may still be sent for the present container.           *)
Pending(family) ==
  LET before(phases) == phase \in {"cgroup"} \cup phases
  IN  CASE family = "cgroup" ->
             IF phase = "cgroupFiles" THEN work
             ELSE IF before({}) THEN CgroupMetrics ELSE {}
        [] family = "smaps" ->
             IF phase = "smaps" THEN work
             ELSE IF before({"cgroupFiles"}) THEN pids[ctr] ELSE {}
        [] family = "io" ->
             IF phase = "io" THEN work
             ELSE IF before({"cgroupFiles", "smaps"}) THEN pids[ctr] ELSE {}
        [] family = "mountpoint" ->
             {MountpointAt(place) : place \in
                IF phase = "statfs" THEN work
                ELSE IF before({"cgroupFiles", "smaps", "io", "mountinfo"})
                     THEN MountpointPaths(Label(ctr)) ELSE {}}
        [] family = "file" ->
             {FileAt(place) : place \in
                IF phase \in {"glob", "lstat"} THEN work
                ELSE FileMetricPaths(Label(ctr))}

(* A sample belongs to a container that was collected, and is not to be    *)
(* sent again for it unless its path is listed again.                      *)
SentOnce ==
  \A s \in samples : \E c \in found \ todo :
    /\ s.series.label = Label(c)
    /\ Collecting /\ c = ctr /\ ~ListedTwice(s.series) =>
         s.series.item \notin Pending(s.series.family)

(* mountinfo was that of the container, and the pattern under way was      *)
(* matched in its file system.                                             *)
RootMatched ==
  Collecting =>
  \A e \in pids[ctr] :
    IsFirst(e, pids[ctr]) /\ Untouched(e.pid) =>
      /\ phase = "statfs" /\ work # {} => root = ctr
      /\ phase = "lstat" =>
           \/ root = ctr
           \/ root = Nothing /\ \A place \in work :
                IsFirstPlace(place, work) => PassedOver(ctr, "file", FileAt(place))

ScrapeInv ==
  /\ ScrapeTypeOK
  /\ DiscoveryInv
  /\ ScrapeControl
  /\ SentOnce
  /\ RootMatched
  /\ SamplesOfTheirContainer
  /\ ErrorsAreExplained

-----------------------------------------------------------------------------
(***************************************************************************)
(* Why an answer is complete: what a container is owed has been sent or is *)
(* still to be sent.                                                       *)
(***************************************************************************)
FirstLeftAlone(c) == \E e \in pids[c] : IsFirst(e, pids[c]) /\ Untouched(e.pid)

Due(c, family) ==
  CASE family = "cgroup" -> {m \in CgroupMetrics : StableContainer(c)}
    [] family \in {"smaps", "io"} -> {e \in pids[c] : Untouched(e.pid)}
    [] family = "mountpoint" ->
         {MountpointAt(place) : place \in
            {q \in MountpointPaths(Label(c)) :
               FirstLeftAlone(c) /\ MountpointAt(q) \in Mounts[c]}}
    [] family = "file" ->
         {FileAt(place) : place \in
            {q \in FileMetricPaths(Label(c)) :
               FirstLeftAlone(c) /\ FileAt(q) \notin Malformed}}

Owed(c, family) == {item \in Due(c, family) : ~PassedOver(c, family, item)}

(* Whose value it has to be.                                               *)
SourceOf(c, family, item) ==
  IF family \in {"smaps", "io"}
  THEN [pid |-> item.pid, owner |-> c, comm |-> item.comm]
  ELSE c

SentOrPending(c, family) ==
  \A item \in Owed(c, family) :
    \/ Exposes(family, c, item, SourceOf(c, family, item))
    \/ Collecting /\ c = ctr /\ item \in Pending(family)

CompleteSoFar ==
  /\ response = "200" => phase = "idle" /\ ~gatherErr /\ dpc = "done"
  /\ phase \notin {"idle", "discover", "panicked"} /\ ~gatherErr => dpc = "done"
  /\ /\ phase \notin {"idle", "discover", "panicked"} \/ response = "200"
     /\ ~gatherErr
     => \A c \in found \ todo : \A family \in Families : SentOrPending(c, family)
=============================================================================
