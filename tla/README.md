# A TLA+ model of container-resource-exporter

The exporter answers each request to `/metrics` by looking at the node it runs
on: it asks the container runtime (CRI) which containers run, looks through
`/proc` for their processes, and then reads the files of each cgroup and each
process. It keeps nothing between requests. What makes it hard to get right is
that the node does not hold still while it is looked at: containers restart,
processes exit, PIDs are given to other processes, CRI calls fail or hang. No
test of the repository covers any of this (there are no tests), so this is what
the model is about. Beside it the repository has two load tools, `openbao-tools`
and `contour-tools`, whose goroutines share counters, lists and standard output;
they are modelled too.

## 1. Inventory

| Component | Source | State it keeps | Operations | What makes it correct |
|---|---|---|---|---|
| Configuration filters | `config.go` 137-196 | the filter list, constant after start-up | `MatchesContainer`, `MatchesProcess`, `FileMetricPaths`, `MountpointPaths` | who is selected, and by which filter |
| Configuration loading | `config.go` 42-135, 198-214 | none | `LoadConfig`, `applyDefaults`, `Validate`, `detectCRISocket` | what is accepted is complete; what is rejected has a fault |
| Container discovery | `kubernetes.go` | the containers and PIDs found, local to one call | `DiscoverContainers`, `populateContainerProcesses`, the reads of a process | reports what runs, all of it, under labels that tell containers apart |
| Collector | `collector.go` | none between scrapes | `Collect` and its five `collect...` functions | values belong to the container and process the labels name; nothing is missing from a good answer |
| Registry and HTTP handler | `client_golang`, from `main.go` 66-71 | the metrics of one request | gather, answer | a series sent twice fails the request; a label that is not valid UTF-8 ends the process |
| Cgroup lookup | `cgroup.go` 17-60 | none | `FindCgroup` | finds the container's scope in a changing tree |
| Cgroup and proc files | `cgroup.go` 62-129, `iostat.go`, `procio.go` | none | `ReadInteger`, ..., `ReadIoStat`, `ParseProcIO` | values of one scrape go together; a missing file costs only its own metrics |
| Mountpoints | `mountinfo.go`, `collector.go` 248-303 | none | `ParseMountInfo`, `collectDiskMetrics` | labels and sizes are of one file system |
| File sizes | `collector.go` 305-346 | none | `collectFileMetrics` | the sum is one of the files that were there |
| Smaps aggregation | `smaps.go` | a map by path, local to one call | `ParseSmaps` | each mapping is counted once, under its path |
| Metric descriptors | `metrics.go` | constant tables | read by `Collect` | each value has a series of its own, and the labels its metric wants |
| Process lifecycle | `main.go` | the HTTP server | start, serve, shut down on a signal | a signal ends the process, at whatever point it comes |
| OpenBao tool | `examples/openbao/tools` | a list of keys, a counter, a pool of workers; what the server stores outlives a command | `kv-write`, `mix`, `bulk-delete` | what is listed is stored; nothing is overwritten or lost track of; deletion ends, with nothing left |
| Contour tool | `examples/contour/tools` | metrics of the requests, a ticker, a signal handler, a pool of workers | the traffic commands, `stats` | the last print is complete; a signal ends the run; percentiles are those of the requests |

Interaction: the HTTP handler's `Gather` calls `Collector.Collect`, which calls
`KubernetesClient.DiscoverContainers` through a function value and sends
metrics over a channel to the registry, in a goroutine of which nothing recovers
a panic. The only shared mutable state is the
node itself, which all parts read and none writes. Requests share nothing, so
concurrent ones cannot disturb each other and the model serves one at a time.
The tools are programs of their own, and meet the exporter nowhere: they put a
load on services whose containers it measures. Within a tool the worker pool of
`echoclient` calls functions that share a list, a counter or the metrics, and
three goroutines print the metrics.

The hard behaviours, listed line by line as `hazards` in `PROJECT.json`:

* every read is a snapshot used later (sandboxes before containers, PIDs before
  the files of the PID, mountinfo before statfs);
* failures are passed over with a log line in some places and fail the scrape
  in others;
* one deadline covers all CRI calls and nothing else;
* the labels of a series are names, which a restarted container shares with its
  predecessor;
* filter lists are combined without looking for duplicates;
* labels are names as the node shows them, and one that is not valid UTF-8 makes
  the registry's goroutine panic;
* files, mounts, memory mappings and cgroups are read piece by piece while the
  containers change them;
* the exporter may be told to stop while it starts, or while a scrape hangs;
* a request of a tool is refused, lost, or executed after the tool has given it
  up or has ended, and a list of keys is old when it is used;
* main, a ticker and a signal handler of a tool print the same metrics.

## 2. Modules

| Module | Models | Extends |
|---|---|---|
| `Filters` | the filters and the questions asked of them | |
| `Host` | the node: sandboxes, containers, process table, and how they change (external) | `Filters` |
| `Discovery` | `DiscoverContainers`, its properties and the inductive invariant | `Host` |
| `Scrape` | `Collect`, the registry's duplicate check and the answer: *whose* values | `Discovery` |
| `ScrapeContract` | abstract specification: what a request promises | |
| `CgroupWalk` | the walk of `FindCgroup` through a tree that changes | |
| `MetricTables` | the tables of `metrics.go` for the cgroup and io files | |
| `Readings` | what `Collect` exposes of one container and process: *which* values | `MetricTables` |
| `Mountpoints` | `ParseMountInfo`, `collectDiskMetrics`, mounts and unmounts | |
| `FileSums` | `collectFileMetrics` over a directory that changes | |
| `Smaps` | `ParseSmaps` over memory that changes | |
| `Startup` | `LoadConfig` on a node that comes up | |
| `Exporter` | `main`, the signal, the server's shutdown, requests in flight | |
| `Process` | the whole process: `main` goes on with what `LoadConfig` returned | `Startup`, `Exporter` |
| `KvTools` | the commands of the OpenBao tool that change what is stored, and the server | |
| `ContourTools` | a run of the Contour tool: the frame `withMetrics`, or `stats` | |
| `DiscoveryProofs`, `ScrapeProofs`, `MountpointsProofs`, `KvToolsProofs` | the theorems about the module of that name | the module and `TLAPS` |
| `CgroupProofs` | the theorems about `CgroupWalk` and `Readings` | `CgroupWalk`, `Readings`, `TLAPS` |
| `SumsProofs` | facts about sums; the theorems about `Smaps` and `FileSums` | `Smaps`, `FileSums`, `TLAPS` |
| `ContourToolsProofs` | the theorems about `ContourTools` | `ContourTools`, `SumsProofs` |
| `ProcessProofs` | the theorems about `Startup`, `Exporter` and `Process` | `Process`, `TLAPS` |
| `MC...` | the instances for TLC | |

`Scrape` composes `Discovery` with the collection. Its single steps are opened
up by the others: `FindCgroup` by `CgroupWalk`, `readCgroupMetric` by
`Readings`, `ReadProcess("smaps")` by `Smaps`, `ReadMountInfo` and `Statfs` by
`Mountpoints`, `Glob` and `Lstat` by `FileSums`. `Exporter` has a scrape as a
request that may take for ever, and `LoadConfig` as one step; `Process` replaces
that step by the steps of `Startup`.

### State and code

`Host` has the sandbox states (`podState`), container states (`ctrState`; a
running container has its cgroup scope) and the process table (`procs`). Two
history variables serve the properties: `touched` collects what has changed
since the scrape began, and `churn` counts changes, bounded by `MaxChurn`. A
restarted container is another container ID with the same labels.

`Discovery`'s `dpc` is the line the goroutine is at. Each CRI call and each
file read is one step, so the node can change between any two. `ListContainers`
includes the filtering of the answer, which touches nothing else. A CRI call may
fail at any time; once `expired` holds it only fails. `found` and `pids` are the
returned slice; a slice of processes is a set, since only its first element is
ever singled out (`IsFirst`). `lost` records failures that the code only logs.

`Scrape`'s `phase` continues where the discovery ends: the loop over the
containers, the cgroup lookup, one step for each cgroup file, for each smaps and
io file, for mountinfo, for each statfs, and two (match, then examine) for each
file pattern. A metric is a series - name and labels - and the *source* its
value was read from, in place of the number: that is what the properties need to
tell a right value from one of another container. `Send` is the channel and
what the registry makes of it: a second metric of a series is dropped and turns
into an error, and an error makes the handler answer 500. Any read may fail
although what it reads is there (a `statfs` that returns ESTALE, an `io` file
that cannot be opened or parsed): `PassOver` is the log line and the `continue`
or `return`, and `skipped` records it. A comm, the path of a mapping and the
source of a mount become labels as they are; if `InvalidUTF8` has one, the
goroutine panics and the process with it (`ReadProcessPanics`, `StatfsPanics`),
until the DaemonSet starts it again (`Restart`).

What `Scrape` abstracts: patterns are the sets of names they match; the metrics
one read yields together are one series (all fields of an io file, all mappings
of a smaps file, the three sizes of a mountpoint); namespace PIDs; numbers; log
output.

`CgroupWalk`'s directories are paths of numbered names, in lexical order;
`pending` is what `WalkDir` has listed and not visited, and each visit, with the
listing of what is below, is a step. A directory that is gone cannot be listed,
and one that is there may fail as well (`unreadable`).

`Readings` has the numbers the kernel keeps (`stat`, `diskIo`, `procIo`) and
derives from them the words of each file (`Content`), which the readers parse.
One step of `Collect` is one file that is opened. `held`, a history variable,
collects what the files contained since the scrape began; the properties
compare what was sent with that, without using the readers. A behaviour
follows the files of one of the `FileGroups` (`files`); the others do not exist
for it, and the rows of the table that read them are passed over at once
(`NextRow`). A group may have any of the files `Collect` reads (`FilesRead`),
all of them together included. Smaps, mountpoint and file metrics are not in it;
that a path listed twice makes two metrics of one series is in `Scrape`.
`Accepts` is what `MustNewConstMetric` and the default registry ask of a metric:
as many labels as the descriptor has, and a series that is new. All labels of
these values are names of Kubernetes, numbers, or a comm, whose encoding is
`Scrape`'s matter. The factor with which some values are multiplied is left out
(`collector.go` 95-98): the model's value is the number in the file.

`Smaps` has one address for a mapping, and two counters for the twenty that are
summed alike. `FileSums` has sizes; the disk usage is summed in the same way.
`Mountpoints` has the mounts in the order in which mountinfo lists them, and of
a sample the file system in its labels and the one measured; `failed` has the
paths whose `statfs` failed, which it may with any mount on them, or all of them
when mountinfo could not be read. `Startup` knows a
filter by its command pattern, the only part that has a default, and the file by
the records it may stand for. `Exporter` models what `net/http` does on
`Shutdown`: mark the server, close the listener, wait for the requests. A scrape
panics over an empty file pattern, or after a name of the node has become
invalid UTF-8 (`Garble`). In
`Process` the step by which `main` leaves `LoadConfig` waits for the end of
`Startup` and depends on its result, while a signal may come at any point; the
paths are not looked at again, so their later changes are left out.

`KvTools` has the server's secrets (`stored`) and the requests that were given
up and not yet executed (`late`), which outlive a command, and the tool's
`phase`, list of `keys`, counter `next` and workers, which do not. Secrets are
named by their numbers. A list of keys is one request, and one that fails looks
empty, as in the code; of `kv2` it is the first page. A request is executed,
refused, or given up - executed, still to be executed, or neither. The atomic
counter and the list behind its mutex are each used in one step, and a request
is one or two steps between them. Reads, transit and login requests of the mix
change nothing and are left out; keys are deleted from a batch in any order.
`failed`, `listFailed`, `quiet`, `dense` and `before` are history.

`ContourTools` has one variable for each goroutine of the frame. Gathering the
metrics and writing them are two steps, and what a dump shows is a number of
requests. Once `exit` is set nothing moves. The traffic commands differ in the
request they send, which the model leaves open. For `stats` the model has the
histograms of Envoy: cumulative buckets, their sum over the clusters, and the
percentiles computed from it.

Mutants (`ListContainersFails_Break` and the like) sit next to the definition they
change. No specification uses them: they show, for each property, a plausible
bug in the code that the property finds.

## 3. Properties and runs

| Run | Instance | Shows |
|---|---|---|
| `discovery` | 3 pods, two of them with the same names, a container in each, 1 PID, 2 comms, 4 changes | what a discovery finds is right, told apart by its labels, and complete for what was left alone |
| `scrape` | 1 pod, a container and its replacement, 2 PIDs, 2 comms, one of them and other names not valid UTF-8, overlapping filters, 2 changes, 1 read that fails | whole scrapes: labels, values, completeness and errors of the answers, panics, that they implement `ScrapeContract`, and `ScrapeEnds` |
| `cgroup_walk` | 8 directories, 2 scopes of the ID | what a walk finds; that it ends |
| `readings` | six groups of files: memory, pids, `cpu.max`, `cpu.stat`, `io.stat` with 2 devices, the io file; counts to 1 | values are of this scrape, none is lost or made up, those of one line are of one moment, no current value exceeds its peak, the registry takes them |
| `mountpoints` | 3 mountpoints, 2 file systems, 3 mounts, 2 changes | labels and sizes belong together; every plain path is exposed, or its own `statfs` failed |
| `file_sums` | 3 names, 2 files and a directory, 3 changes | the sum lies between bounds |
| `smaps` | 3 addresses, 1 file and anonymous memory | the sums lie between bounds |
| `process` | 4 paths, 3 files of configuration, 2 requests | what `LoadConfig` detects, accepts and rejects; that the start ends; why the process ends; that a signal ends it |
| `kv_tools` | 2 workers, 3 keys, pages of one key, 2 commands, 1 fault | the mix's list is right, writes add and overwrite nothing, `bulk-delete` ends with nothing left |
| `contour_tools` | 2 workers, 3 requests; 2 clusters with 3 buckets of 0, 1, 3 or 20 requests | what the last print shows; that a signal ends the run; the percentiles |
| `scrape_files`, `cgroup_walk_vanished` | as the passing runs, `scrape_files` without reads that fail | statements of the repository's texts that the code does not keep |

The runs have no type invariant and no inductive invariant among their
properties: the theorems of section 4 state them for every instance, and a
configuration to which `DiscoveryInv`, `ScrapeInv`, `ReadingsInv` or another is
added as an `INVARIANT` checks it on the run's instance.

Discovery: what is found ran during this discovery (`FoundWereRunning`); what is
selected and ran all along is found unless its pod's listing failed
(`StableContainersFound`); two found containers never share their labels
(`LabelsIdentifyContainer`); an attached process that was left alone is the
container's, under its name (`AttachedProcesses`); no process is attached twice
(`OneContainerPerProcess`); none that was there all along is overlooked
(`StableProcessesAttached`).

Scrape: values come from the container the labels name, as far as the PID was
not given away (`SamplesOfTheirContainer`); a good answer lacks nothing of what
was left alone, up to logged failures, each of which costs its own metrics only
(`ServedComplete`); a scrape fails only with the discovery or over a path that
the filters list twice and the container has, whatever restarts, reuse of PIDs
and changes of names there are, and it panics only over a name of a container it
collects that is not valid UTF-8 (`ErrorsAreExplained`).

Cgroup lookup: what is found was a scope of the container during the walk, and
no scope that was there all along precedes it (`FoundScopeWasThere`); a walk that
reaches its end has seen all of these (`StableScopesSeen`); only a directory of
somebody else that goes away or cannot be read fails it (`ErrorsFromOthers`).

Readings: every value is one its file showed during this scrape
(`HeldDuringScrape`); quota and period, the counters of a device and those of a
process are of one moment (`ReadTogether`); the current value, which is another
read than the peak, does not exceed it, thanks to the order of the table
(`PeakCoversCurrent`); a file that cannot be read costs no other metric
(`PresentIsSent`); every value of the cgroup and of the process has the labels
of its metric and a series of its own (`RegistryAccepts`).

Mountpoints: type and device in the labels are those of the file system
measured, unless it was changed in between (`LabelsOfMeasured`), and a configured
path that was mounted all along is lost only by a failure of its own `statfs` or
of mountinfo as a whole (`PlainMountpointsExposed`). File sizes and
smaps: the sums lie between those of what stayed and those of all there was
(`SumWithinBounds`, `SumsBetween`).

Process: the socket detected is the first of the list that was there
(`SocketDetected`); what is accepted is complete and keeps what the file said
(`LoadedIsSound`), what is rejected has a fault (`RejectedForCause`), and the
start comes to an end, listening or not, whatever comes up or goes away
meanwhile (`StartEnds`); every end has
its cause (`EndExplained`), a signal ends the process even if a scrape never
does (`SignalEndsProcess`), `/health` is answered meanwhile (`HealthAnswered`).

OpenBao tool: from a mount whose numbers have no gap, a key on the mix's list
is stored, and listed once, whatever fails afterwards (`TrackedAreLive`); what
is stored and neither listed nor being handled was left behind by a request
that went wrong, and each leaves at most one (`LeaksAreFailures`); numbering on
from the number of keys adds as many secrets as asked for to those counted, none
of which is overwritten (`WritesAdd`);
`bulk-delete` ends (`BulkDeleteEnds`), and with empty mounts, unless a list
went wrong or a write was late (`EmptiedWhenDone`).

Contour tool: the last print of a run that no signal ended shows every request
(`LastDumpComplete`); however a run ends, a print shows what was measured up to
then (`MetricsOnExit`); a signal that was caught ends the run while a request
hangs or a print is under way (`SignalEndsTool`); the share of the requests asked
for took no longer than the percentile shown, give or take one request, and
fewer took less time than its bucket begins with (`PercentileOfSamples`).

Two violated statements are runs, and the `findings` of `PROJECT.json`:

1. `scrape_files`: file sizes become 0 when the container's first process has
   exited, though another one runs (`collector.go` 309).
2. `cgroup_walk_vanished`: a cgroup of anybody that vanishes during a walk makes
   `FindCgroup` fail, even if the scope was found already (`cgroup.go` 29).

The other disagreements met while modelling have a property and a configuration
of their own, to be run by hand (`tlc -config MCSmapsPerms.cfg MCSmaps`); each
gives a counterexample:

| Configuration | Property | What the code does |
|---|---|---|
| `MCScrapeIncomplete` | `CompleteOrFailed` | leaves a pod out of an answer 200 when its `ListContainers` call fails or meets the deadline (`kubernetes.go` 80), against "Fail the scrape rather than expose an incomplete result" (`collector.go` 45) |
| `MCScrapeCurrent` | `ProcessValuesAreCurrent` | exposes values under the name and container a PID had at the scan, against "every response reflects the state at the time of the request" (`README.md` 14) |
| `MCScrapeOverlap` | `AnyMatchIsMonitored` | fails every scrape when two matching filters list one path (`config.go` 169) |
| `MCReadingsTorn` | `ThrottledWithinPeriods` | reads `cpu.stat` anew for each field, so that a scrape can show more throttled periods than periods (`cgroup.go` 112) |
| `MCFileSumsTwice` | `NoFileTwice` | adds a file twice that is renamed to a name still to be examined (`collector.go` 321) |
| `MCMountpointsBlank` | `MountpointsExposed` | never finds a mountpoint with a blank in its name, which mountinfo escapes (`mountinfo.go` 42) |
| `MCSmapsPerms` | `PermsApart` | keys the smaps entries by the path alone, against "(perms, path)" (`smaps.go` 14) |
| `MCSmapsPageSize` | `KernelPageSizeOfMapping` | sums page sizes over the mappings of a path (`smaps.go` 111) |
| `MCProcessPaths` | `PathsExist` | accepts a path that `os.Stat` cannot look at (`config.go` 129) |
| `MCKvToolsReservoir` | `ReservoirIsLive` | with a gap in the numbers, writes a key that is listed already and lists it again, against "track live keys" (`cmd_mix.go` 105) |
| `MCKvToolsAllDeleted` | `AllDeleted` | takes a list that failed for that of an empty mount, and stops, against "Delete all secrets" (`main.go` 89) |
| `MCContourToolsPercentile` | `PercentileIsOfARequest` | shows the first bucket when the share is below one request, though no request is in it (`cmd_stats.go` 328) |

### Bounds

Reuse of a PID takes two changes (exit, fork), and a restart two (stop, start).
A pod re-created under its names with a container of its own takes four (the old
container and its sandbox stop, the new ones start), and the run `discovery` has
them, with one PID: its 1.8 million states are what 4 changes leave room for. A
restart whose new process gets an old PID takes three and needs a scrape's two
PIDs; it is left to the theorems, which have no bound, of which `SamplesCorrect`
is about it. As for the instances, two containers and, in `scrape`, two PIDs are
what it takes to confuse one with another. The first state of the node is any
consistent one, so histories before the first request need no changes, and
requests follow each other without bound. In the modules without `Host` the
smallest instance is taken in which two of a kind can be confused: two scopes of
the ID and one of another container; a path mapped twice with another mapping
between them; two file systems on one mountpoint; two names to rotate and a
third; two devices that differ in the minor number only. `MaxCount` bounds what
the kernel counts, and one increment between two reads is what tears values
apart; `MaxChanges` and `MaxRemounts` bound the changes during one collection,
and collections follow each other without bound. `HostConsistent`, which the
runtime and the kernel provide, is the one assumption on the node: no two ready
sandboxes of one pod name, no two running containers of one container name, and
one process for a PID.

In `KvTools` two workers are what it takes to give a number out twice or to
finish in another order, two commands let one find what the other left, and one
fault is one request refused, lost or late, or one list that fails; `MaxId`
bounds the numbers, and leaves room for two secrets after the one that is there.
`MaxFaults` of `Scrape` is the number of reads that fail although what they read
is there: one is enough to see what it costs. In `ContourTools` `Count` is the
number of requests asked for, and bounds those of an endless run; counts of 1, 3
and 20 lie on both sides of the points at which a share is cut to an integer.

### Fairness

The goroutine takes its steps and reads of `/proc` and of the cgroup tree return
(`WF` of `Scanning`, `Read`); the context's timer fires and a call whose context
has expired returns (`WF` of `Deadline`, `AbortedCall`). The runtime owes no
answer. `statfs`, the match of a file pattern and `lstat` have no fairness
(`ReadFiles` is outside of `Read`): all three may wait for a remote or FUSE file
system of the container, and the code sets no deadline. So `ScrapeEnds` says
that every scrape ends, with an answer or a panic, if no such call keeps it for
ever. The node need not change, nobody need ask again, and nobody need start the
exporter again.

A walk through the cgroup tree takes its steps (`WF` of `WalkStep`): it ends
because it only goes forward in a bounded tree. In `Exporter` main, the
goroutine of the signal and the handler of `/health` take their steps, as
goroutines do; scrapes have no fairness, for one may hang in `statfs`, nobody
has to connect and no signal has to come. `Process` has the fairness of main
once `LoadConfig` has returned (`AfterLoad`), and adds the steps of `LoadConfig`,
which looks at local files.

In `KvTools` main and the workers take their steps, and every request ends, for
the client gives up after 30 seconds. The server may refuse or lose requests
`MaxFaults` times: one that refuses every deletion keeps `bulk-delete` going for
ever. The mix need not use its time. In `ContourTools` the three goroutines take
their steps and standard output takes what is written; nothing is assumed of the
requests, which have no timeout, nor of the ticks.

The runs `process`, `kv_tools` and `contour_tools` do not check for deadlock,
since the programs end.

## 4. Proofs

Every safety property of the passing runs, and the refinement, is a theorem.
Every theorem holds for all values of the constants: any number of pods,
containers, processes, directories, addresses, files, devices, mounts, workers,
keys and requests, any filters, any number of changes and faults. The
assumptions are the typing of the constants, named in the modules that declare
them, with two more: in `Mountpoints` no directory is named like the escaped
name of another one, and in `Readings` only files are followed that `Collect`
reads (`FileGroupsAssumption`).

**Discovery.** `DiscoveryInv` is an invariant, and from it follow the type
invariant and all six safety properties. They are not inductive. What is added:

* `ControlPoints`: which of the lists are empty where;
* `OneSnapshot`: sandboxes and those of found containers have different names,
  and a found container's sandbox is no longer to be listed. This is why a
  container and its successor are not both found: they are either of one
  sandbox, and so of one answer, or of two sandboxes of one snapshot;
* `StableContainersPending`, `StableProcessesPending`: what is not found yet is
  still to be visited;
* `ExaminedProcess`: what was read so far of a process left alone is true;
* `VisitedOnce`: attached or examined PIDs are not among the entries left.

The node's part of each step is dealt with once: `HostKeeps` and `StableBefore`
say that what a change does not touch stays as it is.

**Scrape.** `ScrapeDiscovers` shows that a step of `Collect` is a step of the
discovery or none, so that all of the above holds inside a scrape. `ScrapeInv`
adds what was sent against what is still to be sent (no series twice unless its
path is listed twice, `SentOnce`), the root
directory a pattern was matched in, and `TakenFrom` for every sample: once true
it stays true, since a change of the node only excuses more. From it follow the
type invariant, `SamplesOfTheirContainer` and `ErrorsAreExplained`, and, action
by action, the implementation of `ScrapeContract`. `ServedComplete` follows from
`CompleteSoFar`: what a container that was left alone is owed has been sent, or
is still ahead of the collection, or the failure that cost it was logged. Each
collecting step moves its part from the one to the other.

**CgroupWalk.** `WalkInv`, whose core is `StableScopesAhead`: of a scope that
was there all along the walk has seen the scope, or has it or a directory above
it among those to visit. That only directories of others fail it is so because
what was pending was there (`MatchesWereThere`) and a match is not listed.

**Readings.** `ReadingsInv` adds to the properties what makes them inductive:

* `HeldSoFar`: what the files contain now is among what they contained during
  the scrape, and nothing of an absent file is;
* `SentInOrder`: every file has its phase and every row its turn, so that what is
  about to be sent has not been sent. `RegistryAccepts` needs it, and
  `ReadTogether`: the first samples of a file are all there are of it;
* `PeakAhead`: the peak covers the current value and *every current value sent*.
  A charge raises both, nothing lowers the peak, and the current value is read
  in a row before that of the peak (`CurrentBeforePeak`); with the rows the other
  way round the step that reads the current value would not keep
  `PeakCoversCurrent`;
* `SentSoFar`: of a cgroup that was found and still exists, and of a process that
  still exists, all that had its turn was sent.

Below that are lemmas about the tables and about the readers. The thirty rows
are for thirty different quantities (`RowsDistinct`); a reader of a file that
exists returns what its lines say, be it a number, a field, the words of
`cpu.max`, the lines of `io.stat` for any set of devices, or the io file
(`ReadNumber`, `ReadStatField`, `ReadCpuMax`, `ReadDevices`, `ReadIo`); and
`TurnKeeps` says once for four phases what a send must satisfy. The sequences
are of known length or indexed by a set, so that no induction is needed.

**Sums.** A sum over a finite set is a fold, whose value is that of a function
which solves a recursion over the subsets (`Unfold`), if there is one. Two
solutions agree: a least subset on which they differ would leave a smaller one
(`SolvesOnce`; finite subsets are well-founded). The cardinality of `Units`,
which has as many elements for each argument as the function's value there, is a
solution (`UnitsSolve`). So sums are cardinalities (`SumIsUnits`), and monotony,
union and the exchange of two sums follow from the theory of finite sets.

**Smaps.** `SmapsInv` counts: the size of an entry is the number of mappings
read with its path, by adding one element to a finite set per step; these were
there when read, and include every mapping up to the offset that nobody touched.
`SumsBetween` is then a comparison of cardinalities.

**FileSums.** `FileSumsInv`: what was added so far lies between the sum of the
least and the sum of the greatest sizes of the names examined, and what each
name would add now lies between its own two. A step of the container lowers the
one or raises the other, which widens the interval; `Lstat` adds one name to all
three sums.

**Mountpoints.** `MapMatches`: what the map of mountinfo says of a mountpoint
that is left alone is what is mounted on top there; `SeenExposed`: the
configured paths already looked at are exposed or among those that failed.

**Process.** `StartupInv`: what the file says is kept from field to field, and
what was looked at stands for as long as nobody touches it. `ExporterInv`: the
server is marked, and its listener closed, only on the way from the signal to
the end. `ProcessRunsBoth` shows that a step of the process is one of either
part and none of the other, so that both hold of the whole, and `ProcessInv`
relates them: past `LoadConfig` the configuration is an accepted one, and so a
panic goes back to an empty pattern in the file or to a name of the node
(`PanicHasCause`).

**KvTools.** A number is given out once, and a key is in one place: listed, in
the request of one worker, or neither. `NumbersStored` says what the writes of
a command have stored so far, `EmptiedSoFar` what `bulk-delete` has emptied.
`LeaksCharged` has a set of the secrets left behind and the writes still late,
no larger than the number of failed requests: each step either leaves it as it
is or adds one key together with one failure.

**ContourTools.** Requests to be sent, sent and answered never exceed `Count`,
main prints after the ticker's goroutine has ended and the workers are idle, and
the handler gathers after the first signal. For the percentiles, the buckets
added up over the clusters are the buckets of the sum of all requests
(`SumOfRows`), and the first bucket to reach a share exists because the last one
has them all.

Only model-checked: liveness (`ScrapeEnds`, `WalkEnds`, `SignalEndsProcess`,
`HealthAnswered`, `StartEnds`, `BulkDeleteEnds`, `SignalEndsTool`), which rests
on fairness and so on `ENABLED`, beyond the prover.

## 5. Plan

Done: discovery, scrape, contract, walk, readings, mountpoints, file sums,
smaps, start-up, process and their composition, and both load tools, with the
proofs above. Next, in this order:

1. `Readings` as a refinement of the collection of one container in `Scrape`.
2. Two tools at a time against one server.

Not modelled: help texts, value types, conversion factors, `describeAll` (the
default registry asks of it nothing but that names do not clash) and logging; the
matching of patterns (`doublestar`); the details of `net/http`, the CRI and the
registry beyond what the code relies on. Of the OpenBao tool: logging in, the
reads and transit requests, which change no state, an endless `kv-write`, and
its `stats` command, which asks for the leader and prints a table; its frame of
ticker and handler is the Contour tool's. Of the Contour tool: the requests
themselves, the generation of keys and tokens, and the tables that
`stats` prints beside the percentiles. A late request is executed at most once.
