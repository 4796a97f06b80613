---------------------------- MODULE MetricTables ----------------------------
(***************************************************************************)
(* The tables of metrics.go for what is read from the files of a cgroup    *)
(* and from /proc/<pid>/io: the metrics, their labels, and from which file *)
(* each of the simple ones is read.  Units and help texts are left out,    *)
(* and so is the factor some values are multiplied with.                   *)
(***************************************************************************)
EXTENDS Sequences, FiniteSets, Naturals

containerLabels == <<"namespace", "pod", "container">>
processLabels == containerLabels \o <<"host_pid", "ns_pid", "comm">>
ioStatLabels == containerLabels \o <<"major", "minor">>

NewDesc(name, labels) == [name |-> name, labels |-> labels]

Metric(name, file, field) ==
  [desc |-> NewDesc(<<file, name>>, containerLabels),
   cgroupFile |-> file, cgroupFileField |-> field]

(* A file that holds one number, and a field of one that holds several.    *)
NoField == ""

Whole(file) == Metric(NoField, file, NoField)
Field(file, field) == Metric(field, file, field)

(* Mutant: the peak is read before the current value.                      *)
memoryMetrics_PeakFirst ==
  <<Whole("memory.peak"), Whole("memory.current"), Whole("memory.low"),
    Whole("memory.high"), Whole("memory.max")>>

memoryMetrics ==
  <<Whole("memory.current"), Whole("memory.peak"), Whole("memory.low"),
    Whole("memory.high"), Whole("memory.max")>>

memoryStatFields ==
  <<"anon", "file", "shmem", "kernel", "slab", "slab_reclaimable",
    "slab_unreclaimable", "pagetables", "kernel_stack", "active_anon",
    "inactive_anon", "active_file", "inactive_file", "unevictable",
    "pgfault", "pgmajfault">>

memoryStatMetrics ==
  [i \in DOMAIN memoryStatFields |-> Field("memory.stat", memoryStatFields[i])]

cpuStatFields ==
  <<"usage_usec", "user_usec", "system_usec",
    "nr_periods", "nr_throttled", "throttled_usec">>

cpuMetrics ==
  [i \in DOMAIN cpuStatFields |-> Field("cpu.stat", cpuStatFields[i])]

pidsMetrics == <<Whole("pids.current"), Whole("pids.max"), Whole("pids.peak")>>

(* The order of the table is the order of the reads.                       *)
cgroupMetrics == memoryMetrics \o memoryStatMetrics \o cpuMetrics \o pidsMetrics

(* The files with several numbers in one line: the values in their order.  *)
cgroupMultiValueMetrics ==
  <<[cgroupFile |-> "cpu.max",
     descs |-> <<NewDesc(<<"cpu.max", "quota">>, containerLabels),
                 NewDesc(<<"cpu.max", "period">>, containerLabels)>>]>>

(* The counters of a line of io.stat and of /proc/<pid>/io.                *)
ioStatKeys == <<"rbytes", "wbytes", "rios", "wios", "dbytes", "dios">>
procIoKeys == <<"rchar", "wchar", "syscr", "syscw", "read_bytes", "write_bytes">>

CgroupIo(key) == NewDesc(<<"io.stat", key>>, ioStatLabels)

ProcessIo(key) == NewDesc(<<"io", key>>, processLabels)
=============================================================================
