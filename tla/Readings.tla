------------------------------ MODULE Readings ------------------------------
(***************************************************************************)
(* What Collect exposes of one container with one process: the values in   *)
(* the files of cgroup and process (cgroup.go, iostat.go, procio.go), read *)
(* one after the other while the kernel goes on counting and the runtime   *)
(* changes the limits.                                                     *)
(*                                                                         *)
(* Scrape asks whose value a series has; this module asks whether the      *)
(* values of one scrape go together.  Which containers there are, restarts *)
(* and reused pids, names that are not valid UTF-8 and filters that list a *)
(* path twice are left to Scrape, the values of smaps, of the mountpoints  *)
(* and of the files to Smaps, Mountpoints and FileSums.                    *)
(***************************************************************************)
EXTENDS MetricTables, Integers, SequencesExt

CONSTANTS
  FileGroups, \* the sets of files that may be followed
  Devices,    \* block devices, <<major, minor>>
  MaxCount,   \* bound on what the kernel counts
  NoLimit     \* the word "max"

ASSUME ReadingsAssumption ==
  /\ Devices \subseteq Nat \X Nat
  /\ IsFiniteSet(Devices)
  /\ MaxCount \in Nat
  /\ NoLimit \notin Int

VARIABLES
  files,      \* the files that are followed, the others are left out
  stat,       \* the quantities the cgroup's files show
  diskIo,     \* what the cgroup did on each device
  procIo,     \* what the process did
  absent,     \* files this kernel does not provide, or denies
  cgroup,     \* the cgroup exists
  process,    \* the process exists
  phase, row, \* control point of Collect
  sent,       \* the metrics sent
  rejected,   \* history: a metric could not be made, or came twice
  missed,     \* the cgroup was not found
  held        \* history: what the files contained since Collect began

kernelVars == <<files, stat, diskIo, procIo, absent, cgroup, process>>
collectVars == <<phase, row, sent, rejected, missed>>
rvars == <<kernelVars, collectVars, held>>

-----------------------------------------------------------------------------
(* The files of each controller.                                           *)
Controllers == {"memory", "pids"}

Current == [memory |-> "memory.current", pids |-> "pids.current"]
Peak == [memory |-> "memory.peak", pids |-> "pids.peak"]

LimitFiles == {"memory.low", "memory.high", "memory.max", "pids.max"}

StatFields ==
  [file \in {"memory.stat", "cpu.stat"} |->
     IF file = "memory.stat" THEN memoryStatFields ELSE cpuStatFields]

CpuMax == <<<<"cpu.max", "quota">>, <<"cpu.max", "period">>>>

Number(file) == <<file, NoField>>

(* What the files followed show; where they may show "max".                *)
Quantities ==
  {<<m.cgroupFile, m.cgroupFileField>> :
     m \in {cgroupMetrics[i] : i \in DOMAIN cgroupMetrics}} \cup ToSet(CpuMax)

(* The files Collect reads; all that are followed are among them.          *)
FilesRead == {q[1] : q \in Quantities} \cup {"io.stat", "io"}

ASSUME FileGroupsAssumption == FileGroups \subseteq SUBSET FilesRead

Followed == {q \in Quantities : q[1] \in files}

Limits == {CpuMax[1]} \cup {Number(file) : file \in LimitFiles}

(* A line for each counter.                                                *)
Pairs(f, keys) == [i \in DOMAIN keys |-> <<keys[i], f[keys[i]]>>]

(* A device is listed once something was done on it.                       *)
Used == {d \in Devices : \E key \in ToSet(ioStatKeys) : diskIo[d][key] > 0}

(* What a file shows: a sequence of lines, a line is a sequence of words.  *)
Content(file) ==
  CASE file \in DOMAIN StatFields ->
         LET fields == StatFields[file]
         IN  [i \in DOMAIN fields |-> <<fields[i], stat[<<file, fields[i]>>]>>]
    [] file = "cpu.max" -> <<<<stat[CpuMax[1]], stat[CpuMax[2]]>>>>
    [] file = "io.stat" ->
         LET devices == SetToSeq(Used)
         IN  [i \in DOMAIN devices |->
                <<devices[i]>> \o Pairs(diskIo[devices[i]], ioStatKeys)]
    [] file = "io" -> Pairs(procIo, procIoKeys) \o <<<<"cancelled_write_bytes", 0>>>>
    [] OTHER -> <<<<stat[Number(file)]>>>>

Exists(file) ==
  file \in files /\ IF file = "io" THEN process ELSE cgroup /\ file \notin absent

Contents == {<<file, Content(file)>> : file \in {f \in files : Exists(f)}}

Zero(keys) == [key \in ToSet(keys) |-> 0]

ReadingsTypeOK ==
  /\ files \in FileGroups
  /\ stat \in [Followed -> 0..MaxCount \cup {NoLimit}]
  /\ \A q \in Followed \ Limits : stat[q] \in 0..MaxCount
  /\ diskIo \in [Devices -> [ToSet(ioStatKeys) -> 0..MaxCount]]
  /\ procIo \in [ToSet(procIoKeys) -> 0..MaxCount]
  /\ absent \subseteq files
  /\ cgroup \in BOOLEAN /\ process \in BOOLEAN
  /\ rejected \in BOOLEAN /\ missed \in BOOLEAN
  /\ phase \in {"idle", "cgroup", "rows", "multi", "iostat", "procio", "gather"}
  /\ row \in 1..(Len(cgroupMetrics) + 1)
  /\ phase = "multi" => row <= Len(cgroupMultiValueMetrics) + 1
  /\ \A s \in sent : s.value \in -1..MaxCount

(* A cgroup that has not been used yet, with any limits; a kernel without  *)
(* some of the files.                                                      *)
ReadingsInit ==
  /\ files \in FileGroups
  /\ stat \in [Followed -> {0, NoLimit}]
  /\ \A q \in Followed \ Limits : stat[q] = 0
  /\ diskIo = [d \in Devices |-> Zero(ioStatKeys)]
  /\ procIo = Zero(procIoKeys)
  /\ absent \in SUBSET files
  /\ cgroup = TRUE
  /\ process = TRUE
  /\ phase = "idle"
  /\ row = 1
  /\ sent = {}
  /\ rejected = FALSE
  /\ missed = FALSE
  /\ held = {}

-----------------------------------------------------------------------------
(* The kernel.  A change is remembered while a scrape is under way.        *)
Remember == held' = IF phase = "idle" THEN {} ELSE held \cup Contents'

Counted(f, keys) == [k \in DOMAIN f |-> IF k \in keys THEN f[k] + 1 ELSE f[k]]

Countable(f, keys) == keys \subseteq DOMAIN f /\ \A k \in keys : f[k] < MaxCount

(* Memory or processes are charged to the cgroup: the peak follows.        *)
Charge(c) ==
  LET current == Number(Current[c])
      peak == Number(Peak[c])
  IN  /\ cgroup
      /\ Countable(stat, {current})
      /\ stat' = [stat EXCEPT ![current] = @ + 1,
                              ![peak] = IF @ > stat[current] THEN @ ELSE stat[current] + 1]
      /\ UNCHANGED <<diskIo, procIo, absent, cgroup, process>>

Uncharge(c) ==
  LET current == Number(Current[c])
  IN  /\ cgroup
      /\ current \in Followed
      /\ stat[current] > 0
      /\ stat' = [stat EXCEPT ![current] = @ - 1]
      /\ UNCHANGED <<diskIo, procIo, absent, cgroup, process>>

(* The runtime sets a limit.                                               *)
SetLimit(file, v) ==
  /\ cgroup
  /\ file \in files
  /\ stat' = [stat EXCEPT ![Number(file)] = v]
  /\ UNCHANGED <<diskIo, procIo, absent, cgroup, process>>

(* Quota and period are written together.                                  *)
SetCpuMax(quota, period) ==
  /\ cgroup
  /\ "cpu.max" \in files
  /\ stat' = [stat EXCEPT ![CpuMax[1]] = quota, ![CpuMax[2]] = period]
  /\ UNCHANGED <<diskIo, procIo, absent, cgroup, process>>

(* Time passes in user or system mode; a period ends, throttled or not.    *)
RunCpu(fields) ==
  LET counters == {<<"cpu.stat", f>> : f \in fields}
  IN  /\ cgroup
      /\ Countable(stat, counters)
      /\ stat' = Counted(stat, counters)
      /\ UNCHANGED <<diskIo, procIo, absent, cgroup, process>>

CpuEvents ==
  {{"usage_usec", "user_usec"}, {"usage_usec", "system_usec"},
   {"nr_periods"}, {"nr_periods", "nr_throttled", "throttled_usec"}}

DiskIo(d, keys) ==
  /\ cgroup
  /\ "io.stat" \in files
  /\ Countable(diskIo[d], keys)
  /\ diskIo' = [diskIo EXCEPT ![d] = Counted(@, keys)]
  /\ UNCHANGED <<stat, procIo, absent, cgroup, process>>

DiskEvents == {{"rbytes", "rios"}, {"wbytes", "wios"}, {"dbytes", "dios"}}

Syscall(keys) ==
  /\ process
  /\ "io" \in files
  /\ Countable(procIo, keys)
  /\ procIo' = Counted(procIo, keys)
  /\ UNCHANGED <<stat, diskIo, absent, cgroup, process>>

Syscalls ==
  {{"rchar", "syscr"}, {"rchar", "syscr", "read_bytes"},
   {"wchar", "syscw"}, {"wchar", "syscw", "write_bytes"}}

ExitProcess ==
  /\ process
  /\ process' = FALSE
  /\ UNCHANGED <<stat, diskIo, procIo, absent, cgroup>>

(* The container's scope goes after its last process.                      *)
RemoveCgroup ==
  /\ cgroup
  /\ ~process
  /\ cgroup' = FALSE
  /\ UNCHANGED <<stat, diskIo, procIo, absent, process>>

KernelStep ==
  /\ \/ \E c \in Controllers : Charge(c) \/ Uncharge(c)
     \/ \E file \in LimitFiles, v \in {MaxCount, NoLimit} : SetLimit(file, v)
     \/ \E q \in 0..MaxCount \cup {NoLimit}, p \in 0..MaxCount : SetCpuMax(q, p)
     \/ \E fields \in CpuEvents : RunCpu(fields)
     \/ \E d \in Devices, keys \in DiskEvents : DiskIo(d, keys)
     \/ \E keys \in Syscalls : Syscall(keys)
     \/ ExitProcess \/ RemoveCgroup
  /\ UNCHANGED <<files, collectVars>>
  /\ Remember

-----------------------------------------------------------------------------
(***************************************************************************)
(* The readers.  A reader returns the set of what it read, which is empty  *)
(* when the file cannot be read or does not parse.                         *)
(***************************************************************************)
Atoi(word) == {word} \cap Int

(* A file with one word: "max" is read as -1.                              *)
ReadInteger(file) ==
  IF ~Exists(file) THEN {}
  ELSE LET lines == Content(file)
       IN  IF lines = <<<<NoLimit>>>> THEN {-1} ELSE Atoi(lines[1][1])

(* A file with one line.  All words must parse, or none is used.           *)
ReadSpaceSeparatedIntegers(file) ==
  LET fields == Content(file)[1]
      values == [i \in DOMAIN fields |-> IF fields[i] = NoLimit THEN {-1} ELSE Atoi(fields[i])]
  IN  IF ~Exists(file) \/ \E i \in DOMAIN fields : values[i] = {}
      THEN {}
      ELSE {[i \in DOMAIN fields |-> CHOOSE v \in values[i] : TRUE]}

(* The first line with two words of which the field is one.                *)
ReadIntegerField(file, field) ==
  LET lines == Content(file)
      hits == {i \in DOMAIN lines : Len(lines[i]) = 2 /\ lines[i][1] = field}
  IN  IF ~Exists(file) \/ hits = {}
      THEN {}
      ELSE Atoi(lines[CHOOSE i \in hits : \A j \in hits : i <= j][2])

(* The last value of a counter, zero if there is none.                     *)
LastValue(pairs, key) ==
  LET hits == {i \in DOMAIN pairs : pairs[i][1] = key /\ pairs[i][2] \in Int}
  IN  IF hits = {} THEN 0
      ELSE pairs[CHOOSE i \in hits : \A j \in hits : j <= i][2]

(* A line that does not begin with a device is an error ...                *)
parseIoStatLine(line) ==
  IF line[1] \in Nat \X Nat
  THEN {[dev |-> line[1],
         counters |-> [key \in ToSet(ioStatKeys) |-> LastValue(Tail(line), key)]]}
  ELSE {}

(* ... and such a line discards them all.                                  *)
ReadIoStat ==
  LET lines == Content("io.stat")
      stats == {parseIoStatLine(lines[i]) : i \in DOMAIN lines}
  IN  IF ~Exists("io.stat") \/ {} \in stats THEN {} ELSE {UNION stats}

(* The lines of the open file are those of one moment.                     *)
ParseProcIO ==
  IF ~Exists("io") THEN {}
  ELSE {[key \in ToSet(procIoKeys) |-> LastValue(Content("io"), key)]}

-----------------------------------------------------------------------------
(***************************************************************************)
(* Collect.                                                                *)
(***************************************************************************)
Sample(desc, labels, value) ==
  [desc |-> desc, labels |-> labels, value |-> value]

Clash(s, t) == s.desc = t.desc /\ s.labels = t.labels

(* The labels of the container and of the process are the same for all; a  *)
(* sample lists those that come after them.                                *)
Unlabelled(desc) == IF desc.labels = processLabels THEN 6 ELSE 3

(* MustNewConstMetric wants a value for every label, and the registry one  *)
(* metric of each series.                                                  *)
Accepts(samples) ==
  /\ \A s \in samples :
       /\ Len(s.desc.labels) = Unlabelled(s.desc) + Len(s.labels)
       /\ \A t \in sent : ~Clash(s, t)
  /\ \A s, t \in samples : Clash(s, t) => s = t

Send(samples) ==
  /\ sent' = sent \cup samples
  /\ rejected' = (rejected \/ ~Accepts(samples))

StartCollect ==
  /\ phase = "idle"
  /\ phase' = "cgroup"
  /\ sent' = {}
  /\ rejected' = FALSE
  /\ missed' = FALSE
  /\ held' = Contents
  /\ UNCHANGED <<kernelVars, row>>

(* The next row of the table for a file that is followed: the reads of the *)
(* others are left out.                                                    *)
NextRow(i) ==
  Min({j \in (i + 1)..Len(cgroupMetrics) : cgroupMetrics[j].cgroupFile \in files}
        \cup {Len(cgroupMetrics) + 1})

FindCgroup ==
  /\ phase = "cgroup"
  /\ cgroup
  /\ phase' = "rows"
  /\ row' = NextRow(0)
  /\ UNCHANGED <<kernelVars, sent, rejected, missed, held>>

(* The other metrics of the cgroup are left out, the process's are read.   *)
FindCgroupFails ==
  /\ phase = "cgroup"
  /\ missed' = TRUE
  /\ phase' = "procio"
  /\ UNCHANGED <<kernelVars, row, sent, rejected, held>>

readCgroupMetric(m) ==
  IF m.cgroupFileField = NoField
  THEN ReadInteger(m.cgroupFile)
  ELSE ReadIntegerField(m.cgroupFile, m.cgroupFileField)

(* Mutant: a file that cannot be read counts as zero.                      *)
CollectRow_ZeroOnError ==
  /\ phase = "rows"
  /\ row <= Len(cgroupMetrics)
  /\ LET m == cgroupMetrics[row]
     IN  Send({Sample(m.desc, <<>>, v) : v \in
                 IF readCgroupMetric(m) = {} THEN {0} ELSE readCgroupMetric(m)})
  /\ row' = NextRow(row)
  /\ UNCHANGED <<kernelVars, phase, missed, held>>

(* Mutant: a file that cannot be read ends the loop.                       *)
CollectRow_Break ==
  /\ phase = "rows"
  /\ row <= Len(cgroupMetrics)
  /\ LET m == cgroupMetrics[row]
     IN  /\ Send({Sample(m.desc, <<>>, v) : v \in readCgroupMetric(m)})
         /\ row' = IF readCgroupMetric(m) = {} THEN Len(cgroupMetrics) + 1 ELSE NextRow(row)
  /\ UNCHANGED <<kernelVars, phase, missed, held>>

(* One metric of the table: a file that cannot be read is passed over.     *)
CollectRow ==
  /\ phase = "rows"
  /\ row <= Len(cgroupMetrics)
  /\ LET m == cgroupMetrics[row]
     IN  Send({Sample(m.desc, <<>>, v) : v \in readCgroupMetric(m)})
  /\ row' = NextRow(row)
  /\ UNCHANGED <<kernelVars, phase, missed, held>>

RowsDone ==
  /\ phase = "rows"
  /\ row > Len(cgroupMetrics)
  /\ phase' = "multi"
  /\ row' = 1
  /\ UNCHANGED <<kernelVars, sent, rejected, missed, held>>

(* Mutant: every value of the file is read by itself, and the file may     *)
(* have changed in between.                                                *)
CollectMultiRow_Twice ==
  /\ phase = "multi"
  /\ row <= Len(cgroupMultiValueMetrics)
  /\ LET m == cgroupMultiValueMetrics[row]
         first == {s \in sent : s.desc = m.descs[1]}
         j == IF first = {} THEN 1 ELSE 2
         read == ReadSpaceSeparatedIntegers(m.cgroupFile)
     IN  /\ Send({Sample(m.descs[j], <<>>, values[j]) : values \in read})
         /\ row' = IF j = 2 \/ read = {} THEN row + 1 ELSE row
  /\ UNCHANGED <<kernelVars, phase, missed, held>>

(* One read for all values of the file, as many as there are.              *)
CollectMultiRow ==
  /\ phase = "multi"
  /\ row <= Len(cgroupMultiValueMetrics)
  /\ LET m == cgroupMultiValueMetrics[row]
     IN  Send(UNION {{Sample(m.descs[j], <<>>, values[j]) :
                        j \in DOMAIN m.descs \cap DOMAIN values} :
                     values \in ReadSpaceSeparatedIntegers(m.cgroupFile)})
  /\ row' = row + 1
  /\ UNCHANGED <<kernelVars, phase, missed, held>>

MultiDone ==
  /\ phase = "multi"
  /\ row > Len(cgroupMultiValueMetrics)
  /\ phase' = "iostat"
  /\ UNCHANGED <<kernelVars, row, sent, rejected, missed, held>>

(* Mutant: the minor number is not among the labels.                       *)
IoStatSamples_MajorOnly(stats) ==
  {Sample(CgroupIo(key), <<s.dev[1], 0>>, s.counters[key]) :
     s \in stats, key \in ToSet(ioStatKeys)}

IoStatSamples(stats) ==
  {Sample(CgroupIo(key), s.dev, s.counters[key]) :
     s \in stats, key \in ToSet(ioStatKeys)}

CollectIoStat ==
  /\ phase = "iostat"
  /\ Send(UNION {IoStatSamples(stats) : stats \in ReadIoStat})
  /\ phase' = "procio"
  /\ UNCHANGED <<kernelVars, row, missed, held>>

(* collectProcIoMetrics.                                                   *)
CollectProcIo ==
  /\ phase = "procio"
  /\ Send(UNION {{Sample(ProcessIo(key), <<>>, io[key]) : key \in ToSet(procIoKeys)} :
                 io \in ParseProcIO})
  /\ phase' = "gather"
  /\ UNCHANGED <<kernelVars, row, missed, held>>

Answer ==
  /\ phase = "gather"
  /\ phase' = "idle"
  /\ held' = {}
  /\ UNCHANGED <<kernelVars, row, sent, rejected, missed>>

CollectStep ==
  \/ StartCollect \/ FindCgroup \/ FindCgroupFails
  \/ CollectRow \/ RowsDone \/ CollectMultiRow \/ MultiDone \/ CollectIoStat
  \/ CollectProcIo \/ Answer

ReadingsNext == KernelStep \/ CollectStep

ReadingsSpec == ReadingsInit /\ [][ReadingsNext]_rvars

-----------------------------------------------------------------------------
(***************************************************************************)
(* Properties.                                                             *)
(***************************************************************************)
Value(name) == {s.value : s \in {t \in sent : t.desc.name = name}}

(* Although current value and peak are two reads of two files, and the     *)
(* kernel goes on in between, no scrape shows more than the peak: the      *)
(* order of the table sees to it (metrics.go:28-56, 302-328).              *)
PeakCoversCurrent ==
  \A c \in Controllers :
    \A v \in Value(Number(Current[c])), p \in Value(Number(Peak[c])) : v <= p

(* What the lines of a file say of a sample's quantity, put down without   *)
(* the readers.                                                            *)
Word(value) == IF value = -1 THEN NoLimit ELSE value

Says(file, lines, s) ==
  CASE file = "cpu.max" ->
         lines[1][IF s.desc.name[2] = "quota" THEN 1 ELSE 2] = Word(s.value)
    [] file \in {"memory.stat", "cpu.stat", "io"} ->
         <<s.desc.name[2], s.value>> \in ToSet(lines)
    [] file = "io.stat" ->
         \E line \in ToSet(lines) :
           line[1] = s.labels /\ <<s.desc.name[2], s.value>> \in ToSet(Tail(line))
    [] OTHER -> lines = <<<<Word(s.value)>>>>

Of(file) == {s \in sent : s.desc.name[1] = file}

(* Every value exposed is one its file showed during this scrape, neither  *)
(* older nor made up, and -1 stands for no limit and nothing else          *)
(* (cgroup.go:62-129, iostat.go:24-113, procio.go:22-71).                  *)
HeldDuringScrape ==
  phase # "idle" =>
    \A file \in files : \A s \in Of(file) :
      \E c \in held : c[1] = file /\ Says(file, c[2], s)

(* "Quota / period = CPU limit in cores" (METRICS.md:56) of the two values *)
(* of one scrape, even when the limit is being changed: they are from one  *)
(* read.  The same goes for the counters of a device and of a process      *)
(* (collector.go:103-143, 218-243).                                        *)
ReadTogether ==
  phase # "idle" =>
    \A file \in files \cap {"cpu.max", "io.stat", "io"} :
      Of(file) # {} =>
        \E c \in held : c[1] = file /\ \A s \in Of(file) : Says(file, c[2], s)

(* "Number of periods in which the cgroup was throttled" (metrics.go:283)  *)
(* is at most the "Number of enforcement intervals" (metrics.go:273).      *)
ThrottledWithinPeriods ==
  \A t \in Value(<<"cpu.stat", "nr_throttled">>), p \in Value(<<"cpu.stat", "nr_periods">>) :
    t <= p

(* One file that cannot be read costs no other metric: of a cgroup that    *)
(* was found and is still there everything else is exposed, and of a       *)
(* process that is still there too (collector.go:81-147, 212-246).         *)
PresentIsSent ==
  phase = "gather" =>
    /\ ~missed /\ cgroup =>
         /\ \A i \in DOMAIN cgroupMetrics :
              cgroupMetrics[i].cgroupFile \in files \ absent =>
                Value(cgroupMetrics[i].desc.name) # {}
         /\ \A c \in held : c[1] = "cpu.max" => Cardinality(Of("cpu.max")) = 2
    /\ process /\ "io" \in files => Cardinality(Of("io")) = 6

(* Of the values of a cgroup and of a process none is sent under a series  *)
(* that was sent already, which would fail the scrape, and each has as     *)
(* many labels as its metric wants, without which the process panics: the  *)
(* table names no quantity twice, and two devices differ in their labels   *)
(* (metrics.go:9-12, 28-355, 500-566, collector.go:88-147, 236-243).       *)
RegistryAccepts == ~rejected

-----------------------------------------------------------------------------
(***************************************************************************)
(* Why.                                                                    *)
(***************************************************************************)
File(s) == s.desc.name[1]

(* What the files contain is remembered; nothing of a file that is absent. *)
HeldSoFar ==
  /\ phase # "idle" => Contents \subseteq held
  /\ \A c \in held : c[1] \in files /\ (c[1] # "io" => c[1] \notin absent)

(* Every file has its phase, and every row its turn: what is to be sent    *)
(* has not been sent before.                                               *)
SentInOrder ==
  \A s \in sent :
    /\ phase # "cgroup"
    /\ phase = "rows" =>
         \A i \in row..Len(cgroupMetrics) : s.desc.name # cgroupMetrics[i].desc.name
    /\ File(s) = "cpu.max" => phase # "rows" /\ (phase = "multi" => row > 1)
    /\ File(s) = "io.stat" => phase \notin {"rows", "multi", "iostat"}
    /\ File(s) = "io" => phase \in {"gather", "idle"}

(* The peak covers the current value, and every current value sent.        *)
PeakAhead ==
  \A c \in Controllers :
    Number(Peak[c]) \in Followed =>
      /\ Number(Current[c]) \in Followed => stat[Number(Current[c])] <= stat[Number(Peak[c])]
      /\ \A v \in Value(Number(Current[c])) : v \in Nat /\ v <= stat[Number(Peak[c])]

(* What is there, and had its turn, was sent.                              *)
SentSoFar ==
  /\ phase \notin {"idle", "cgroup"} /\ ~missed /\ cgroup =>
       /\ \A i \in DOMAIN cgroupMetrics :
            cgroupMetrics[i].cgroupFile \in files \ absent /\ (phase = "rows" => i < row) =>
              Value(cgroupMetrics[i].desc.name) # {}
       /\ "cpu.max" \in files \ absent /\ phase # "rows" /\ (phase = "multi" => row > 1) =>
            Cardinality(Of("cpu.max")) = 2
  /\ phase = "gather" /\ process /\ "io" \in files => Cardinality(Of("io")) = 6

ReadingsInv ==
  /\ ReadingsTypeOK
  /\ HeldSoFar
  /\ SentInOrder
  /\ PeakAhead
  /\ SentSoFar
  /\ PeakCoversCurrent
  /\ HeldDuringScrape
  /\ ReadTogether
  /\ RegistryAccepts
=============================================================================
