-------------------------- MODULE DiscoveryProofs --------------------------
(***************************************************************************)
(* Proofs about Discovery, for every node and every configuration: any     *)
(* number of pods, containers and processes, any filters, any churn.       *)
(***************************************************************************)
EXTENDS Discovery, TLAPS

-----------------------------------------------------------------------------
(***************************************************************************)
(* The node.                                                               *)
(***************************************************************************)

(* A change of the node leaves it well formed.                             *)
LEMMA HostTypeStep ==
  ASSUME HostTypeOK, HostNext
  PROVE  HostTypeOK'
<1> USE HostAssumption DEF HostAssumption, HostTypeOK, ProcessTables, Process, Owners, Churn, Alive
<1>1. ASSUME NEW p \in Pods, RunPod(p) \/ StopPod(p) PROVE HostTypeOK'
  BY <1>1 DEF RunPod, StopPod
<1>2. ASSUME NEW c \in Containers, StartContainer(c) PROVE HostTypeOK'
  BY <1>2 DEF StartContainer
<1>3. ASSUME NEW c \in Containers, StopContainer(c) PROVE HostTypeOK'
  BY <1>3 DEF StopContainer
<1>4. ASSUME NEW p \in Process, Fork(p) PROVE HostTypeOK'
  BY <1>4 DEF Fork
<1>5. ASSUME NEW p \in procs, NEW comm \in Comms, Exec(p, comm) PROVE HostTypeOK'
  BY <1>5 DEF Exec
<1>6. ASSUME NEW p \in procs, Exit(p) PROVE HostTypeOK'
  BY <1>6 DEF Exit
<1> QED
  BY <1>1, <1>2, <1>3, <1>4, <1>5, <1>6 DEF HostNext

(* ... and consistent: names stay unique, processes stay in containers     *)
(* that run, and these in sandboxes that are ready.                        *)
LEMMA HostConsistentStep ==
  ASSUME HostTypeOK, HostConsistent, HostNext
  PROVE  HostConsistent'
<1> USE HostAssumption DEF HostAssumption, HostTypeOK, ProcessTables, Process, Owners, Alive,
                           HostConsistent, NamesUnique
<1>1. ASSUME NEW p \in Pods, RunPod(p) PROVE HostConsistent'
  BY <1>1 DEF RunPod
<1>2. ASSUME NEW p \in Pods, StopPod(p) PROVE HostConsistent'
  BY <1>2 DEF StopPod
<1>3. ASSUME NEW c \in Containers, StartContainer(c) PROVE HostConsistent'
  BY <1>3 DEF StartContainer
<1>4. ASSUME NEW c \in Containers, StopContainer(c) PROVE HostConsistent'
  BY <1>4 DEF StopContainer
<1>5. ASSUME NEW p \in Process, Fork(p) PROVE HostConsistent'
  BY <1>5 DEF Fork
<1>6. ASSUME NEW p \in procs, NEW comm \in Comms, Exec(p, comm) PROVE HostConsistent'
  BY <1>6 DEF Exec
<1>7. ASSUME NEW p \in procs, Exit(p) PROVE HostConsistent'
  BY <1>7 DEF Exit
<1> QED
  BY <1>1, <1>2, <1>3, <1>4, <1>5, <1>6, <1>7 DEF HostNext

(* What a change of the node does not touch it leaves as it is.            *)
LEMMA HostKeeps ==
  ASSUME HostTypeOK, HostNext
  PROVE  /\ touched \subseteq touched'
         /\ \A c \in Containers : Untouched(c)' => ctrState'[c] = ctrState[c]
         /\ \A p : Untouched(p.pid)' => (p \in procs' <=> p \in procs)
<1> USE DEF HostTypeOK, ProcessTables, Process, Owners, Churn, Alive, Untouched
<1> DEFINE Keeps == /\ touched \subseteq touched'
                    /\ \A c \in Containers : Untouched(c)' => ctrState'[c] = ctrState[c]
                    /\ \A p : Untouched(p.pid)' => (p \in procs' <=> p \in procs)
<1>1. ASSUME NEW p \in Pods, RunPod(p) \/ StopPod(p) PROVE Keeps
  BY <1>1 DEF RunPod, StopPod
<1>2. ASSUME NEW c \in Containers, StartContainer(c) PROVE Keeps
  BY <1>2 DEF StartContainer
<1>3. ASSUME NEW c \in Containers, StopContainer(c) PROVE Keeps
  BY <1>3 DEF StopContainer
<1>4. ASSUME NEW p \in Process, Fork(p) PROVE Keeps
  BY <1>4 DEF Fork
<1>5. ASSUME NEW p \in procs, NEW comm \in Comms, Exec(p, comm) PROVE Keeps
  BY <1>5 DEF Exec
<1>6. ASSUME NEW p \in procs, Exit(p) PROVE Keeps
  BY <1>6 DEF Exit
<1> QED
  BY <1>1, <1>2, <1>3, <1>4, <1>5, <1>6 DEF HostNext

-----------------------------------------------------------------------------
(***************************************************************************)
(* Type correctness.                                                       *)
(***************************************************************************)
LEMMA DiscoveryTypeInit == DiscoveryInit => DiscoveryTypeOK
<1> SUFFICES ASSUME DiscoveryInit PROVE DiscoveryTypeOK
  OBVIOUS
<1>1. HostTypeOK
  BY HostAssumption DEF HostAssumption, DiscoveryInit, HostInit, HostTypeOK
<1>2. lost \subseteq {"pod"} \X Pods \cup {<<"procDir">>}
  BY DEF DiscoveryInit
<1>3. pids \in [Containers -> SUBSET ProcessInfo]
  BY DEF DiscoveryInit
<1> QED
  BY <1>1, <1>2, <1>3 DEF DiscoveryInit, DiscoveryTypeOK, Idle

LEMMA DiscoveryTypeStep ==
  ASSUME DiscoveryTypeOK, [DiscoveryNext]_dvars
  PROVE  DiscoveryTypeOK'
<1> USE DEF DiscoveryTypeOK, Idle, CriCall, hostVars
<1>1. CASE HostStep
  <2>1. HostTypeOK'
    BY <1>1, HostTypeStep DEF HostStep
  <2> QED
    BY <1>1, <2>1 DEF HostStep, discoveryVars
<1>2. CASE Begin
  BY <1>2 DEF Begin, HostTypeOK
<1>3. CASE Listing
  <2> USE DEF HostTypeOK
  <2>1. CASE Deadline \/ ListPodSandbox \/ ListPodSandboxFails
    BY <2>1 DEF Deadline, ListPodSandbox, ListPodSandboxFails
  <2>2. ASSUME NEW p \in Pods, ListContainers(p) PROVE DiscoveryTypeOK'
    BY <2>2 DEF ListContainers, Discovered
  <2>3. ASSUME NEW p \in Pods, ListContainersFails(p) PROVE DiscoveryTypeOK'
    BY <2>3 DEF ListContainersFails
  <2> QED
    BY <1>3, <2>1, <2>2, <2>3 DEF Listing
<1>4. CASE Scanning
  <2> USE DEF HostTypeOK, ProcessTables, Process
  <2>1. CASE ReadDir
    <3>1. \A p \in procs : p.pid \in Pids
      OBVIOUS
    <3>2. entries' \subseteq Pids
      BY <2>1, <3>1 DEF ReadDir
    <3>3. /\ UNCHANGED <<hostVars, sandboxes, found, pids, cur, lost>>
          /\ dpc' = "readCgroup" /\ expired' \in BOOLEAN
      BY <2>1 DEF ReadDir
    <3> HIDE DEF Process, ProcessTables
    <3> QED
      BY <3>2, <3>3
  <2>6. CASE ScanEnds
    BY <2>6 DEF ScanEnds
  <2>5. CASE ReadDirFails
    <3>1. lost' \subseteq {"pod"} \X Pods \cup {<<"procDir">>}
      BY <2>5 DEF ReadDirFails
    <3> QED
      BY <2>5, <3>1 DEF ReadDirFails
  <2>2. CASE readCgroup
    BY <2>2 DEF readCgroup
  <2>3. CASE getComm
    BY <2>3 DEF getComm
  <2>4. CASE getNamespacePID
    <3>1. /\ dpc = "getNamespacePID"
          /\ cur \in [pid : Pids, cgroup : Owners, comm : Comms]
      BY <2>4 DEF getNamespacePID
    <3>2. [pid |-> cur.pid, comm |-> cur.comm] \in ProcessInfo
      BY <3>1 DEF ProcessInfo
    <3>3. pids' \in [Containers -> SUBSET ProcessInfo]
      BY <2>4, <3>2 DEF getNamespacePID
    <3> QED
      BY <2>4, <3>3 DEF getNamespacePID
  <2> QED
    BY <1>4, <2>1, <2>2, <2>3, <2>4, <2>5, <2>6 DEF Scanning
<1>5. CASE UNCHANGED dvars
  BY <1>5 DEF dvars, discoveryVars, HostTypeOK
<1> QED
  BY <1>1, <1>2, <1>3, <1>4, <1>5 DEF DiscoveryNext

(* Every variable keeps its type on every node.                            *)
THEOREM DiscoveryTypeCorrect == DiscoverySpec => []DiscoveryTypeOK
<1>1. DiscoveryInit => DiscoveryTypeOK
  BY DiscoveryTypeInit
<1>2. DiscoveryTypeOK /\ [DiscoveryNext]_dvars => DiscoveryTypeOK'
  BY DiscoveryTypeStep
<1> QED
  BY <1>1, <1>2, PTL DEF DiscoverySpec

-----------------------------------------------------------------------------
(***************************************************************************)
(* The inductive invariant DiscoveryInv.                                   *)
(***************************************************************************)
LEMMA DiscoveryInvInit == DiscoveryInit => DiscoveryInv
<1> SUFFICES ASSUME DiscoveryInit PROVE DiscoveryInv
  OBVIOUS
<1>1. DiscoveryTypeOK
  BY DiscoveryTypeInit
<1>2. HostConsistent
  BY DEF DiscoveryInit, HostInit
<1>3. dpc = "idle" /\ sandboxes = {} /\ found = {} /\ entries = {}
      /\ \A c \in Containers : pids[c] = {}
  BY DEF DiscoveryInit
<1>4. ControlPoints
  BY <1>3 DEF ControlPoints
<1>5. ListingInv
  BY <1>3 DEF ListingInv, FoundWereRunning, OneSnapshot, LabelsIdentifyContainer,
              StableContainersPending, StableContainersFound, Listed
<1>6. ScanInv
  BY <1>3 DEF ScanInv, ExaminedProcess, AttachedProcesses, VisitedOnce, Examining,
              OneContainerPerProcess, StableProcessesPending, StableProcessesAttached, Scan
<1> QED
  BY <1>1, <1>2, <1>4, <1>5, <1>6 DEF DiscoveryInv

LEMMA ConsistentStep ==
  ASSUME DiscoveryTypeOK, HostConsistent, [DiscoveryNext]_dvars
  PROVE  HostConsistent'
<1>1. CASE HostStep
  BY <1>1, HostConsistentStep DEF HostStep, DiscoveryTypeOK
<1>2. CASE ~HostStep
  <2>1. UNCHANGED <<podState, ctrState, procs>>
    BY <1>2 DEF DiscoveryNext, Begin, Listing, Deadline, ListPodSandbox,
                ListPodSandboxFails, ListContainers, ListContainersFails, Scanning,
                ReadDir, ReadDirFails, readCgroup, getComm, getNamespacePID, ScanEnds,
                dvars, hostVars
  <2> QED
    BY <2>1 DEF HostConsistent, NamesUnique
<1> QED
  BY <1>1, <1>2

LEMMA ControlPointsStep ==
  ASSUME DiscoveryTypeOK, ControlPoints, [DiscoveryNext]_dvars
  PROVE  ControlPoints'
<1> USE DEF DiscoveryTypeOK, ControlPoints, Scan, CriCall, Idle
<1>1. CASE HostStep \/ UNCHANGED dvars
  BY <1>1 DEF HostStep, discoveryVars, dvars
<1>2. CASE Begin
  BY <1>2 DEF Begin
<1>3. CASE Listing
  BY <1>3 DEF Listing, Deadline, ListPodSandbox, ListPodSandboxFails, ListContainers,
              ListContainersFails
<1>4. CASE Scanning
  BY <1>4 DEF Scanning, ReadDir, ReadDirFails, readCgroup, getComm, getNamespacePID,
              ScanEnds
<1> QED
  BY <1>1, <1>2, <1>3, <1>4 DEF DiscoveryNext

(* While the node changes, what it has not touched yet becomes less.       *)
LEMMA StableBefore ==
  ASSUME DiscoveryTypeOK, HostStep
  PROVE  /\ touched \subseteq touched'
         /\ \A c \in Containers : StableContainer(c)' => StableContainer(c)
         /\ \A c \in Containers : Untouched(c)' => Untouched(c) /\ ctrState'[c] = ctrState[c]
         /\ \A p : Untouched(p.pid)' => Untouched(p.pid) /\ (p \in procs' <=> p \in procs)
BY HostKeeps, HostAssumption
   DEF HostAssumption, HostStep, DiscoveryTypeOK, StableContainer, Untouched

(* The listing of sandboxes and containers.                                *)
LEMMA ListingInvStep ==
  ASSUME DiscoveryTypeOK, HostConsistent, ControlPoints, ListingInv,
         [DiscoveryNext]_dvars
  PROVE  ListingInv'
<1> USE DEF ListingInv
<1>1. CASE HostStep
  <2>1. UNCHANGED discoveryVars
    BY <1>1 DEF HostStep
  <2>2. FoundWereRunning'
    BY <1>1, <2>1, StableBefore DEF FoundWereRunning, discoveryVars, DiscoveryTypeOK
  <2>3. OneSnapshot' /\ LabelsIdentifyContainer'
    BY <2>1 DEF OneSnapshot, LabelsIdentifyContainer, discoveryVars
  <2>4. StableContainersPending' /\ StableContainersFound'
    BY <1>1, <2>1, StableBefore
       DEF StableContainersPending, StableContainersFound, discoveryVars, Listed
  <2> QED
    BY <2>2, <2>3, <2>4
<1>2. CASE Begin
  BY <1>2 DEF Begin, Idle, ControlPoints, FoundWereRunning, OneSnapshot,
              LabelsIdentifyContainer, StableContainersPending, StableContainersFound,
              Listed
<1>3. CASE ListPodSandbox
  <2>1. found = {} /\ found' = {} /\ dpc' = "listContainers"
    BY <1>3 DEF ListPodSandbox, ControlPoints
  <2>2. FoundWereRunning' /\ LabelsIdentifyContainer' /\ StableContainersFound'
    BY <2>1 DEF FoundWereRunning, LabelsIdentifyContainer, StableContainersFound, Listed
  <2>3. OneSnapshot'
    BY <1>3, <2>1 DEF ListPodSandbox, OneSnapshot, HostConsistent, NamesUnique
  <2>4. StableContainersPending'
    BY <1>3, HostAssumption
       DEF ListPodSandbox, StableContainersPending, StableContainer, HostConsistent,
           HostAssumption, hostVars
  <2> QED
    BY <2>2, <2>3, <2>4
<1>4. ASSUME NEW p \in Pods, ListContainers(p) PROVE ListingInv'
  <2> USE HostAssumption DEF HostAssumption, ListContainers, hostVars
  <2>1. \A c \in Discovered(p) :
          c \in Containers /\ PodOf[c] = p /\ ctrState[c] = "running"
          /\ MatchesContainer(Label(c))
    BY DEF Discovered
  <2>2. FoundWereRunning'
    BY <1>4, <2>1 DEF FoundWereRunning, Untouched
  <2>3. OneSnapshot'
    BY <1>4, <2>1 DEF OneSnapshot
  <2>4. LabelsIdentifyContainer'
    <3> SUFFICES ASSUME NEW c \in found', NEW d \in found', Label(c) = Label(d)
                 PROVE  c = d
      BY DEF LabelsIdentifyContainer
    <3>1. found' = found \cup Discovered(p) /\ p \in sandboxes
      BY <1>4
    <3>2. PodMeta[PodOf[c]] = PodMeta[PodOf[d]]
      <4>1. c \in Containers /\ d \in Containers
        BY <3>1, <2>1 DEF DiscoveryTypeOK
      <4>2. /\ PodMeta[PodOf[c]] \in [namespace : STRING, pod : STRING]
            /\ PodMeta[PodOf[d]] \in [namespace : STRING, pod : STRING]
        BY <4>1
      <4> QED
        BY <4>2 DEF Label
    <3>3. PodOf[c] = PodOf[d]
      BY <2>1, <3>1, <3>2 DEF OneSnapshot
    <3>4. CASE c \in found /\ d \in found
      BY <3>4 DEF LabelsIdentifyContainer
    <3>5. CASE c \in Discovered(p) /\ d \in Discovered(p)
      BY <3>5, <2>1 DEF HostConsistent, NamesUnique
    <3>6. ~(c \in found /\ d \in Discovered(p)) /\ ~(d \in found /\ c \in Discovered(p))
      BY <3>1, <3>3, <2>1 DEF OneSnapshot
    <3> QED
      BY <3>1, <3>4, <3>5, <3>6
  <2>5. StableContainersPending'
    BY <1>4 DEF StableContainersPending, StableContainer, Discovered, Untouched
  <2>6. StableContainersFound'
    BY <1>4 DEF StableContainersFound, Listed
  <2> QED
    BY <2>2, <2>3, <2>4, <2>5, <2>6
<1>5. ASSUME NEW p \in Pods, ListContainersFails(p) PROVE ListingInv'
  <2> USE <1>5 DEF ListContainersFails, hostVars
  <2>1. FoundWereRunning' /\ LabelsIdentifyContainer'
    BY DEF FoundWereRunning, LabelsIdentifyContainer, Untouched
  <2>2. OneSnapshot'
    BY DEF OneSnapshot
  <2>3. StableContainersPending'
    BY DEF StableContainersPending, StableContainer, Untouched
  <2>4. StableContainersFound'
    BY DEF StableContainersFound, Listed
  <2> QED
    BY <2>1, <2>2, <2>3, <2>4
<1>6. CASE Deadline \/ ListPodSandboxFails \/ Scanning \/ UNCHANGED dvars
  <2>1. UNCHANGED <<hostVars, found, sandboxes>>
    BY <1>6 DEF Deadline, ListPodSandboxFails, Scanning, ReadDir, ReadDirFails,
                readCgroup, getComm, getNamespacePID, ScanEnds, dvars, discoveryVars
  <2>2. FoundWereRunning' /\ OneSnapshot' /\ LabelsIdentifyContainer'
    BY <2>1 DEF FoundWereRunning, OneSnapshot, LabelsIdentifyContainer, Untouched, hostVars
  <2>3. \A c \in Containers : StableContainer(c)' <=> StableContainer(c)
    BY <2>1 DEF StableContainer, Untouched, hostVars
  <2>4. /\ \A q \in Pods : <<"pod", q>> \in lost => <<"pod", q>> \in lost'
        /\ dpc' = "listContainers" => dpc = "listContainers"
        /\ dpc' \in Listed => dpc \in Listed \/ (dpc = "listContainers" /\ sandboxes = {})
    BY <1>6 DEF Deadline, ListPodSandboxFails, Scanning, ReadDir, ReadDirFails,
                readCgroup, getComm, getNamespacePID, ScanEnds, dvars, discoveryVars, Listed
  <2>5. StableContainersPending' /\ StableContainersFound'
    BY <2>1, <2>3, <2>4, HostAssumption
       DEF StableContainersPending, StableContainersFound, HostAssumption
  <2> QED
    BY <2>2, <2>5
<1> QED
  BY <1>1, <1>2, <1>3, <1>4, <1>5, <1>6 DEF DiscoveryNext, Listing

(* The scan of /proc, a change of the node first.                          *)
LEMMA ScanInvHostStep ==
  ASSUME DiscoveryTypeOK, ScanInv, HostStep
  PROVE  ScanInv'
<1> USE DEF ScanInv, discoveryVars
<1>1. UNCHANGED discoveryVars
  BY DEF HostStep
<1>2. /\ touched \subseteq touched'
      /\ \A p : Untouched(p.pid)' => Untouched(p.pid) /\ (p \in procs' <=> p \in procs)
  BY StableBefore
<1>3. ExaminedProcess'
  <2>1. ASSUME dpc = "getComm", Untouched(cur.pid)'
        PROVE  \E p \in procs' : p.pid = cur.pid /\ p.owner = cur.cgroup
    <3>1. cur \in [pid : Pids, cgroup : Owners]
      BY <2>1 DEF DiscoveryTypeOK
    <3>2. Untouched(cur.pid)
      BY <2>1, <1>1, <1>2 DEF Untouched
    <3>3. PICK p \in procs : p.pid = cur.pid /\ p.owner = cur.cgroup
      BY <2>1, <3>2 DEF ExaminedProcess
    <3>4. Untouched(p.pid)'
      BY <2>1, <3>3, <1>1
    <3> QED
      BY <3>3, <3>4, <1>2
  <2>2. ASSUME dpc = "getNamespacePID", Untouched(cur.pid)'
        PROVE  [pid |-> cur.pid, owner |-> cur.cgroup, comm |-> cur.comm] \in procs'
    <3> DEFINE p == [pid |-> cur.pid, owner |-> cur.cgroup, comm |-> cur.comm]
    <3>1. Untouched(cur.pid)
      BY <2>2, <1>1, <1>2 DEF Untouched
    <3>2. p \in procs
      BY <2>2, <3>1 DEF ExaminedProcess
    <3>3. p.pid \notin touched'
      BY <2>2, <1>1 DEF Untouched
    <3> QED
      BY <3>2, <3>3, <1>2 DEF Untouched
  <2> QED
    BY <1>1, <2>1, <2>2 DEF ExaminedProcess
<1>4. AttachedProcesses'
  <2> SUFFICES ASSUME NEW c \in Containers, NEW e \in pids[c]
               PROVE  /\ c \in found
                      /\ MatchesProcess(Label(c), e.comm)
                      /\ Untouched(e.pid)' =>
                           [pid |-> e.pid, owner |-> c, comm |-> e.comm] \in procs'
    BY <1>1 DEF AttachedProcesses
  <2> DEFINE p == [pid |-> e.pid, owner |-> c, comm |-> e.comm]
  <2>1. Untouched(p.pid)' => Untouched(p.pid) /\ (p \in procs' <=> p \in procs)
    BY <1>2
  <2> QED
    BY <2>1 DEF AttachedProcesses
<1>5. VisitedOnce' /\ OneContainerPerProcess'
  BY <1>1 DEF VisitedOnce, OneContainerPerProcess, Examining
<1>6. StableProcessesPending'
  BY <1>1, <1>2 DEF StableProcessesPending, Examining
<1>7. StableProcessesAttached'
  BY <1>1, <1>2 DEF StableProcessesAttached
<1> QED
  BY <1>3, <1>4, <1>5, <1>6, <1>7

(* Then the steps that read nothing of a process.                          *)
LEMMA ScanInvListing ==
  ASSUME DiscoveryTypeOK, ControlPoints, ScanInv,
         Begin \/ Listing \/ ReadDir \/ ReadDirFails \/ ScanEnds \/ UNCHANGED dvars
  PROVE  ScanInv'
<1> USE DEF ScanInv, ControlPoints, ExaminedProcess, AttachedProcesses, VisitedOnce,
            OneContainerPerProcess, StableProcessesPending, StableProcessesAttached,
            Scan, Examining, Untouched, Idle, CriCall, hostVars
<1>1. CASE Begin
  BY <1>1 DEF Begin
<1>2. CASE Listing
  <2>1. /\ UNCHANGED <<hostVars, pids, entries>>
        /\ dpc \in CriCall
        /\ dpc' \in CriCall \cup {"failed"}
    BY <1>2 DEF Listing, Deadline, ListPodSandbox, ListPodSandboxFails, ListContainers,
                ListContainersFails
  <2> QED
    BY <2>1
<1>3. CASE ReadDir
  BY <1>3 DEF ReadDir
<1>4. CASE ReadDirFails
  BY <1>4 DEF ReadDirFails
<1>5. CASE ScanEnds
  BY <1>5 DEF ScanEnds
<1>6. CASE UNCHANGED dvars
  BY <1>6 DEF dvars, discoveryVars
<1> QED
  BY <1>1, <1>2, <1>3, <1>4, <1>5, <1>6

(* Then the three reads of a process.                                      *)
LEMMA ScanInvRead ==
  ASSUME DiscoveryTypeOK, ControlPoints, ScanInv, readCgroup \/ getComm
  PROVE  ScanInv'
<1> USE DEF ScanInv, DiscoveryTypeOK, HostTypeOK, ProcessTables, Process, Scan,
            Examining, Untouched, hostVars
<1>1. CASE readCgroup
  <2>1. ExaminedProcess'
    BY <1>1 DEF readCgroup, ExaminedProcess
  <2>2. AttachedProcesses' /\ OneContainerPerProcess' /\ StableProcessesAttached'
    BY <1>1 DEF readCgroup, AttachedProcesses, OneContainerPerProcess,
                StableProcessesAttached
  <2>3. VisitedOnce'
    BY <1>1 DEF readCgroup, VisitedOnce
  <2>4. StableProcessesPending'
    BY <1>1 DEF readCgroup, StableProcessesPending, Alive
  <2> QED
    BY <2>1, <2>2, <2>3, <2>4
<1>2. CASE getComm
  <2>1. ExaminedProcess'
    BY <1>2 DEF getComm, ExaminedProcess
  <2>2. AttachedProcesses' /\ OneContainerPerProcess' /\ StableProcessesAttached'
    BY <1>2 DEF getComm, AttachedProcesses, OneContainerPerProcess,
                StableProcessesAttached
  <2>3. VisitedOnce'
    BY <1>2 DEF getComm, VisitedOnce
  <2>4. StableProcessesPending'
    BY <1>2 DEF getComm, StableProcessesPending, Alive
  <2> QED
    BY <2>1, <2>2, <2>3, <2>4
<1> QED
  BY <1>1, <1>2

LEMMA ScanInvAttach ==
  ASSUME DiscoveryTypeOK, ControlPoints, ScanInv, getNamespacePID
  PROVE  ScanInv'
<1> USE DEF ScanInv, getNamespacePID, hostVars, Untouched
<1> DEFINE e == [pid |-> cur.pid, comm |-> cur.comm]
<1>1. /\ dpc = "getNamespacePID" /\ dpc' = "readCgroup"
      /\ cur \in [pid : Pids, cgroup : Owners, comm : Comms]
      /\ pids \in [Containers -> SUBSET ProcessInfo]
      /\ UNCHANGED <<procs, touched, found, entries>>
  BY DEF DiscoveryTypeOK
<1>2. \A c \in Containers :
        pids'[c] = IF Alive(cur.pid) /\ c \in BelongsTo(cur)
                   THEN pids[c] \cup {e} ELSE pids[c]
  BY <1>1
<1>3. \A c \in Containers :
        c \in BelongsTo(cur) <=> /\ c \in found
                                 /\ c = cur.cgroup
                                 /\ MatchesProcess(Label(c), cur.comm)
  BY <1>1 DEF BelongsTo
<1>4. Untouched(cur.pid) =>
        [pid |-> cur.pid, owner |-> cur.cgroup, comm |-> cur.comm] \in procs
  BY <1>1 DEF ExaminedProcess
<1>5. cur.pid \notin entries /\ \A c \in Containers : \A f \in pids[c] : f.pid # cur.pid
  BY <1>1 DEF VisitedOnce, Examining
<1>6. ExaminedProcess'
  BY <1>1 DEF ExaminedProcess
<1>7. AttachedProcesses'
  <2> SUFFICES ASSUME NEW c \in Containers, NEW f \in pids'[c]
               PROVE  /\ c \in found
                      /\ MatchesProcess(Label(c), f.comm)
                      /\ f.pid \notin touched =>
                           [pid |-> f.pid, owner |-> c, comm |-> f.comm] \in procs
    BY <1>1 DEF AttachedProcesses
  <2>1. CASE f \in pids[c]
    BY <2>1 DEF AttachedProcesses
  <2>2. CASE f = e /\ c \in BelongsTo(cur)
    BY <2>2, <1>3, <1>4
  <2> QED
    BY <1>2, <2>1, <2>2
<1>8. VisitedOnce'
  BY <1>1, <1>2, <1>5 DEF VisitedOnce, Examining
<1>9. OneContainerPerProcess'
  <2> SUFFICES ASSUME NEW c \in Containers, NEW d \in Containers,
                      NEW f \in pids'[c], NEW g \in pids'[d], f.pid = g.pid
               PROVE  c = d /\ f = g
    BY DEF OneContainerPerProcess
  <2>1. CASE f \in pids[c] /\ g \in pids[d]
    BY <2>1 DEF OneContainerPerProcess
  <2>2. CASE f = e /\ g = e /\ c \in BelongsTo(cur) /\ d \in BelongsTo(cur)
    BY <2>2, <1>3
  <2>3. ~(f \in pids[c] /\ g = e) /\ ~(f = e /\ g \in pids[d])
    BY <1>5
  <2> QED
    BY <1>2, <2>1, <2>2, <2>3
<1>10. StableProcessesPending'
  <2> SUFFICES ASSUME NEW p \in procs,
                      p.pid \notin touched, p.owner \in found,
                      MatchesProcess(Label(p.owner), p.comm), p.pid \notin entries
               PROVE  [pid |-> p.pid, comm |-> p.comm] \in pids'[p.owner]
    BY <1>1 DEF StableProcessesPending
  <2>1. p.owner \in Containers
    BY DEF DiscoveryTypeOK
  <2>2. CASE cur.pid = p.pid
    <3>1. p = [pid |-> cur.pid, owner |-> cur.cgroup, comm |-> cur.comm]
      BY <1>4, <2>2 DEF DiscoveryTypeOK, HostTypeOK, ProcessTables
    <3>2. Alive(cur.pid)
      BY <2>2 DEF Alive
    <3>3. p.owner = cur.cgroup /\ p.comm = cur.comm
      BY <3>1
    <3>4. p.owner \in BelongsTo(cur)
      BY <1>3, <2>1, <3>3
    <3> QED
      BY <1>2, <2>1, <2>2, <3>2, <3>3, <3>4
  <2>3. CASE cur.pid # p.pid
    <3>1. [pid |-> p.pid, comm |-> p.comm] \in pids[p.owner]
      BY <1>1, <2>3 DEF StableProcessesPending, Scan, Examining
    <3> QED
      BY <1>2, <2>1, <3>1
  <2> QED
    BY <2>2, <2>3
<1>11. StableProcessesAttached'
  BY <1>1 DEF StableProcessesAttached
<1> QED
  BY <1>6, <1>7, <1>8, <1>9, <1>10, <1>11

LEMMA DiscoveryInvStep ==
  ASSUME DiscoveryInv, [DiscoveryNext]_dvars
  PROVE  DiscoveryInv'
<1> USE DEF DiscoveryInv
<1>1. DiscoveryTypeOK' /\ HostConsistent' /\ ControlPoints' /\ ListingInv'
  BY DiscoveryTypeStep, ConsistentStep, ControlPointsStep, ListingInvStep
<1>2. ScanInv'
  BY ScanInvHostStep, ScanInvListing, ScanInvRead, ScanInvAttach
     DEF DiscoveryNext, Scanning
<1> QED
  BY <1>1, <1>2

(* The invariant holds of every discovery, and of the node under it.       *)
THEOREM DiscoveryInvariant == DiscoverySpec => []DiscoveryInv
<1>1. DiscoveryInit => DiscoveryInv
  BY DiscoveryInvInit
<1>2. DiscoveryInv /\ [DiscoveryNext]_dvars => DiscoveryInv'
  BY DiscoveryInvStep
<1> QED
  BY <1>1, <1>2, PTL DEF DiscoverySpec

-----------------------------------------------------------------------------
(***************************************************************************)
(* The safety properties, each a part of the invariant.                    *)
(***************************************************************************)

(* What is found was selected and ran during this very discovery           *)
(* (kubernetes.go:66-106).                                                 *)
THEOREM FoundCorrect == DiscoverySpec => []FoundWereRunning
<1>1. DiscoveryInv => FoundWereRunning
  BY DEF DiscoveryInv, ListingInv
<1> QED
  BY <1>1, DiscoveryInvariant, PTL

(* No selected container that ran all along is missing, but for a listing  *)
(* that failed (kubernetes.go:66-106).                                     *)
THEOREM ContainersCorrect == DiscoverySpec => []StableContainersFound
<1>1. DiscoveryInv => StableContainersFound
  BY DEF DiscoveryInv, ListingInv
<1> QED
  BY <1>1, DiscoveryInvariant, PTL

(* The labels tell the containers found apart, however often they and      *)
(* their pods are replaced meanwhile (kubernetes.go:66-106).               *)
THEOREM LabelsCorrect == DiscoverySpec => []LabelsIdentifyContainer
<1>1. DiscoveryInv => LabelsIdentifyContainer
  BY DEF DiscoveryInv, ListingInv
<1> QED
  BY <1>1, DiscoveryInvariant, PTL

(* A process attached to a container and left alone is its own, under the  *)
(* name recorded (kubernetes.go:136-158).                                  *)
THEOREM ProcessesCorrect == DiscoverySpec => []AttachedProcesses
<1>1. DiscoveryInv => AttachedProcesses
  BY DEF DiscoveryInv, ScanInv
<1> QED
  BY <1>1, DiscoveryInvariant, PTL

(* No pid is attached twice, however often it is reused                    *)
(* (kubernetes.go:150-158).                                                *)
THEOREM ProcessesOnce == DiscoverySpec => []OneContainerPerProcess
<1>1. DiscoveryInv => OneContainerPerProcess
  BY DEF DiscoveryInv, ScanInv
<1> QED
  BY <1>1, DiscoveryInvariant, PTL

(* No selected process that was there all along is missing, unless /proc   *)
(* could not be listed (kubernetes.go:118-158).                            *)
THEOREM ProcessesComplete == DiscoverySpec => []StableProcessesAttached
<1>1. DiscoveryInv => StableProcessesAttached
  BY DEF DiscoveryInv, ScanInv
<1> QED
  BY <1>1, DiscoveryInvariant, PTL
=============================================================================
