----------------------------- MODULE Discovery -----------------------------
(***************************************************************************)
(* KubernetesClient.DiscoverContainers (kubernetes.go): the CRI is asked   *)
(* for the pod sandboxes, then sandbox by sandbox for its containers, then *)
(* /proc is scanned once and each process is attached to its container.    *)
(* Every answer is a snapshot the node is free to leave behind at once.    *)
(*                                                                         *)
(* The CRI calls share one deadline, the context of Collect; nothing else  *)
(* of the discovery is bounded by it.  "A call is under way" is the        *)
(* control point before it: the step that ends it is the answer, an error, *)
(* or, once the deadline has passed, always an error.                      *)
(***************************************************************************)
EXTENDS Host

VARIABLES
  dpc,        \* control point of the discovery
  expired,    \* the context's deadline has passed, while calls are to be made
  sandboxes,  \* ready sandboxes whose containers are still to be listed
  found,      \* the containers discovered
  pids,       \* Container.PIDs of each: the processes attached to it
  entries,    \* directory entries of /proc still to be visited
  cur,        \* the process being examined: what was read of it so far
  lost        \* failures that were logged and passed over

discoveryVars == <<dpc, expired, sandboxes, found, pids, entries, cur, lost>>
dvars == <<hostVars, discoveryVars>>

(* PIDs lists its processes in the order of the scan, and only the first   *)
(* of them is ever singled out, so a set together with the order of the    *)
(* pids stands for the slice.                                              *)
ProcessInfo == [pid : Pids, comm : Comms]

IsFirst(e, processes) == e \in processes /\ \A f \in processes : e.pid <= f.pid

(* What is known of the process under examination: after the first read    *)
(* its cgroup, after the second its comm as well.                          *)
Examined == [pid : Pids, cgroup : Owners] \cup
            [pid : Pids, cgroup : Owners, comm : Comms]

Idle    == {"idle", "done", "failed"}
CriCall == {"listPodSandbox", "listContainers"}

DiscoveryTypeOK ==
  /\ HostTypeOK
  /\ dpc \in Idle \cup CriCall \cup
       {"readCgroup", "getComm", "getNamespacePID"}
  /\ expired \in BOOLEAN
  /\ sandboxes \subseteq Pods
  /\ found \subseteq Containers
  /\ pids \in [Containers -> SUBSET ProcessInfo]
  /\ entries \subseteq Pids
  /\ dpc = "getComm" => cur \in [pid : Pids, cgroup : Owners]
  /\ dpc = "getNamespacePID" => cur \in [pid : Pids, cgroup : Owners, comm : Comms]
  /\ lost \subseteq {"pod"} \X Pods \cup {<<"procDir">>}

NoProcess == [pid |-> 0]

DiscoveryInit ==
  /\ HostInit
  /\ dpc = "idle"
  /\ expired = FALSE
  /\ sandboxes = {}
  /\ found = {}
  /\ pids = [c \in Containers |-> {}]
  /\ entries = {}
  /\ cur = NoProcess
  /\ lost = {}

-----------------------------------------------------------------------------
(* Mutants: the containers, or their processes, are kept between scrapes.  *)
Begin_KeepFound ==
  /\ dpc \in Idle
  /\ dpc' = "listPodSandbox"
  /\ expired' = FALSE
  /\ pids' = [c \in Containers |-> {}]
  /\ lost' = {}
  /\ touched' = {}
  /\ UNCHANGED <<podState, ctrState, procs, churn, sandboxes, entries, cur, found>>

Begin_KeepPIDs ==
  /\ dpc \in Idle
  /\ dpc' = "listPodSandbox"
  /\ expired' = FALSE
  /\ found' = {}
  /\ lost' = {}
  /\ touched' = {}
  /\ UNCHANGED <<podState, ctrState, procs, churn, sandboxes, entries, cur, pids>>

(* Collect calls discover with a fresh context; the results of an earlier  *)
(* discovery, which stay until then, are gone.                             *)
Begin ==
  /\ dpc \in Idle
  /\ dpc' = "listPodSandbox"
  /\ expired' = FALSE
  /\ found' = {}
  /\ pids' = [c \in Containers |-> {}]
  /\ lost' = {}
  /\ touched' = {}
  /\ UNCHANGED <<podState, ctrState, procs, churn, sandboxes, entries, cur>>

(* discoveryTimeout passes while a CRI call is under way.                  *)
Deadline ==
  /\ dpc \in CriCall
  /\ ~expired
  /\ expired' = TRUE
  /\ UNCHANGED <<hostVars, dpc, sandboxes, found, pids, entries, cur, lost>>

ListPodSandbox ==
  /\ dpc = "listPodSandbox"
  /\ ~expired
  /\ sandboxes' = {p \in Pods : podState[p] = "ready"}
  /\ dpc' = "listContainers"
  /\ UNCHANGED <<hostVars, expired, found, pids, entries, cur, lost>>

(* The error ends the discovery: no container is returned.                 *)
ListPodSandboxFails ==
  /\ dpc = "listPodSandbox"
  /\ dpc' = "failed"
  /\ expired' = FALSE
  /\ UNCHANGED <<hostVars, sandboxes, found, pids, entries, cur, lost>>

Discovered(p) ==
  {c \in Containers :
     PodOf[c] = p /\ ctrState[c] = "running" /\ MatchesContainer(Label(c))}

ListContainers(p) ==
  /\ dpc = "listContainers"
  /\ p \in sandboxes
  /\ ~expired
  /\ found' = found \cup Discovered(p)
  /\ sandboxes' = sandboxes \ {p}
  /\ UNCHANGED <<hostVars, dpc, expired, pids, entries, cur, lost>>

(* Mutants: the error ends the listing, or lets it begin again with the    *)
(* sandboxes that are ready by then.                                       *)
ListContainersFails_Break(p) ==
  /\ dpc = "listContainers"
  /\ p \in sandboxes
  /\ sandboxes' = {}
  /\ lost' = lost \cup {<<"pod", p>>}
  /\ UNCHANGED <<hostVars, dpc, expired, found, pids, entries, cur>>

ListContainersFails_Relist(p) ==
  /\ dpc = "listContainers"
  /\ p \in sandboxes
  /\ sandboxes' = {q \in Pods : podState[q] = "ready"} \ ({p} \cup {PodOf[c] : c \in found})
  /\ lost' = lost \cup {<<"pod", p>>}
  /\ UNCHANGED <<hostVars, dpc, expired, found, pids, entries, cur>>

(* The error costs this pod's containers and is only logged.               *)
ListContainersFails(p) ==
  /\ dpc = "listContainers"
  /\ p \in sandboxes
  /\ sandboxes' = sandboxes \ {p}
  /\ lost' = lost \cup {<<"pod", p>>}
  /\ UNCHANGED <<hostVars, dpc, expired, found, pids, entries, cur>>

(* All sandboxes are listed: read the directory /proc.                     *)
ReadDir ==
  /\ dpc = "listContainers"
  /\ sandboxes = {}
  /\ entries' = {p.pid : p \in procs}
  /\ dpc' = "readCgroup"
  /\ expired' = FALSE
  /\ UNCHANGED <<hostVars, sandboxes, found, pids, cur, lost>>

(* The error leaves every container without processes and is only logged.  *)
ReadDirFails ==
  /\ dpc = "listContainers"
  /\ sandboxes = {}
  /\ lost' = lost \cup {<<"procDir">>}
  /\ dpc' = "done"
  /\ expired' = FALSE
  /\ UNCHANGED <<hostVars, sandboxes, found, pids, entries, cur>>

-----------------------------------------------------------------------------
(* Mutant: a process that is gone ends the scan.                           *)
readCgroup_Return ==
  /\ dpc = "readCgroup"
  /\ \E pid \in entries :
       /\ \A q \in entries : pid <= q
       /\ \/ \E p \in procs :
               /\ p.pid = pid
               /\ cur' = [pid |-> pid, cgroup |-> p.owner]
               /\ dpc' = "getComm"
               /\ entries' = entries \ {pid}
          \/ ~Alive(pid) /\ entries' = {} /\ UNCHANGED <<cur, dpc>>
  /\ UNCHANGED <<hostVars, expired, sandboxes, found, pids, lost>>

(* The scan reads three files of a process, one after the other; each read *)
(* shows the process that has the pid by then, and when there is none the  *)
(* entry is passed over in silence.                                        *)
readCgroup ==
  /\ dpc = "readCgroup"
  /\ \E pid \in entries :
       /\ \A q \in entries : pid <= q
       /\ entries' = entries \ {pid}
       /\ \/ \E p \in procs :
               /\ p.pid = pid
               /\ cur' = [pid |-> pid, cgroup |-> p.owner]
               /\ dpc' = "getComm"
          \/ ~Alive(pid) /\ UNCHANGED <<cur, dpc>>
  /\ UNCHANGED <<hostVars, expired, sandboxes, found, pids, lost>>

getComm ==
  /\ dpc = "getComm"
  /\ \/ \E p \in procs :
          /\ p.pid = cur.pid
          /\ cur' = [pid |-> cur.pid, cgroup |-> cur.cgroup, comm |-> p.comm]
          /\ dpc' = "getNamespacePID"
     \/ ~Alive(cur.pid) /\ cur' = NoProcess /\ dpc' = "readCgroup"
  /\ UNCHANGED <<hostVars, expired, sandboxes, found, pids, entries, lost>>

(* Mutants: the cgroup, or the command filter, is not looked at.           *)
BelongsTo_AnyCgroup(p) == {c \in found : MatchesProcess(Label(c), p.comm)}

BelongsTo_AnyCommand(p) == {c \in found : c = p.cgroup}

(* The container, if any, the process is attached to: the one named in the *)
(* cgroup path, when the filters want the process.                         *)
BelongsTo(p) ==
  {c \in found : c = p.cgroup /\ MatchesProcess(Label(c), p.comm)}

(* The third read only contributes the ns_pid label, which is left out;    *)
(* the process is then attached to its container.                          *)
getNamespacePID ==
  /\ dpc = "getNamespacePID"
  /\ pids' = IF Alive(cur.pid)
             THEN [c \in Containers |->
                     IF c \in BelongsTo(cur)
                     THEN pids[c] \cup {[pid |-> cur.pid, comm |-> cur.comm]}
                     ELSE pids[c]]
             ELSE pids
  /\ cur' = NoProcess
  /\ dpc' = "readCgroup"
  /\ UNCHANGED <<hostVars, expired, sandboxes, found, entries, lost>>

ScanEnds ==
  /\ dpc = "readCgroup"
  /\ entries = {}
  /\ dpc' = "done"
  /\ UNCHANGED <<hostVars, expired, sandboxes, found, pids, entries, cur, lost>>

-----------------------------------------------------------------------------
HostStep == HostNext /\ UNCHANGED discoveryVars

Listing ==
  \/ Deadline
  \/ ListPodSandbox \/ ListPodSandboxFails
  \/ \E p \in Pods : ListContainers(p) \/ ListContainersFails(p)

Scanning ==
  ReadDir \/ ReadDirFails \/ readCgroup \/ getComm \/ getNamespacePID \/ ScanEnds

DiscoveryNext == HostStep \/ Begin \/ Listing \/ Scanning

DiscoverySpec == DiscoveryInit /\ [][DiscoveryNext]_dvars

(* A call whose context has expired returns, with an error.                *)
AbortedCall ==
  /\ expired
  /\ ListPodSandboxFails \/ \E p \in Pods : ListContainersFails(p)

-----------------------------------------------------------------------------
(***************************************************************************)
(* Properties.                                                             *)
(***************************************************************************)
Listed == {"readCgroup", "getComm", "getNamespacePID", "done"}

(* What the node has not changed since the scrape began.                   *)
Untouched(x) == x \notin touched

StableContainer(c) ==
  ctrState[c] = "running" /\ Untouched(c) /\ Untouched(PodOf[c])

(* No stale result: a container is found only if it ran during this        *)
(* discovery and the filters select it, whatever the discovery before      *)
(* found and whichever sandboxes stopped in between (kubernetes.go:66-106). *)
FoundWereRunning ==
  \A c \in found :
    /\ MatchesContainer(Label(c))
    /\ Untouched(c) => ctrState[c] = "running"

(* Nothing is overlooked: once the sandboxes are listed, every selected    *)
(* container that ran all along is found, unless the listing of its pod    *)
(* failed (kubernetes.go:66-106).                                          *)
StableContainersFound ==
  dpc \in Listed =>
    \A c \in Containers :
      /\ StableContainer(c)
      /\ MatchesContainer(Label(c))
      /\ <<"pod", PodOf[c]>> \notin lost
      => c \in found

(* The labels identify the container: a container and its restarted, or    *)
(* re-created, successor are never both found, although the sandboxes and  *)
(* the containers of each are listed at different times.  Two metrics with *)
(* equal labels would fail the scrape (kubernetes.go:66-106).              *)
LabelsIdentifyContainer ==
  \A c, d \in found : Label(c) = Label(d) => c = d

(* The three reads of a process are not atomic (kubernetes.go:136-149).    *)
(* What they yield is at least right for a process the node left alone:    *)
(* it runs in the container it is attached to, under the recorded name.    *)
AttachedProcesses ==
  \A c \in Containers : \A e \in pids[c] :
    /\ c \in found
    /\ MatchesProcess(Label(c), e.comm)
    /\ Untouched(e.pid) =>
         [pid |-> e.pid, owner |-> c, comm |-> e.comm] \in procs

(* "Process belongs to only one container" (kubernetes.go:155), and is     *)
(* attached to it once, even if its pid is reused during the scan.         *)
OneContainerPerProcess ==
  \A c, d \in Containers : \A e \in pids[c], f \in pids[d] :
    e.pid = f.pid => c = d /\ e = f

(* Every selected process of a found container that was there all along is *)
(* attached, unless /proc could not be listed at all: the entries that are *)
(* passed over in silence never include it (kubernetes.go:118-158).        *)
StableProcessesAttached ==
  dpc = "done" /\ <<"procDir">> \notin lost =>
    \A p \in procs :
      /\ Untouched(p.pid)
      /\ p.owner \in found
      /\ MatchesProcess(Label(p.owner), p.comm)
      => [pid |-> p.pid, comm |-> p.comm] \in pids[p.owner]

-----------------------------------------------------------------------------
(***************************************************************************)
(* Why the safety properties hold: what is true between the steps.         *)
(***************************************************************************)
Scan == {"readCgroup", "getComm", "getNamespacePID"}

(* Sandboxes are left only while they are listed, entries only while they  *)
(* are scanned, and nothing is attached before.                            *)
ControlPoints ==
  /\ dpc # "listContainers" => sandboxes = {}
  /\ dpc \notin Scan => entries = {}
  /\ dpc \in CriCall \cup {"failed"} => \A c \in Containers : pids[c] = {}
  /\ dpc = "listPodSandbox" => found = {}

(* The sandboxes come from one snapshot, so their names differ, and a      *)
(* sandbox gives its containers once.                                      *)
OneSnapshot ==
  LET seen == sandboxes \cup {PodOf[c] : c \in found}
  IN  /\ \A p, q \in seen : PodMeta[p] = PodMeta[q] => p = q
      /\ \A c \in found : PodOf[c] \notin sandboxes

StableContainersPending ==
  dpc = "listContainers" =>
    \A c \in Containers :
      /\ StableContainer(c)
      /\ MatchesContainer(Label(c))
      /\ <<"pod", PodOf[c]>> \notin lost
      => c \in found \/ PodOf[c] \in sandboxes

(* What was read of the process under examination is true of it.           *)
ExaminedProcess ==
  /\ dpc = "getComm" /\ Untouched(cur.pid) =>
       \E p \in procs : p.pid = cur.pid /\ p.owner = cur.cgroup
  /\ dpc = "getNamespacePID" /\ Untouched(cur.pid) =>
       [pid |-> cur.pid, owner |-> cur.cgroup, comm |-> cur.comm] \in procs

Examining(pid) == dpc \in {"getComm", "getNamespacePID"} /\ cur.pid = pid

(* No entry is visited twice.                                              *)
VisitedOnce ==
  /\ \A pid \in entries : ~Examining(pid)
  /\ \A c \in Containers : \A e \in pids[c] :
       e.pid \notin entries /\ ~Examining(e.pid)

StableProcessesPending ==
  dpc \in Scan =>
    \A p \in procs :
      /\ Untouched(p.pid)
      /\ p.owner \in found
      /\ MatchesProcess(Label(p.owner), p.comm)
      => \/ p.pid \in entries
         \/ Examining(p.pid)
         \/ [pid |-> p.pid, comm |-> p.comm] \in pids[p.owner]

ListingInv ==
  /\ FoundWereRunning
  /\ OneSnapshot
  /\ LabelsIdentifyContainer
  /\ StableContainersPending
  /\ StableContainersFound

ScanInv ==
  /\ ExaminedProcess
  /\ AttachedProcesses
  /\ VisitedOnce
  /\ OneContainerPerProcess
  /\ StableProcessesPending
  /\ StableProcessesAttached

DiscoveryInv ==
  /\ DiscoveryTypeOK
  /\ HostConsistent
  /\ ControlPoints
  /\ ListingInv
  /\ ScanInv
=============================================================================
