-------------------------------- MODULE Host --------------------------------
(***************************************************************************)
(* The node the exporter observes and never changes: the pod sandboxes and *)
(* containers the container runtime reports over the CRI, and the process  *)
(* table the kernel shows in /proc.  None of this is code of the           *)
(* repository; it is modelled from what the exporter reads of it, and it   *)
(* moves on by itself between any two steps of a scrape.                   *)
(***************************************************************************)
EXTENDS Filters, FiniteSets

CONSTANTS
  Pods,        \* pod sandbox IDs
  Containers,  \* container IDs
  Pids,        \* host process IDs, numbered in the order of their decimal
               \* names, the order in which /proc is listed
  HostProcess, \* the owner of a process that runs outside every container
  PodOf,       \* the sandbox of a container
  PodMeta,     \* namespace and name of a sandbox's pod
  CtrName,     \* the container's name in the pod
  MaxChurn     \* bound: changes of the node in one behaviour

Owners == Containers \cup {HostProcess}

ASSUME HostAssumption ==
  /\ Pids \subseteq Nat
  /\ HostProcess \notin Containers
  /\ PodOf \in [Containers -> Pods]
  /\ PodMeta \in [Pods -> [namespace : STRING, pod : STRING]]
  /\ CtrName \in [Containers -> STRING]
  /\ MaxChurn \in Nat

(* The labels of a container's metrics.  A restarted container has a new   *)
(* ID and the same labels; so has the container of a re-created pod.       *)
Label(c) ==
  [namespace |-> PodMeta[PodOf[c]].namespace,
   pod       |-> PodMeta[PodOf[c]].pod,
   container |-> CtrName[c]]

Process == [pid : Pids, owner : Owners, comm : Comms]

VARIABLES
  podState,    \* sandbox state
  ctrState,    \* container state; the cgroup scope exists while "running"
  procs,       \* the process table
  touched,     \* history: what changed since the scrape began
  churn        \* number of changes so far

hostVars == <<podState, ctrState, procs, touched, churn>>

Alive(pid) == \E p \in procs : p.pid = pid

(* No two live pods of one name, no two live containers of one name.       *)
NamesUnique ==
  /\ \A p, q \in Pods :
       podState[p] = "ready" /\ podState[q] = "ready" /\ PodMeta[p] = PodMeta[q]
         => p = q
  /\ \A c, d \in Containers :
       ctrState[c] = "running" /\ ctrState[d] = "running" /\ Label(c) = Label(d)
         => c = d

(* A process ID names one live process.                                    *)
ProcessTables ==
  {table \in SUBSET Process : \A p, q \in table : p.pid = q.pid => p = q}

HostTypeOK ==
  /\ podState \in [Pods -> {"pending", "ready", "notready"}]
  /\ ctrState \in [Containers -> {"created", "running", "exited"}]
  /\ procs \in ProcessTables
  /\ touched \subseteq Pods \cup Containers \cup Pids
  /\ churn \in 0..MaxChurn

HostConsistent ==
  /\ NamesUnique
  /\ \A c \in Containers : ctrState[c] = "running" => podState[PodOf[c]] = "ready"
  /\ \A p \in procs : p.owner \in Containers => ctrState[p.owner] = "running"

(* The exporter may be started on a node in any consistent state.          *)
HostInit ==
  /\ podState \in [Pods -> {"pending", "ready", "notready"}]
  /\ ctrState \in [Containers -> {"created", "running", "exited"}]
  /\ procs \in ProcessTables
  /\ HostConsistent
  /\ touched = {}
  /\ churn = 0

Churn(changed) ==
  /\ churn < MaxChurn
  /\ churn' = churn + 1
  /\ touched' = touched \cup changed

RunPod(p) ==
  /\ podState[p] = "pending"
  /\ \A q \in Pods : PodMeta[q] = PodMeta[p] => podState[q] # "ready"
  /\ podState' = [podState EXCEPT ![p] = "ready"]
  /\ Churn({p})
  /\ UNCHANGED <<ctrState, procs>>

StopPod(p) ==
  /\ podState[p] = "ready"
  /\ \A c \in Containers : PodOf[c] = p => ctrState[c] # "running"
  /\ podState' = [podState EXCEPT ![p] = "notready"]
  /\ Churn({p})
  /\ UNCHANGED <<ctrState, procs>>

StartContainer(c) ==
  /\ ctrState[c] = "created"
  /\ podState[PodOf[c]] = "ready"
  /\ \A d \in Containers : Label(d) = Label(c) => ctrState[d] # "running"
  /\ ctrState' = [ctrState EXCEPT ![c] = "running"]
  /\ Churn({c})
  /\ UNCHANGED <<podState, procs>>

(* A container's processes die with it.                                    *)
StopContainer(c) ==
  LET dead == {p \in procs : p.owner = c}
  IN  /\ ctrState[c] = "running"
      /\ ctrState' = [ctrState EXCEPT ![c] = "exited"]
      /\ procs' = procs \ dead
      /\ Churn({c} \cup {p.pid : p \in dead})
      /\ UNCHANGED podState

(* A free pid is given to a new process: a pid that was in use before may  *)
(* come back as a process of another container.                            *)
Fork(p) ==
  /\ ~Alive(p.pid)
  /\ p.owner \in Containers => ctrState[p.owner] = "running"
  /\ procs' = procs \cup {p}
  /\ Churn({p.pid})
  /\ UNCHANGED <<podState, ctrState>>

(* execve() or prctl(PR_SET_NAME): same pid, same cgroup, another name.    *)
Exec(p, comm) ==
  /\ p.comm # comm
  /\ procs' = (procs \ {p}) \cup {[p EXCEPT !.comm = comm]}
  /\ Churn({p.pid})
  /\ UNCHANGED <<podState, ctrState>>

Exit(p) ==
  /\ procs' = procs \ {p}
  /\ Churn({p.pid})
  /\ UNCHANGED <<podState, ctrState>>

HostNext ==
  \/ \E p \in Pods : RunPod(p) \/ StopPod(p)
  \/ \E c \in Containers : StartContainer(c) \/ StopContainer(c)
  \/ \E p \in Process : Fork(p)
  \/ \E p \in procs, comm \in Comms : Exec(p, comm)
  \/ \E p \in procs : Exit(p)
=============================================================================
