------------------------------- MODULE KvTools -------------------------------
(***************************************************************************)
(* The commands of the OpenBao load tool that change what is stored        *)
(* (examples/openbao/tools: kv-write, mix, bulk-delete), run one after     *)
(* another against a server that refuses or loses requests.  What is       *)
(* stored outlives a command; its counter and its list of keys do not.     *)
(*                                                                         *)
(* Secrets are named by numbers, "key-<number>".  Reads, transit and login *)
(* requests of the mix change nothing and are left out.                    *)
(***************************************************************************)
EXTENDS Integers, FiniteSets

CONSTANTS
  Workers,      \* the goroutines of the worker pool (external: echoclient)
  Count,        \* secrets kv-write writes
  Pool,         \* secrets the mix starts with, at least
  PageSize,     \* keys in one page of a list of kv2
  Initial,      \* what the mounts may hold at first
  MaxId,        \* bound: the highest number
  MaxCommands,  \* bound: commands run
  MaxFaults     \* bound: requests that go wrong

Mounts == {"kv1", "kv2"}
Ids == 1..MaxId

ASSUME KvAssumption ==
  /\ Count \in Nat \ {0} /\ Pool \in Nat /\ PageSize \in Nat \ {0}
  /\ Initial \subseteq [Mounts -> SUBSET Ids]
  /\ MaxId \in Nat /\ MaxCommands \in Nat /\ MaxFaults \in Nat

Requests == [op : {"write", "delete"}, mount : Mounts, key : Ids]

VARIABLES
  stored,     \* server: the secrets of a mount
  late,       \* requests abandoned that the server has yet to execute
  command,    \* the command run, or run last
  phase,      \* what it is doing; "idle" between commands
  mount,      \* the mount it works on
  keys,       \* how often a key is on its list of keys
  next,       \* its counter: the last number given out
  left,       \* repetitions the worker pool has left
  worker,     \* the request of a worker and what became of it
  failed,     \* history: requests of this command that went wrong
  listFailed, \* history: a list of this command went wrong
  quiet,      \* history: no write was late when it began
  dense,      \* history: its last list showed exactly 1..n, none late
  before,     \* history: how many secrets there were when kv-write counted
  commands, faults \* numbers of commands and of faults so far

toolVars == <<command, phase, mount, keys, next, left>>
historyVars == <<failed, listFailed, quiet, dense, before, commands, faults>>
kvVars == <<stored, late, toolVars, worker, historyVars>>

Idle == [at |-> "idle"]
Working == {"write", "seed", "churn", "delete"}

KvTypeOK ==
  /\ stored \in [Mounts -> SUBSET Ids]
  /\ late \subseteq Requests
  /\ command \in {"none", "kv-write", "mix", "bulk-delete"}
  /\ phase \in {"idle", "list", "relist"} \cup Working
  /\ mount \in Mounts
  /\ keys \in [Ids -> Nat]
  /\ next \in 0..MaxId
  /\ left \in Nat
  /\ worker \in [Workers -> {Idle} \cup
                            [at : {"sent", "done", "refused"}, req : Requests]]
  /\ failed \in Nat /\ before \in Nat /\ commands \in Nat /\ faults \in 0..MaxFaults
  /\ listFailed \in BOOLEAN /\ quiet \in BOOLEAN /\ dense \in BOOLEAN

OnList(found) == [k \in Ids |-> IF k \in found THEN 1 ELSE 0]

KvInit ==
  /\ stored \in Initial
  /\ late = {}
  /\ command = "none" /\ phase = "idle" /\ mount = "kv1"
  /\ keys = OnList({}) /\ next = 0 /\ left = 0
  /\ worker = [w \in Workers |-> Idle]
  /\ failed = 0 /\ commands = 0 /\ faults = 0
  /\ listFailed = FALSE /\ quiet = TRUE /\ dense = FALSE /\ before = 0

-----------------------------------------------------------------------------
(* One command at a time is started, on either engine; bulk-delete works   *)
(* on both.                                                                *)
Launch(c, m) ==
  /\ phase = "idle"
  /\ commands < MaxCommands /\ commands' = commands + 1
  /\ command' = c /\ mount' = m
  /\ c = "bulk-delete" => m = "kv1"
  /\ phase' = "list"
  /\ failed' = 0 /\ listFailed' = FALSE
  /\ quiet' = (\A r \in late : r.op # "write") /\ dense' = FALSE /\ before' = 0
  /\ keys' = OnList({}) /\ next' = 0 /\ left' = 0
  /\ UNCHANGED <<stored, late, worker, faults>>

(* A list that goes wrong looks like that of an empty mount; a page has    *)
(* the first keys.                                                         *)
Page(m) ==
  IF command = "bulk-delete" /\ m = "kv2"
  THEN {k \in stored[m] : Cardinality({j \in stored[m] : j < k}) < PageSize}
  ELSE stored[m]

Fault == faults < MaxFaults /\ faults' = faults + 1

listKeys(found) ==
  /\ phase \in {"list", "relist"}
  /\ dense' = (found = 1..Cardinality(found) /\ found = stored[mount]
               /\ \A r \in late : r.mount # mount)
  /\ before' = IF command = "kv-write" THEN Cardinality(stored[mount]) ELSE 0
  /\ \/ found = Page(mount) /\ UNCHANGED <<listFailed, faults>>
     \/ found = {} /\ listFailed' = TRUE /\ Fault
  /\ UNCHANGED <<stored, late, command, worker, failed, quiet, commands>>

(* Mutant: numbering starts at 1.                                          *)
CountKeys_FromOne(found) ==
  /\ command = "kv-write"
  /\ listKeys(found)
  /\ phase' = "write" /\ next' = 0 /\ left' = Count
  /\ UNCHANGED <<mount, keys>>

(* kv-write numbers on from the number of keys there are.                  *)
CountKeys(found) ==
  /\ command = "kv-write"
  /\ listKeys(found)
  /\ phase' = "write" /\ next' = Cardinality(found) /\ left' = Count
  /\ UNCHANGED <<mount, keys>>

(* So does the mix, when there are fewer than it wants.                    *)
SeedPool(found) ==
  /\ command = "mix" /\ phase = "list"
  /\ Cardinality(found) < Pool
  /\ listKeys(found)
  /\ phase' = "seed"
  /\ next' = Cardinality(found) /\ left' = Pool - Cardinality(found)
  /\ UNCHANGED <<mount, keys>>

(* The mix numbers on, again, from the number of keys there are by now.    *)
StartMix(found) ==
  /\ command = "mix"
  /\ phase = "list" => Cardinality(found) >= Pool
  /\ listKeys(found)
  /\ phase' = "churn"
  /\ keys' = OnList(found) /\ next' = Cardinality(found)
  /\ UNCHANGED <<mount, left>>

DeleteBatch(found) ==
  /\ command = "bulk-delete" /\ found # {}
  /\ listKeys(found)
  /\ phase' = "delete" /\ keys' = OnList(found)
  /\ UNCHANGED <<mount, next, left>>

(* Mutant: an empty list is tried again, as if it had failed.              *)
MountDeleted_Retries(found) ==
  /\ command = "bulk-delete" /\ found = {}
  /\ listKeys(found)
  /\ UNCHANGED <<phase, mount, keys, next, left>>

(* An empty list ends the deletion of a mount.                             *)
MountDeleted(found) ==
  /\ command = "bulk-delete" /\ found = {}
  /\ listKeys(found)
  /\ IF mount = "kv1" THEN mount' = "kv2" /\ UNCHANGED phase
                      ELSE phase' = "idle" /\ UNCHANGED mount
  /\ UNCHANGED <<keys, next, left>>

-----------------------------------------------------------------------------
(* The workers.                                                            *)
Sends(w, op, key) ==
  /\ worker[w] = Idle
  /\ worker' = [worker EXCEPT ![w] =
                  [at |-> "sent", req |-> [op |-> op, mount |-> mount, key |-> key]]]
  /\ UNCHANGED <<stored, late, command, phase, mount, historyVars>>

(* Mutant: the counter is read by one step and advanced by another.        *)
Write_SameNumber(w) ==
  /\ \/ phase \in {"write", "seed"} /\ left > 0 /\ left' = left - 1
     \/ phase = "churn" /\ UNCHANGED left
  /\ next < MaxId
  /\ next' \in {next, next + 1}
  /\ Sends(w, "write", next + 1)
  /\ UNCHANGED keys

(* A write of the next number: a repetition of kv-write or of the seeding, *)
(* or writeFunc of the mix.                                                *)
Write(w) ==
  /\ \/ phase \in {"write", "seed"} /\ left > 0 /\ left' = left - 1
     \/ phase = "churn" /\ UNCHANGED left
  /\ next < MaxId   \* bound
  /\ next' = next + 1
  /\ Sends(w, "write", next + 1)
  /\ UNCHANGED keys

(* Mutant: a deleted key stays on the list.                                *)
Delete_KeepOnList(w, key) ==
  /\ phase \in {"churn", "delete"}
  /\ keys[key] > 0
  /\ keys' = IF phase = "churn" THEN keys ELSE [keys EXCEPT ![key] = @ - 1]
  /\ Sends(w, "delete", key)
  /\ UNCHANGED <<next, left>>

(* A key is taken off the list and deleted: a random one by deleteFunc of  *)
(* the mix, the next one of the batch by bulk-delete.                      *)
Delete(w, key) ==
  /\ phase \in {"churn", "delete"}
  /\ keys[key] > 0
  /\ keys' = [keys EXCEPT ![key] = @ - 1]
  /\ Sends(w, "delete", key)
  /\ UNCHANGED <<next, left>>

Execute(r) ==
  stored' = [stored EXCEPT ![r.mount] =
               IF r.op = "write" THEN @ \cup {r.key} ELSE @ \ {r.key}]

Served(w) ==
  /\ worker[w].at = "sent"
  /\ Execute(worker[w].req)
  /\ worker' = [worker EXCEPT ![w].at = "done"]
  /\ UNCHANGED <<late, toolVars, historyVars>>

FailRequest == Fault /\ failed' = failed + 1

(* An error status: nothing was changed.                                   *)
Refused(w) ==
  /\ worker[w].at = "sent"
  /\ FailRequest
  /\ worker' = [worker EXCEPT ![w].at = "refused"]
  /\ UNCHANGED <<stored, late, toolVars, listFailed, quiet, dense, before, commands>>

(* After 30 seconds, or with the connection, the request is given up; the  *)
(* server may have executed it, or may yet do so, or never.                *)
GivenUp(w) ==
  /\ worker[w].at \in {"sent", "done"}
  /\ FailRequest
  /\ \/ late' = late
     \/ worker[w].at = "sent" /\ late' = late \cup {worker[w].req}
  /\ worker' = [worker EXCEPT ![w] = Idle]
  /\ UNCHANGED <<stored, toolVars, listFailed, quiet, dense, before, commands>>

(* Mutants: a secret is listed whether or not it was written, or never.    *)
Answered_Unchecked(w) ==
  /\ worker[w].at \in {"done", "refused"}
  /\ keys' = IF phase = "churn" /\ worker[w].req.op = "write"
             THEN [keys EXCEPT ![worker[w].req.key] = @ + 1] ELSE keys
  /\ worker' = [worker EXCEPT ![w] = Idle]
  /\ UNCHANGED <<stored, late, command, phase, mount, next, left, historyVars>>

Answered_NotListed(w) ==
  /\ worker[w].at \in {"done", "refused"}
  /\ worker' = [worker EXCEPT ![w] = Idle]
  /\ UNCHANGED <<stored, late, toolVars, historyVars>>

(* The mix lists a secret that was written; a refused delete, whose status *)
(* is not looked at, ends like any other.                                  *)
Answered(w) ==
  /\ worker[w].at \in {"done", "refused"}
  /\ keys' = IF phase = "churn" /\ worker[w].at = "done" /\ worker[w].req.op = "write"
             THEN [keys EXCEPT ![worker[w].req.key] = @ + 1] ELSE keys
  /\ worker' = [worker EXCEPT ![w] = Idle]
  /\ UNCHANGED <<stored, late, command, phase, mount, next, left, historyVars>>

-----------------------------------------------------------------------------
AllIdle == \A w \in Workers : worker[w] = Idle

PoolReturns(from, to) ==
  /\ phase = from /\ AllIdle
  /\ phase' = to
  /\ UNCHANGED <<stored, late, command, mount, keys, next, left, worker, historyVars>>

Written == left = 0 /\ PoolReturns("write", "idle")
Seeded == left = 0 /\ PoolReturns("seed", "relist")

BatchEmpty == \A k \in Ids : keys[k] = 0

(* Mutant: every mount is listed and deleted once.                         *)
BatchDeleted_Once ==
  /\ BatchEmpty
  /\ IF mount = "kv1" THEN phase' = "list" /\ mount' = "kv2"
                      ELSE phase' = "idle" /\ UNCHANGED mount
  /\ phase = "delete" /\ AllIdle
  /\ UNCHANGED <<stored, late, command, keys, next, left, worker, historyVars>>

(* A batch deleted, the mount is listed again.                             *)
BatchDeleted == BatchEmpty /\ PoolReturns("delete", "list")

(* The duration is over.                                                   *)
MixEnds == PoolReturns("churn", "idle")

(* os.Exit on a signal: what was sent is abandoned.                        *)
Interrupt ==
  /\ phase # "idle"
  /\ phase' = "idle"
  /\ command' = "none"
  /\ \E abandoned \in SUBSET {v \in Workers : worker[v].at = "sent"} :
       late' = late \cup {worker[w].req : w \in abandoned}
  /\ worker' = [w \in Workers |-> Idle]
  /\ keys' = OnList({}) /\ next' = 0 /\ left' = 0
  /\ UNCHANGED <<stored, mount, historyVars>>

(* An abandoned request reaches the server after all.                      *)
LateArrives ==
  \E r \in late : late' = late \ {r} /\ Execute(r)
                  /\ UNCHANGED <<toolVars, worker, historyVars>>

-----------------------------------------------------------------------------
Command ==
  \/ \E found \in {Page(mount), {}} :
       \/ CountKeys(found) \/ SeedPool(found) \/ StartMix(found)
       \/ DeleteBatch(found) \/ MountDeleted(found)
  \/ Written \/ Seeded \/ BatchDeleted

WorkerStarts(w) == Write(w) \/ \E key \in Ids : Delete(w, key)

RequestEnds(w) == Served(w) \/ Refused(w) \/ GivenUp(w) \/ Answered(w)

KvNext ==
  \/ \E c \in {"kv-write", "mix", "bulk-delete"}, m \in Mounts : Launch(c, m)
  \/ Command \/ MixEnds \/ Interrupt
  \/ \E w \in Workers : WorkerStarts(w) \/ RequestEnds(w)
  \/ LateArrives

KvSpec == KvInit /\ [][KvNext]_kvVars

(* The goroutines run and the client's timeout ends every request.         *)
KvFairSpec ==
  /\ KvSpec
  /\ WF_kvVars(Command)
  /\ \A w \in Workers :
       WF_kvVars(WorkerStarts(w) /\ phase # "churn") /\ WF_kvVars(RequestEnds(w))

-----------------------------------------------------------------------------
(***************************************************************************)
(* Properties.                                                             *)
(***************************************************************************)

(* "Reservoir: track live keys" (cmd_mix.go:105) holds from a mount whose  *)
(* numbers have no gap, whatever goes wrong afterwards: a key is on the    *)
(* list once, and while it is, it is stored.                               *)
TrackedAreLive ==
  phase = "churn" /\ dense =>
    \A k \in Ids : keys[k] = 0 \/ (keys[k] = 1 /\ k \in stored[mount])

InFlight == {worker[w].req.key : w \in {v \in Workers : worker[v] # Idle}}

(* Between the two locks of writeFunc and deleteFunc no secret gets lost:  *)
(* one that is stored and neither listed nor in flight was left behind by  *)
(* a request that went wrong, each of which leaves one at most             *)
(* (cmd_mix.go:123-153).                                                   *)
LeaksAreFailures ==
  phase = "churn" /\ quiet /\ ~listFailed =>
    Cardinality({k \in stored[mount] : keys[k] = 0} \ InFlight) <= failed

(* How many secrets the mount is to hold in the end.                       *)
Wanted == IF command = "mix" THEN Pool ELSE before + Count

(* Numbering on from the number of keys adds secrets and writes over none  *)
(* on a mount without gaps: unless a request fails, kv-write leaves as     *)
(* many more as it was asked for, and seeding as many as the mix wants     *)
(* (cmd_kv_write.go:21-43, cmd_mix.go:61-78).                              *)
WritesAdd ==
  /\ (phase = "idle" /\ command = "kv-write") \/ phase = "relist"
  /\ dense /\ failed = 0
  => stored[mount] = 1..Wanted

(* bulk-delete returns when both mounts are empty, whatever the server     *)
(* refused on the way, but for a list that went wrong                      *)
(* (cmd_bulk_delete.go:14-63).                                             *)
EmptiedWhenDone ==
  phase = "idle" /\ command = "bulk-delete" /\ quiet /\ ~listFailed =>
    \A m \in Mounts : stored[m] = {}

(* It does return: no key is taken twice from a batch, none is left over,  *)
(* and a server that refuses only so often runs out of keys                *)
(* (cmd_bulk_delete.go:23-63).                                             *)
BulkDeleteEnds ==
  phase = "list" /\ command = "bulk-delete" ~> phase = "idle"

(* "Reservoir: track live keys for random read/delete" (cmd_mix.go:105) is *)
(* more than the code does: nothing went wrong, and yet a listed key is    *)
(* gone, or listed twice.                                                  *)
ReservoirIsLive ==
  phase = "churn" /\ quiet /\ ~listFailed /\ failed = 0 =>
    \A k \in Ids : keys[k] = 0 \/ (keys[k] = 1 /\ k \in stored[mount])

(* "Delete all secrets from kv1/ and kv2/ (cleanup helper)." (main.go:89): *)
(* a list that went wrong is taken for that of an empty mount.             *)
AllDeleted ==
  phase = "idle" /\ command = "bulk-delete" /\ quiet =>
    \A m \in Mounts : stored[m] = {}

-----------------------------------------------------------------------------
(***************************************************************************)
(* Why the safety properties hold.                                         *)
(***************************************************************************)
Busy(w) == worker[w] # Idle
Key(w) == worker[w].req.key
Here == {r \in late : r.mount = mount}

(* Requests are out only while a worker pool runs.                         *)
KvControl ==
  /\ phase \in {"list", "relist", "idle"} => AllIdle
  /\ phase = "write" => command = "kv-write"
  /\ phase \in {"seed", "relist", "churn"} => command = "mix"
  /\ phase = "delete" => command = "bulk-delete"
  /\ phase = "list" => command # "none"
  /\ \A w \in Workers : Busy(w) =>
       /\ worker[w].req.mount = mount
       /\ phase \in {"write", "seed"} => worker[w].req.op = "write"
       /\ phase = "delete" => worker[w].req.op = "delete"

(* A number is given out once, and a key is in one place: on the list, in  *)
(* flight, or abandoned.                                                   *)
OnePlace ==
  phase = "churn" /\ dense =>
    /\ \A k \in Ids : keys[k] > 0 => k <= next
    /\ \A w \in Workers : Busy(w) =>
         /\ Key(w) <= next /\ keys[Key(w)] = 0
         /\ worker[w].req.op = "write" /\ worker[w].at = "done" => Key(w) \in stored[mount]
         /\ \A v \in Workers : Busy(v) /\ Key(v) = Key(w) => v = w
    /\ \A r \in Here :
         /\ r.key <= next /\ keys[r.key] = 0
         /\ \A w \in Workers : Busy(w) => Key(w) # r.key

(* The numbers of writes the server has yet to answer.                     *)
Sent == {Key(w) : w \in {v \in Workers : worker[v].at = "sent"}}

Adding ==
  phase \in {"write", "seed", "relist"} \/ (phase = "idle" /\ command = "kv-write")

NumbersStored ==
  Adding /\ dense /\ failed = 0 =>
    /\ stored[mount] \cup Sent = 1..next
    /\ \A w \in Workers : worker[w].at # "refused"
    /\ Here = {}
    /\ next + left = Wanted
    /\ phase \in {"idle", "relist"} => left = 0

EmptiedSoFar ==
  command = "bulk-delete" /\ quiet =>
    /\ \A r \in late : r.op # "write"
    /\ ~listFailed =>
         /\ mount = "kv2" => stored["kv1"] = {}
         /\ phase = "idle" => mount = "kv2" /\ stored["kv2"] = {}

(* Secrets of the mix on their way: to the server, onto the list, or off.  *)
Handled(k) ==
  \E w \in Workers : Busy(w) /\ Key(w) = k /\
    (worker[w].at = "sent" \/ (worker[w].at = "done" /\ worker[w].req.op = "write"))

(* A secret left behind, or a write that may yet leave one, is on the      *)
(* account of a failed request.                                            *)
Charged ==
  {r.key : r \in {s \in Here : s.op = "write"}} \cup
  IF phase = "churn" THEN {k \in stored[mount] : keys[k] = 0 /\ ~Handled(k)} ELSE {}

LeaksCharged ==
  command = "mix" /\ phase # "idle" /\ quiet /\ ~listFailed => Cardinality(Charged) <= failed

KvInv ==
  /\ KvTypeOK
  /\ KvControl
  /\ OnePlace
  /\ TrackedAreLive
  /\ NumbersStored
  /\ EmptiedSoFar
  /\ LeaksCharged
=============================================================================
