---------------------------- MODULE KvToolsProofs ----------------------------
(***************************************************************************)
(* Proofs about KvTools, for every pool of workers, every size and any     *)
(* number of commands and faults.                                          *)
(***************************************************************************)
EXTENDS KvTools, FiniteSetTheorems, WellFoundedInduction, TLAPS

(* A list of keys has at most MaxId keys, and is empty for a mount that is *)
(* empty only, whether it is paged or not.                                 *)
LEMMA Lists ==
  ASSUME KvTypeOK, NEW found, found = Page(mount) \/ found = {}
  PROVE  /\ found \subseteq stored[mount] /\ found \subseteq Ids
         /\ Cardinality(found) \in 0..MaxId /\ Cardinality(stored[mount]) \in Nat
         /\ found = Page(mount) /\ found = {} => stored[mount] = {}
<1> USE KvAssumption DEF KvAssumption, Mounts
<1>1. mount \in Mounts /\ stored[mount] \subseteq Ids
  BY DEF KvTypeOK
<1>2. found \subseteq stored[mount]
  BY DEF Page
<1>3. IsFiniteSet(Ids) /\ Cardinality(Ids) = MaxId
  BY FS_Interval, SMT DEF Ids
<1>4. Cardinality(found) \in 0..MaxId
  <2>1. IsFiniteSet(found) /\ Cardinality(found) <= Cardinality(Ids)
    BY <1>1, <1>2, <1>3, FS_Subset
  <2> QED
    BY <1>3, <2>1, FS_CardinalityType
<1>5. Cardinality(stored[mount]) \in Nat
  BY <1>1, <1>3, FS_Subset, FS_CardinalityType
<1>6. ASSUME stored[mount] # {} PROVE Page(mount) # {}
  <2>1. \E k \in stored[mount] : \A j \in stored[mount] : ~(j < k)
    <3>1. IsWellFoundedOn(OpToRel(<, Nat), Nat)
      BY NatLessThanWellFounded
    <3>2. stored[mount] \subseteq Nat
      BY <1>1 DEF Ids
    <3>3. PICK k \in stored[mount] : \A j \in stored[mount] : <<j, k>> \notin OpToRel(<, Nat)
      BY <1>6, <3>1, <3>2, WFMin
    <3> QED
      BY <3>2, <3>3 DEF OpToRel
  <2>2. PICK k \in stored[mount] : \A j \in stored[mount] : ~(j < k)
    BY <2>1
  <2>3. {j \in stored[mount] : j < k} = {}
    BY <2>2
  <2>4. Cardinality({j \in stored[mount] : j < k}) < PageSize
    <3>1. Cardinality({j \in stored[mount] : j < k}) = 0
      BY <2>3, FS_EmptySet
    <3>2. 0 < PageSize
      OBVIOUS
    <3> QED
      BY <3>1, <3>2
  <2>5. k \in Page(mount)
    BY <2>4 DEF Page
  <2> QED
    BY <2>5
<1> QED
  BY <1>1, <1>2, <1>4, <1>5, <1>6

LEMMA KvInvInit == KvInit => KvInv
<1> SUFFICES ASSUME KvInit PROVE KvInv
  OBVIOUS
<1>1. KvTypeOK
  <2>1. worker \in [Workers -> {Idle} \cup [at : {"sent", "done", "refused"}, req : Requests]]
    BY DEF KvInit
  <2>2. stored \in [Mounts -> SUBSET Ids] /\ keys \in [Ids -> Nat]
    BY KvAssumption DEF KvAssumption, KvInit, OnList
  <2>3. next \in 0..MaxId /\ faults \in 0..MaxFaults
    BY KvAssumption DEF KvAssumption, KvInit
  <2> QED
    BY <2>1, <2>2, <2>3 DEF KvInit, KvTypeOK, Mounts
<1>2. KvControl
  BY DEF KvInit, KvControl, AllIdle, Busy
<1>3. OnePlace /\ TrackedAreLive /\ NumbersStored /\ EmptiedSoFar /\ LeaksCharged
  BY DEF KvInit, OnePlace, TrackedAreLive, NumbersStored, Adding, EmptiedSoFar, LeaksCharged
<1> QED
  BY <1>1, <1>2, <1>3 DEF KvInv

-----------------------------------------------------------------------------
(***************************************************************************)
(* Each step keeps the types and the control points ...                    *)
(***************************************************************************)
WorkerState == {Idle} \cup [at : {"sent", "done", "refused"}, req : Requests]

LEMMA CommandTyped ==
  ASSUME KvTypeOK, KvControl, NEW found, found = Page(mount) \/ found = {},
         \/ CountKeys(found) \/ SeedPool(found) \/ StartMix(found)
         \/ DeleteBatch(found) \/ MountDeleted(found)
  PROVE  KvTypeOK' /\ KvControl'
<1> USE KvAssumption DEF KvAssumption, Mounts
<1>1. Cardinality(found) \in 0..MaxId
  BY Lists
<1>2. /\ phase \in {"list", "relist"} /\ AllIdle
      /\ UNCHANGED <<stored, late, command, worker, failed, quiet, commands>>
      /\ dense' \in BOOLEAN /\ listFailed' \in BOOLEAN /\ faults' \in 0..MaxFaults
      /\ before' \in Nat
  <2>1. listKeys(found)
    BY DEF CountKeys, SeedPool, StartMix, DeleteBatch, MountDeleted
  <2>2. /\ phase \in {"list", "relist"}
        /\ UNCHANGED <<stored, late, command, worker, failed, quiet, commands>>
        /\ dense' \in BOOLEAN /\ before' \in Nat
    BY <2>1, Lists DEF listKeys
  <2>3. listFailed' \in BOOLEAN
    BY <2>1 DEF listKeys, KvTypeOK
  <2>4. faults' \in 0..MaxFaults
    BY <2>1 DEF listKeys, Fault, KvTypeOK
  <2> QED
    BY <2>2, <2>3, <2>4 DEF KvControl
<1>3. /\ OnList(found) \in [Ids -> Nat]
      /\ Pool - Cardinality(found) \in Nat \/ Cardinality(found) >= Pool
  BY <1>1 DEF OnList
<1>4. KvTypeOK'
  BY <1>1, <1>2, <1>3
     DEF KvTypeOK, CountKeys, SeedPool, StartMix, DeleteBatch, MountDeleted, Working, Mounts
<1>5. KvControl'
  BY <1>2 DEF KvControl, AllIdle, Busy, CountKeys, SeedPool, StartMix, DeleteBatch, MountDeleted
<1> QED
  BY <1>4, <1>5

LEMMA WorkerTyped ==
  ASSUME KvTypeOK, KvControl, NEW w \in Workers, WorkerStarts(w) \/ RequestEnds(w)
  PROVE  KvTypeOK' /\ KvControl'
<1> USE KvAssumption DEF KvAssumption, Mounts
<1>1. ASSUME NEW op \in {"write", "delete"}, NEW key \in Ids, Sends(w, op, key),
             phase \in Working, phase \in {"write", "seed"} => op = "write",
             phase = "delete" => op = "delete"
      PROVE  /\ worker' \in [Workers -> WorkerState] /\ KvControl'
  <2>1. [op |-> op, mount |-> mount, key |-> key] \in Requests
    BY DEF KvTypeOK, Requests
  <2>2. worker' \in [Workers -> WorkerState]
    BY <1>1, <2>1 DEF Sends, KvTypeOK, WorkerState
  <2>3. KvControl'
    BY <1>1 DEF Sends, KvTypeOK, KvControl, AllIdle, Busy, Idle, Working
  <2> QED
    BY <2>2, <2>3
<1>2. CASE Write(w)
  <2>1. Sends(w, "write", next + 1) /\ next + 1 \in Ids /\ phase \in {"write", "seed", "churn"}
    BY <1>2 DEF Write, KvTypeOK, Ids
  <2>2. worker' \in [Workers -> WorkerState] /\ KvControl'
    BY <1>1, <2>1 DEF Working
  <2> QED
    BY <1>2, <2>1, <2>2 DEF Write, Sends, KvTypeOK, WorkerState, historyVars
<1>3. ASSUME NEW key \in Ids, Delete(w, key) PROVE KvTypeOK' /\ KvControl'
  <2>1. Sends(w, "delete", key) /\ phase \in {"churn", "delete"}
    BY <1>3 DEF Delete
  <2>2. worker' \in [Workers -> WorkerState] /\ KvControl'
    BY <1>1, <2>1 DEF Working
  <2>3. keys' \in [Ids -> Nat]
    BY <1>3 DEF Delete, KvTypeOK
  <2> QED
    BY <1>3, <2>1, <2>2, <2>3 DEF Delete, Sends, KvTypeOK, WorkerState, historyVars
<1>4. CASE RequestEnds(w)
  <2>1. worker[w] # Idle /\ worker[w].req \in Requests
        /\ worker[w] = [at |-> worker[w].at, req |-> worker[w].req]
    BY <1>4 DEF RequestEnds, Served, Refused, GivenUp, Answered, KvTypeOK, Idle
  <2>2. phase \in Working
    BY <2>1 DEF KvControl, AllIdle, KvTypeOK
  <2>3. UNCHANGED <<command, phase, mount, next, left, listFailed, quiet, dense, before, commands>>
    BY <1>4 DEF RequestEnds, Served, Refused, GivenUp, Answered, toolVars, historyVars
  <2>4. /\ worker' \in [Workers -> WorkerState]
        /\ \A v \in Workers : worker'[v] = Idle \/ (Busy(v) /\ worker'[v].req = worker[v].req)
    BY <1>4, <2>1 DEF RequestEnds, Served, Refused, GivenUp, Answered, KvTypeOK, Idle, Busy,
                      WorkerState
  <2>5. failed' \in Nat /\ faults' \in 0..MaxFaults
    BY <1>4 DEF RequestEnds, Served, Refused, GivenUp, Answered, KvTypeOK, FailRequest, Fault,
                historyVars
  <2>6. stored' \in [Mounts -> SUBSET Ids] /\ late' \subseteq Requests /\ keys' \in [Ids -> Nat]
    BY <1>4, <2>1 DEF RequestEnds, Served, Refused, GivenUp, Answered, Execute, KvTypeOK,
                      Requests, toolVars
  <2>7. KvTypeOK'
    BY <2>3, <2>4, <2>5, <2>6 DEF KvTypeOK, WorkerState
  <2>8. KvControl'
    BY <2>2, <2>3, <2>4 DEF KvControl, AllIdle, Busy, Working
  <2> QED
    BY <2>7, <2>8
<1> QED
  BY <1>2, <1>3, <1>4 DEF WorkerStarts

LEMMA KvTypeStep ==
  ASSUME KvTypeOK, KvControl, [KvNext]_kvVars
  PROVE  KvTypeOK' /\ KvControl'
<1> USE KvAssumption DEF KvAssumption, Mounts
<1>1. ASSUME NEW c \in {"kv-write", "mix", "bulk-delete"}, NEW m \in Mounts, Launch(c, m)
      PROVE  KvTypeOK' /\ KvControl'
  <2>1. quiet' \in BOOLEAN
    BY <1>1 DEF Launch
  <2>2. commands' \in Nat
    BY <1>1 DEF Launch, KvTypeOK
  <2>3. keys' \in [Ids -> Nat] /\ next' \in 0..MaxId /\ left' \in Nat /\ failed' \in Nat
        /\ before' \in Nat
    BY <1>1 DEF Launch, OnList
  <2>4. KvTypeOK'
    BY <1>1, <2>1, <2>2, <2>3 DEF Launch, KvTypeOK
  <2>5. KvControl'
    BY <1>1 DEF Launch, KvControl, AllIdle, Busy
  <2> QED
    BY <2>4, <2>5
<1>2. CASE Command
  <2>1. CASE Written \/ Seeded \/ BatchDeleted
    BY <2>1 DEF Written, Seeded, BatchDeleted, PoolReturns, historyVars, KvTypeOK, KvControl,
                AllIdle, Busy
  <2> QED
    BY <1>2, <2>1, CommandTyped DEF Command
<1>3. CASE MixEnds
  BY <1>3 DEF MixEnds, PoolReturns, historyVars, KvTypeOK, KvControl, AllIdle, Busy
<1>4. CASE Interrupt
  <2>1. \A w \in Workers : worker[w].at = "sent" => worker[w].req \in Requests
    BY DEF KvTypeOK, Idle
  <2> QED
    BY <1>4, <2>1 DEF Interrupt, historyVars, KvTypeOK, KvControl, AllIdle, Busy, OnList
<1>5. CASE LateArrives
  BY <1>5 DEF LateArrives, Execute, toolVars, historyVars, KvTypeOK, KvControl, AllIdle, Busy,
              Requests
<1>6. CASE UNCHANGED kvVars
  BY <1>6 DEF kvVars, toolVars, historyVars, KvTypeOK, KvControl, AllIdle, Busy
<1> QED
  BY <1>1, <1>2, <1>3, <1>4, <1>5, <1>6, WorkerTyped DEF KvNext

(* ... and a step of a worker disturbs no other.                           *)
LEMMA RequestSteps ==
  ASSUME KvTypeOK, NEW w \in Workers, RequestEnds(w)
  PROVE  /\ Busy(w) /\ worker[w].req \in Requests
         /\ UNCHANGED <<command, phase, mount, next, left, listFailed, quiet, dense, before, commands>>
         /\ \A v \in Workers : v # w => worker'[v] = worker[v]
         /\ worker'[w] = Idle \/ (Busy(w)' /\ Key(w)' = Key(w) /\ worker'[w].req = worker[w].req)
<1>1. Busy(w) /\ worker[w].req \in Requests
      /\ worker[w] = [at |-> worker[w].at, req |-> worker[w].req]
  BY DEF RequestEnds, Served, Refused, GivenUp, Answered, KvTypeOK, Idle, Busy
<1>2. /\ \A v \in Workers : v # w => worker'[v] = worker[v]
      /\ worker'[w] = Idle \/ worker'[w] = [worker[w] EXCEPT !.at = "done"]
                           \/ worker'[w] = [worker[w] EXCEPT !.at = "refused"]
  BY DEF RequestEnds, Served, Refused, GivenUp, Answered, KvTypeOK
<1>3. \A a \in {"done", "refused"} :
        [worker[w] EXCEPT !.at = a] # Idle /\ [worker[w] EXCEPT !.at = a].req = worker[w].req
  BY <1>1 DEF Idle
<1> QED
  BY <1>1, <1>2, <1>3
     DEF RequestEnds, Served, Refused, GivenUp, Answered, toolVars, historyVars, Busy, Key

-----------------------------------------------------------------------------
(***************************************************************************)
(* The list of the mix.                                                    *)
(***************************************************************************)
LEMMA OnePlaceStep ==
  ASSUME KvInv, [KvNext]_kvVars
  PROVE  OnePlace' /\ TrackedAreLive'
<1> USE KvAssumption DEF KvAssumption, Mounts, KvInv
<1> SUFFICES ASSUME phase' = "churn", dense' PROVE OnePlace' /\ TrackedAreLive'
  BY DEF OnePlace, TrackedAreLive
<1>0. KvTypeOK'
  BY KvTypeStep
<1>1. CASE (\E c \in {"kv-write", "mix", "bulk-delete"}, m \in Mounts : Launch(c, m))
           \/ MixEnds \/ Interrupt
  BY <1>1 DEF Launch, MixEnds, PoolReturns, Interrupt
<1>2. CASE Command
  <2>1. PICK found \in {Page(mount), {}} : StartMix(found)
    BY <1>2 DEF Command, CountKeys, SeedPool, DeleteBatch, MountDeleted, Written, Seeded,
                BatchDeleted, PoolReturns, listKeys
  <2>2. /\ found = 1..Cardinality(found) /\ found = stored[mount] /\ Here = {}
        /\ UNCHANGED <<stored, late, mount, worker>>
    BY <2>1 DEF StartMix, listKeys, Here
  <2>3. AllIdle /\ Here' = {}
    BY <2>1, <2>2 DEF StartMix, listKeys, KvControl, Here
  <2>4. next' = Cardinality(found) /\ Cardinality(found) \in Nat /\ keys' = OnList(found)
    BY <2>1, Lists DEF StartMix
  <2>5. \A k \in Ids : keys'[k] = IF k \in found THEN 1 ELSE 0
    BY <2>4 DEF OnList
  <2>6. \A w \in Workers : ~Busy(w)'
    BY <2>2, <2>3 DEF AllIdle, Busy
  <2>7. \A k \in found : k \in stored'[mount'] /\ k <= next'
    BY <2>2, <2>4
  <2>8. OnePlace'
    BY <2>3, <2>5, <2>6, <2>7 DEF OnePlace
  <2> QED
    BY <2>5, <2>7, <2>8 DEF TrackedAreLive
<1>3. ASSUME phase = "churn", dense, UNCHANGED <<phase, mount, dense>> PROVE
      /\ \A k \in Ids : keys[k] \in Nat /\ (keys[k] > 0 => k <= next)
      /\ \A k \in Ids : keys[k] = 0 \/ (keys[k] = 1 /\ k \in stored[mount])
      /\ \A w \in Workers : Busy(w) =>
           /\ Key(w) \in Ids /\ Key(w) <= next /\ keys[Key(w)] = 0
           /\ worker[w].req.op = "write" /\ worker[w].at = "done" => Key(w) \in stored[mount]
           /\ \A v \in Workers : Busy(v) /\ Key(v) = Key(w) => v = w
      /\ \A r \in Here :
           /\ r.key \in Ids /\ r.key <= next /\ keys[r.key] = 0
           /\ \A w \in Workers : Busy(w) => Key(w) # r.key
  BY <1>3 DEF OnePlace, TrackedAreLive, KvTypeOK, Busy, Key, Here, Requests
<1>4. ASSUME NEW w \in Workers, NEW op, NEW key \in Ids, Sends(w, op, key),
             \A v \in Workers : Busy(v) => Key(v) # key,
             \A r \in Here : r.key # key
      PROVE  /\ Busy(w)' /\ Key(w)' = key /\ worker'[w].at = "sent"
             /\ \A v \in Workers : v # w => worker'[v] = worker[v] /\ (Busy(v)' <=> Busy(v))
                                           /\ Key(v)' = Key(v)
             /\ \A v \in Workers : v # w /\ Busy(v)' => Key(v)' # key
             /\ UNCHANGED <<stored, phase, mount, dense>> /\ Here' = Here
  BY <1>4 DEF Sends, KvTypeOK, Busy, Key, Idle, Here, historyVars
<1>5. ASSUME NEW w \in Workers, Write(w) PROVE OnePlace' /\ TrackedAreLive'
  <2>0. /\ phase = "churn" /\ dense /\ UNCHANGED <<phase, mount, dense, keys>>
        /\ next' = next + 1 /\ Sends(w, "write", next + 1)
    BY <1>5 DEF Write, Sends, historyVars
  <2>1. next + 1 \in Ids /\ next \in Nat
    BY <1>5 DEF Write, KvTypeOK, Ids
  <2>2. \A v \in Workers : Busy(v) => Key(v) # next + 1 /\ Key(v) \in Nat
    BY <1>3, <2>0, <2>1 DEF Ids
  <2>3. \A r \in Here : r.key # next + 1 /\ r.key \in Nat
    BY <1>3, <2>0, <2>1 DEF Ids
  <2>4. keys[next + 1] = 0 /\ \A k \in Ids : k <= next => k <= next + 1
    BY <1>3, <2>0, <2>1 DEF Ids
  <2>5. OnePlace'
    BY <1>3, <1>4, <2>0, <2>1, <2>2, <2>3, <2>4 DEF OnePlace
  <2>6. TrackedAreLive'
    BY <1>3, <1>4, <2>0, <2>1, <2>2, <2>3 DEF TrackedAreLive
  <2> QED
    BY <2>5, <2>6
<1>6. ASSUME NEW w \in Workers, NEW key \in Ids, Delete(w, key)
      PROVE  OnePlace' /\ TrackedAreLive'
  <2>1. phase = "churn" /\ dense /\ UNCHANGED <<phase, mount, dense, next>>
        /\ keys' = [keys EXCEPT ![key] = @ - 1] /\ Sends(w, "delete", key) /\ keys[key] > 0
    BY <1>6 DEF Delete, Sends, historyVars
  <2>2. keys[key] = 1 /\ key <= next
    BY <1>3, <2>1
  <2>3. \A k \in Ids : keys'[k] = IF k = key THEN 0 ELSE keys[k]
    BY <2>1, <2>2 DEF KvTypeOK
  <2>4. (\A v \in Workers : Busy(v) => Key(v) # key) /\ \A r \in Here : r.key # key
    BY <1>3, <2>1, <2>2
  <2>5. worker'[w].req.op = "delete"
    BY <2>1 DEF Sends, KvTypeOK
  <2>6. OnePlace'
    BY <1>3, <1>4, <2>1, <2>2, <2>3, <2>4, <2>5 DEF OnePlace
  <2>7. TrackedAreLive'
    BY <1>3, <1>4, <2>1, <2>3, <2>4 DEF TrackedAreLive
  <2> QED
    BY <2>6, <2>7
<1>7. ASSUME NEW w \in Workers, RequestEnds(w) PROVE OnePlace' /\ TrackedAreLive'
  <2>1. /\ phase = "churn" /\ dense /\ UNCHANGED <<phase, mount, dense, next>>
        /\ Busy(w) /\ worker[w].req \in Requests /\ worker[w].req.mount = mount
        /\ \A v \in Workers : Busy(v)' => Busy(v) /\ Key(v)' = Key(v)
                                        /\ worker'[v].req = worker[v].req
        /\ \A v \in Workers : v # w => worker'[v] = worker[v]
    BY <1>7, RequestSteps DEF Busy, Key, KvControl
  <2>2. CASE Served(w)
    <3>1. /\ UNCHANGED <<keys, late>> /\ Here' = Here
          /\ stored'[mount] = IF worker[w].req.op = "write" THEN stored[mount] \cup {Key(w)}
                                                             ELSE stored[mount] \ {Key(w)}
      BY <2>1, <2>2 DEF Served, toolVars, Execute, Key, Here, KvTypeOK
    <3>2. \A k \in Ids : k # Key(w) => (k \in stored'[mount] <=> k \in stored[mount])
      BY <3>1
    <3>3. OnePlace'
      BY <1>3, <2>1, <3>1, <3>2 DEF OnePlace
    <3>4. TrackedAreLive'
      BY <1>3, <2>1, <3>1, <3>2 DEF TrackedAreLive
    <3> QED
      BY <3>3, <3>4
  <2>3. CASE Refused(w)
    <3>1. UNCHANGED <<keys, late, stored>> /\ Here' = Here /\ worker'[w].at = "refused"
      BY <2>1, <2>3 DEF Refused, toolVars, Here, KvTypeOK
    <3> QED
      BY <1>3, <2>1, <3>1 DEF OnePlace, TrackedAreLive
  <2>4. CASE GivenUp(w)
    <3>1. UNCHANGED <<keys, stored>> /\ ~Busy(w)' /\ Here' \subseteq Here \cup {worker[w].req}
      BY <2>1, <2>4 DEF GivenUp, toolVars, Here, KvTypeOK, Busy
    <3>2. \A v \in Workers : Busy(v)' => v # w /\ Key(v)' # Key(w)
      BY <1>3, <2>1, <3>1
    <3> QED
      BY <1>3, <2>1, <3>1, <3>2 DEF OnePlace, TrackedAreLive, Key
  <2>5. CASE Answered(w)
    <3>1. /\ UNCHANGED <<late, stored>> /\ ~Busy(w)' /\ Here' = Here
          /\ keys' = IF worker[w].at = "done" /\ worker[w].req.op = "write"
                     THEN [keys EXCEPT ![Key(w)] = @ + 1] ELSE keys
      BY <2>1, <2>5 DEF Answered, Here, KvTypeOK, Busy, Key
    <3>2. keys[Key(w)] = 0 /\ Key(w) <= next /\ Key(w) \in Ids
      BY <1>3, <2>1
    <3>3. /\ \A k \in Ids : k # Key(w) => keys'[k] = keys[k]
          /\ keys'[Key(w)] \in {0, 1}
          /\ keys'[Key(w)] = 1 => Key(w) \in stored[mount]
      BY <1>3, <2>1, <3>1, <3>2 DEF KvTypeOK
    <3>4. \A v \in Workers : Busy(v)' => v # w /\ Key(v)' # Key(w)
      BY <1>3, <2>1, <3>1
    <3>5. \A r \in Here : r.key # Key(w)
      BY <1>3, <2>1
    <3>6. OnePlace'
      BY <1>3, <2>1, <3>1, <3>2, <3>3, <3>4, <3>5 DEF OnePlace
    <3>7. TrackedAreLive'
      BY <1>3, <2>1, <3>1, <3>3 DEF TrackedAreLive
    <3> QED
      BY <3>6, <3>7
  <2> QED
    BY <1>7, <2>2, <2>3, <2>4, <2>5 DEF RequestEnds
<1>8. CASE LateArrives
  <2>1. PICK r \in late : late' = late \ {r} /\ Execute(r) /\ UNCHANGED <<toolVars, worker, historyVars>>
    BY <1>8 DEF LateArrives
  <2>2. /\ phase = "churn" /\ dense /\ UNCHANGED <<phase, mount, dense, next, keys, worker>>
        /\ Here' \subseteq Here /\ r \in Requests
    BY <2>1 DEF toolVars, historyVars, Here, KvTypeOK
  <2>3. \A k \in Ids : k \in stored[mount] /\ k \notin stored'[mount] => r \in Here /\ k = r.key
    BY <2>1, <2>2 DEF Execute, Here, KvTypeOK
  <2>4. OnePlace'
    BY <1>3, <2>2, <2>3 DEF OnePlace, Busy, Key
  <2>5. TrackedAreLive'
    BY <1>3, <2>2, <2>3 DEF TrackedAreLive
  <2> QED
    BY <2>4, <2>5
<1>9. CASE UNCHANGED kvVars
  BY <1>9 DEF kvVars, toolVars, historyVars, OnePlace, TrackedAreLive, Busy, Key, Here
<1> QED
  BY <1>1, <1>2, <1>5, <1>6, <1>7, <1>8, <1>9 DEF KvNext, WorkerStarts

-----------------------------------------------------------------------------
(***************************************************************************)
(* The numbers of kv-write and of the seeding.                             *)
(***************************************************************************)
LEMMA NumbersStoredStep ==
  ASSUME KvInv, [KvNext]_kvVars
  PROVE  NumbersStored'
<1> USE KvAssumption DEF KvAssumption, Mounts, KvInv
<1> SUFFICES ASSUME Adding', dense', failed' = 0 PROVE NumbersStored'
  BY DEF NumbersStored
<1>1. CASE (\E c \in {"kv-write", "mix", "bulk-delete"}, m \in Mounts : Launch(c, m))
           \/ MixEnds \/ Interrupt \/ BatchDeleted
  BY <1>1 DEF Launch, MixEnds, PoolReturns, Interrupt, BatchDeleted, KvControl, Adding
<1>2. ASSUME NEW found \in {Page(mount), {}},
             \/ CountKeys(found) \/ SeedPool(found) \/ StartMix(found)
             \/ DeleteBatch(found) \/ MountDeleted(found)
      PROVE  NumbersStored'
  <2>1. CountKeys(found) \/ SeedPool(found)
    BY <1>2 DEF StartMix, DeleteBatch, MountDeleted, listKeys, Adding, KvControl
  <2>2. /\ found = 1..Cardinality(found) /\ found = stored[mount] /\ Here = {}
        /\ UNCHANGED <<stored, late, mount, worker, command>> /\ phase \in {"list", "relist"}
        /\ phase' \in {"write", "seed"}
    BY <2>1 DEF CountKeys, SeedPool, listKeys, Here
  <2>3. \A w \in Workers : worker'[w] = Idle
    BY <2>2 DEF KvControl, AllIdle
  <2>4. next' = Cardinality(found) /\ next' + left' = Wanted' /\ Cardinality(found) \in Nat
    <3>1. Cardinality(found) \in Nat
      BY Lists
    <3>2. CASE CountKeys(found)
      <4>1. before' = Cardinality(found)
        BY <2>2, <3>2 DEF CountKeys, listKeys
      <4> QED
        BY <2>2, <3>1, <3>2, <4>1 DEF CountKeys, Wanted
    <3>3. CASE SeedPool(found)
      BY <2>2, <3>1, <3>3 DEF SeedPool, Wanted
    <3> QED
      BY <2>1, <3>1, <3>2, <3>3
  <2>5. Sent' = {} /\ Here' = {}
    BY <2>2, <2>3 DEF Sent, Idle, Here
  <2>6. stored'[mount'] = 1..next' /\ \A w \in Workers : worker'[w].at # "refused"
    BY <2>2, <2>3, <2>4 DEF Idle
  <2> QED
    BY <2>2, <2>4, <2>5, <2>6 DEF NumbersStored
<1>3. CASE Written \/ Seeded
  <2>1. /\ left = 0 /\ AllIdle /\ phase \in {"write", "seed"}
        /\ UNCHANGED <<stored, late, command, mount, next, left, worker, failed, dense, before>>
    BY <1>3 DEF Written, Seeded, PoolReturns, historyVars
  <2>2. Sent' = Sent /\ Here' = Here
    BY <2>1 DEF Sent, Key, Here
  <2> QED
    BY <2>1, <2>2 DEF NumbersStored, Adding, Wanted
<1>4. ASSUME UNCHANGED <<phase, command, dense, before, mount>>, failed = 0
      PROVE  /\ Adding /\ dense /\ stored[mount] \cup Sent = 1..next /\ Here = {}
             /\ \A w \in Workers : worker[w].at # "refused"
             /\ next + left = Wanted /\ Wanted' = Wanted
             /\ phase \in {"idle", "relist"} => left = 0
  BY <1>4 DEF NumbersStored, Adding, Wanted
<1>5. ASSUME NEW w \in Workers, Write(w) PROVE NumbersStored'
  <2>1. UNCHANGED <<phase, command, dense, before, mount, stored, late>> /\ failed = 0
        /\ phase \in {"write", "seed", "churn"} /\ Here' = Here
    BY <1>5 DEF Write, Sends, historyVars, Here
  <2>2. left' = left - 1 /\ left > 0 /\ phase \in {"write", "seed"}
    BY <1>4, <1>5, <2>1 DEF Write, Adding
  <2>3. next' = next + 1 /\ next \in Nat /\ left \in Nat
    BY <1>5 DEF Write, KvTypeOK
  <2>4. /\ worker'[w].at = "sent" /\ Key(w)' = next + 1 /\ worker[w].at # "sent"
        /\ \A v \in Workers : v # w => worker'[v] = worker[v]
    BY <1>5 DEF Write, Sends, KvTypeOK, Key, Idle
  <2>5. Sent' = Sent \cup {next + 1}
    BY <2>4 DEF Sent, Key
  <2>6. stored'[mount'] \cup Sent' = 1..next'
    <3>1. stored[mount] \cup Sent = 1..next
      BY <1>4, <2>1
    <3>2. 1..(next + 1) = (1..next) \cup {next + 1}
      BY <2>3
    <3> QED
      BY <2>1, <2>3, <2>5, <3>1, <3>2
  <2>7. next' + left' = Wanted'
    <3>1. next + left = Wanted /\ Wanted' = Wanted
      BY <1>4, <2>1
    <3> QED
      BY <2>2, <2>3, <3>1
  <2>8. \A v \in Workers : worker'[v].at # "refused"
    BY <1>4, <2>1, <2>4
  <2> QED
    BY <1>4, <2>1, <2>2, <2>6, <2>7, <2>8 DEF NumbersStored
<1>6. ASSUME NEW w \in Workers, NEW key \in Ids, Delete(w, key) PROVE NumbersStored'
  BY <1>6 DEF Delete, Sends, Adding
<1>7. ASSUME NEW w \in Workers, RequestEnds(w) PROVE NumbersStored'
  <2>1. /\ UNCHANGED <<phase, command, dense, before, mount, next, left>> /\ Busy(w)
        /\ worker[w].req.mount = mount
    BY <1>7, RequestSteps DEF KvControl
  <2>2. failed' = failed + 1 \/ (failed = 0 /\ (Served(w) \/ Answered(w)))
    BY <1>7 DEF RequestEnds, Served, Answered, Refused, GivenUp, FailRequest, historyVars
  <2>3. failed = 0 /\ (Served(w) \/ Answered(w))
    BY <2>2 DEF KvTypeOK
  <2>4. Adding /\ phase \in {"write", "seed"} /\ worker[w].req.op = "write"
    BY <1>4, <2>1, <2>3 DEF Adding, KvControl, AllIdle, Busy
  <2>5. CASE Served(w)
    <3>1. /\ worker[w].at = "sent" /\ worker'[w].at = "done" /\ UNCHANGED late /\ Here' = Here
          /\ stored'[mount] = stored[mount] \cup {Key(w)}
          /\ \A v \in Workers : v # w => worker'[v] = worker[v]
      BY <2>1, <2>4, <2>5 DEF Served, Execute, KvTypeOK, Key, Here, toolVars, Idle
    <3>2. Sent = Sent' \cup {Key(w)}
      BY <3>1 DEF Sent, Key
    <3> QED
      BY <1>4, <2>1, <2>3, <3>1, <3>2 DEF NumbersStored
  <2>6. CASE Answered(w)
    <3>1. /\ worker[w].at # "sent" /\ worker'[w].at = "idle" /\ UNCHANGED <<late, stored>>
          /\ Here' = Here /\ \A v \in Workers : v # w => worker'[v] = worker[v]
      BY <2>1, <2>6 DEF Answered, KvTypeOK, Here, Idle
    <3>2. Sent' = Sent
      BY <3>1 DEF Sent, Key
    <3> QED
      BY <1>4, <2>1, <2>3, <3>1, <3>2 DEF NumbersStored
  <2> QED
    BY <2>3, <2>5, <2>6
<1>8. CASE LateArrives
  <2>1. PICK r \in late :
          late' = late \ {r} /\ Execute(r) /\ UNCHANGED <<toolVars, worker, historyVars>>
    BY <1>8 DEF LateArrives
  <2>2. UNCHANGED <<phase, command, dense, before, mount, next, left, worker, failed>>
        /\ Sent' = Sent
    BY <2>1 DEF toolVars, historyVars, Sent, Key
  <2>3. r.mount # mount /\ Here' = {}
    BY <1>4, <2>1, <2>2 DEF Here
  <2>4. stored'[mount] = stored[mount]
    BY <2>1, <2>3 DEF Execute, KvTypeOK
  <2> QED
    BY <1>4, <2>2, <2>3, <2>4 DEF NumbersStored
<1>9. CASE UNCHANGED kvVars
  BY <1>9 DEF kvVars, toolVars, historyVars, NumbersStored, Adding, Wanted, Sent, Key, Here
<1> QED
  BY <1>1, <1>2, <1>3, <1>5, <1>6, <1>7, <1>8, <1>9 DEF KvNext, WorkerStarts, Command

-----------------------------------------------------------------------------
(***************************************************************************)
(* bulk-delete.                                                            *)
(***************************************************************************)
LEMMA EmptiedStep ==
  ASSUME KvInv, [KvNext]_kvVars
  PROVE  EmptiedSoFar'
<1> USE KvAssumption DEF KvAssumption, Mounts, KvInv
<1> SUFFICES ASSUME command' = "bulk-delete", quiet' PROVE EmptiedSoFar'
  BY DEF EmptiedSoFar
<1>1. ASSUME NEW c \in {"kv-write", "mix", "bulk-delete"}, NEW m \in Mounts, Launch(c, m)
      PROVE  EmptiedSoFar'
  BY <1>1 DEF Launch, EmptiedSoFar
<1>2. ASSUME NEW found \in {Page(mount), {}},
             \/ CountKeys(found) \/ SeedPool(found) \/ StartMix(found)
             \/ DeleteBatch(found) \/ MountDeleted(found)
      PROVE  EmptiedSoFar'
  <2>1. DeleteBatch(found) \/ MountDeleted(found)
    BY <1>2 DEF CountKeys, SeedPool, StartMix, listKeys
  <2>0. listKeys(found)
    BY <2>1 DEF DeleteBatch, MountDeleted
  <2>2. UNCHANGED <<stored, late, command, quiet>> /\ phase \in {"list", "relist"}
    BY <2>0 DEF listKeys
  <2>5. ~listFailed' => ~listFailed /\ found = Page(mount)
    BY <2>0 DEF listKeys
  <2>3. ~listFailed' /\ found = {} => stored[mount] = {}
    BY <2>5, Lists
  <2> QED
    BY <2>1, <2>2, <2>3, <2>5 DEF DeleteBatch, MountDeleted, EmptiedSoFar, KvTypeOK
<1>3. CASE Written \/ Seeded \/ BatchDeleted \/ MixEnds
  BY <1>3 DEF Written, Seeded, BatchDeleted, MixEnds, PoolReturns, historyVars, EmptiedSoFar,
              KvControl
<1>4. CASE Interrupt
  BY <1>4 DEF Interrupt
<1>5. ASSUME NEW w \in Workers, WorkerStarts(w) PROVE EmptiedSoFar'
  BY <1>5 DEF WorkerStarts, Write, Delete, Sends, historyVars, EmptiedSoFar
<1>6. ASSUME NEW w \in Workers, RequestEnds(w) PROVE EmptiedSoFar'
  <2>1. /\ UNCHANGED <<command, phase, mount, listFailed, quiet>> /\ Busy(w)
        /\ worker[w].req \in Requests
    BY <1>6, RequestSteps
  <2>2. phase = "delete" /\ worker[w].req.op = "delete"
    BY <2>1 DEF KvControl, AllIdle, Busy, KvTypeOK, Working
  <2>3. late' = late \/ late' = late \cup {worker[w].req}
    BY <1>6 DEF RequestEnds, Served, Refused, GivenUp, Answered
  <2>4. \A m \in Mounts : stored'[m] \subseteq stored[m]
    <3>1. CASE Served(w)
      BY <2>2, <3>1 DEF Served, Execute, KvTypeOK
    <3>2. CASE Refused(w) \/ GivenUp(w) \/ Answered(w)
      BY <3>2 DEF Refused, GivenUp, Answered
    <3> QED
      BY <1>6, <3>1, <3>2 DEF RequestEnds
  <2> QED
    BY <2>1, <2>2, <2>3, <2>4 DEF EmptiedSoFar
<1>7. CASE LateArrives
  <2>1. PICK r \in late :
          late' = late \ {r} /\ Execute(r) /\ UNCHANGED <<toolVars, worker, historyVars>>
    BY <1>7 DEF LateArrives
  <2>2. UNCHANGED <<command, phase, mount, listFailed, quiet>> /\ r.op # "write"
    BY <2>1 DEF toolVars, historyVars, EmptiedSoFar
  <2>3. \A m \in Mounts : stored'[m] \subseteq stored[m]
    BY <2>1, <2>2 DEF Execute, KvTypeOK
  <2> QED
    BY <2>1, <2>2, <2>3 DEF EmptiedSoFar
<1>8. CASE UNCHANGED kvVars
  BY <1>8 DEF kvVars, toolVars, historyVars, EmptiedSoFar
<1> QED
  BY <1>1, <1>2, <1>3, <1>4, <1>5, <1>6, <1>7, <1>8 DEF KvNext, Command

-----------------------------------------------------------------------------
(***************************************************************************)
(* What the mix leaves behind.                                             *)
(***************************************************************************)
LEMMA OneMore ==
  ASSUME NEW A \in SUBSET Ids, NEW B, NEW k \in Ids, NEW n \in Nat, Cardinality(A) <= n,
         B \subseteq A \cup {k}
  PROVE  Cardinality(B) <= n + 1 /\ (B \subseteq A => Cardinality(B) <= n)
<1>1. IsFiniteSet(Ids)
  BY FS_Interval, KvAssumption DEF KvAssumption, Ids
<1>2. IsFiniteSet(A) /\ IsFiniteSet(B)
  BY <1>1, FS_Subset
<1>3. /\ IsFiniteSet(A \cup {k})
      /\ Cardinality(A \cup {k}) = IF k \in A THEN Cardinality(A) ELSE Cardinality(A) + 1
  BY <1>2, FS_AddElement
<1>4. Cardinality(B) <= Cardinality(A \cup {k}) /\ (B \subseteq A => Cardinality(B) <= Cardinality(A))
  BY <1>2, <1>3, FS_Subset
<1>5. Cardinality(A) \in Nat /\ Cardinality(B) \in Nat
  BY <1>2, FS_CardinalityType
<1> QED
  BY <1>3, <1>4, <1>5

LEMMA ChargedTyped ==
  ASSUME KvTypeOK
  PROVE  Charged \subseteq Ids
BY DEF KvTypeOK, Charged, Here, Requests

(* A request that ends leaves nothing behind that is not on its account.   *)
LEMMA RequestCharged ==
  ASSUME KvInv, command = "mix", NEW w \in Workers, RequestEnds(w)
  PROVE  /\ Charged' \subseteq Charged \cup {Key(w)}
         /\ failed' = failed => Charged' \subseteq Charged
<1> USE DEF KvInv
<1>1. /\ Busy(w) /\ worker[w].req \in Requests /\ worker[w].req.mount = mount
      /\ UNCHANGED <<phase, mount>>
      /\ \A v \in Workers : v # w => worker'[v] = worker[v]
      /\ phase \in {"seed", "churn"}
  BY RequestSteps DEF KvControl, KvTypeOK, AllIdle, Busy, Working
<1>2. Here' \subseteq Here \cup {worker[w].req} /\ (failed' = failed => Here' = Here)
  BY <1>1 DEF RequestEnds, Served, Refused, GivenUp, Answered, Here, FailRequest, KvTypeOK,
              toolVars
<1>3. \A k \in Ids : k # Key(w) =>
        /\ Handled(k)' <=> Handled(k)
        /\ k \in stored'[mount] <=> k \in stored[mount]
        /\ keys'[k] = keys[k]
  <2>1. \A v \in Workers : Busy(v)' => Busy(v) /\ Key(v)' = Key(v)
    BY <1>1, RequestSteps DEF Busy, Key
  <2>2. \A k \in Ids : k # Key(w) => (Handled(k)' <=> Handled(k))
    BY <1>1, <2>1 DEF Handled, Busy, Key
  <2>3. \A k \in Ids : k # Key(w) => (k \in stored'[mount] <=> k \in stored[mount])
    BY <1>1 DEF RequestEnds, Served, Refused, GivenUp, Answered, Execute, KvTypeOK, Key, Mounts
  <2>4. \A k \in Ids : k # Key(w) => keys'[k] = keys[k]
    BY <1>1 DEF RequestEnds, Served, Refused, GivenUp, Answered, KvTypeOK, Key, toolVars
  <2> QED
    BY <2>2, <2>3, <2>4
<1>4. Charged' \subseteq Charged \cup {Key(w)}
  <2>1. \A r \in Here' : r \in Here \/ r.key = Key(w)
    BY <1>2 DEF Key
  <2>2. stored'[mount] \subseteq Ids
    BY <1>1, KvTypeStep DEF KvTypeOK, KvNext
  <2> QED
    BY <1>1, <1>3, <2>1, <2>2 DEF Charged
<1>5. ASSUME failed' = failed PROVE Charged' \subseteq Charged
  <2>0. Served(w) \/ Answered(w)
    BY <1>5 DEF RequestEnds, Refused, GivenUp, FailRequest, KvTypeOK
  <2>1. Here' = Here
    BY <1>2, <1>5
  <2>2. ASSUME NEW k \in Ids, k = Key(w), phase = "churn",
               k \in stored'[mount], keys'[k] = 0, ~Handled(k)'
        PROVE  k \in stored[mount] /\ keys[k] = 0 /\ ~Handled(k)
    <3>1. CASE Served(w)
      <4>1. /\ worker[w].at = "sent" /\ worker'[w].at = "done" /\ Busy(w)' /\ Key(w)' = k
            /\ worker'[w].req = worker[w].req
            /\ stored'[mount] = IF worker[w].req.op = "write" THEN stored[mount] \cup {k}
                                                              ELSE stored[mount] \ {k}
        BY <1>1, <2>2, <3>1 DEF Served, Execute, KvTypeOK, Key, Busy, Idle, Mounts
      <4>2. worker[w].req.op # "write"
        BY <2>2, <4>1 DEF Handled
      <4> QED
        BY <2>2, <4>1, <4>2
    <3>2. CASE Answered(w)
      <4>1. /\ worker[w].at \in {"done", "refused"} /\ UNCHANGED stored
            /\ keys' = IF worker[w].at = "done" /\ worker[w].req.op = "write"
                       THEN [keys EXCEPT ![k] = @ + 1] ELSE keys
        BY <2>2, <3>2 DEF Answered, Key
      <4>2. ~(worker[w].at = "done" /\ worker[w].req.op = "write")
        BY <2>2, <4>1 DEF KvTypeOK
      <4>3. ASSUME NEW v \in Workers, Busy(v), Key(v) = k,
                   worker[v].at = "sent" \/ (worker[v].at = "done" /\ worker[v].req.op = "write")
            PROVE  FALSE
        <5>1. v # w
          BY <4>1, <4>2, <4>3
        <5>2. worker'[v] = worker[v]
          BY <1>1, <5>1
        <5> QED
          BY <2>2, <4>3, <5>2 DEF Handled, Busy, Key
      <4> QED
        BY <2>2, <4>1, <4>2, <4>3 DEF Handled
    <3> QED
      BY <2>0, <3>1, <3>2
  <2>3. ASSUME NEW k \in Ids, phase = "churn", k \in stored'[mount], keys'[k] = 0, ~Handled(k)'
        PROVE  k \in stored[mount] /\ keys[k] = 0 /\ ~Handled(k)
    BY <1>3, <2>2, <2>3
  <2>4. stored'[mount] \subseteq Ids
    BY <1>1, KvTypeStep DEF KvTypeOK, KvNext
  <2> QED
    BY <1>1, <2>1, <2>3, <2>4 DEF Charged
<1> QED
  BY <1>4, <1>5

LEMMA LeaksStep ==
  ASSUME KvInv, [KvNext]_kvVars
  PROVE  LeaksCharged'
<1> USE KvAssumption DEF KvAssumption, Mounts, KvInv
<1> SUFFICES ASSUME command' = "mix", phase' # "idle", quiet', ~listFailed'
             PROVE  Cardinality(Charged') <= failed'
  BY DEF LeaksCharged
<1>0. KvTypeOK' /\ Charged \in SUBSET Ids
  BY KvTypeStep, ChargedTyped
<1>1. ASSUME NEW c \in {"kv-write", "mix", "bulk-delete"}, NEW m \in Mounts, Launch(c, m)
      PROVE  Cardinality(Charged') <= failed'
  <2>1. Charged' = {} /\ failed' = 0
    BY <1>1 DEF Launch, Charged, Here
  <2> QED
    BY <2>1, FS_EmptySet
<1>2. ASSUME command = "mix", phase # "idle", quiet, ~listFailed, failed' = failed,
             Charged' \subseteq Charged
      PROVE  Cardinality(Charged') <= failed'
  <2>1. Cardinality(Charged) <= failed /\ failed \in Nat
    BY <1>2 DEF LeaksCharged, KvTypeOK
  <2>2. ASSUME NEW k \in Ids PROVE Cardinality(Charged') <= failed
    BY <1>0, <1>2, <2>1, OneMore
  <2>3. CASE Ids = {}
    BY <1>0, <1>2, <2>1, <2>3
  <2> QED
    BY <1>2, <2>2, <2>3
<1>3. ASSUME NEW found \in {Page(mount), {}},
             \/ CountKeys(found) \/ SeedPool(found) \/ StartMix(found)
             \/ DeleteBatch(found) \/ MountDeleted(found)
      PROVE  Cardinality(Charged') <= failed'
  <2>1. listKeys(found) /\ (SeedPool(found) \/ StartMix(found))
    BY <1>3 DEF CountKeys, SeedPool, StartMix, DeleteBatch, MountDeleted, listKeys
  <2>2. /\ UNCHANGED <<stored, late, command, failed, quiet, mount, worker>>
        /\ phase \in {"list", "relist"} /\ ~listFailed /\ found = Page(mount)
    <3>1. UNCHANGED <<stored, late, command, failed, quiet, worker>> /\ phase \in {"list", "relist"}
      BY <2>1 DEF listKeys
    <3>2. UNCHANGED mount
      BY <2>1 DEF SeedPool, StartMix
    <3>3. ~listFailed /\ found = Page(mount)
      BY <2>1 DEF listKeys
    <3> QED
      BY <3>1, <3>2, <3>3
  <2>3. found = stored[mount]
    BY <2>2 DEF Page
  <2>4. Here' = Here
    BY <2>2 DEF Here
  <2>5. CASE SeedPool(found)
    BY <1>2, <2>2, <2>4, <2>5 DEF SeedPool, Charged
  <2>6. CASE StartMix(found)
    <3>1. \A k \in found : keys'[k] # 0
      BY <2>3, <2>6 DEF StartMix, OnList, KvTypeOK
    <3>2. Charged' \subseteq Charged
      BY <2>2, <2>3, <2>4, <2>6, <3>1 DEF StartMix, Charged
    <3> QED
      BY <1>2, <2>2, <3>2
  <2> QED
    BY <2>1, <2>5, <2>6
<1>4. CASE Written \/ Seeded \/ BatchDeleted \/ MixEnds
  <2>1. Seeded
    BY <1>4 DEF Written, Seeded, BatchDeleted, MixEnds, PoolReturns, KvControl
  <2>2. /\ phase = "seed" /\ phase' = "relist"
        /\ UNCHANGED <<late, command, mount, failed, quiet, listFailed>>
    BY <2>1 DEF Seeded, PoolReturns, historyVars
  <2> QED
    BY <1>2, <2>2 DEF Charged, Here
<1>5. CASE Interrupt
  BY <1>5 DEF Interrupt
<1>6. ASSUME NEW w \in Workers, NEW op, NEW key \in Ids, Sends(w, op, key), op \in {"write", "delete"},
             \A k \in Ids : k # key => keys'[k] = keys[k]
      PROVE  Cardinality(Charged') <= failed'
  <2>1. /\ UNCHANGED <<stored, late, command, phase, mount, failed, quiet, listFailed>>
        /\ Here' = Here
    BY <1>6 DEF Sends, historyVars, Here
  <2>2. /\ \A v \in Workers : v # w => worker'[v] = worker[v]
        /\ ~Busy(w) /\ worker'[w].at = "sent" /\ Busy(w)' /\ Key(w)' = key
    BY <1>6 DEF Sends, KvTypeOK, Busy, Key, Idle
  <2>3. Handled(key)' /\ \A k \in Ids : Handled(k) => Handled(k)'
    BY <2>2 DEF Handled, Busy, Key
  <2>4. stored[mount] \subseteq Ids
    BY DEF KvTypeOK
  <2>5. Charged' \subseteq Charged
    BY <1>6, <2>1, <2>3, <2>4 DEF Charged
  <2> QED
    BY <1>2, <2>1, <2>5
<1>7. ASSUME NEW w \in Workers, WorkerStarts(w)
      PROVE  Cardinality(Charged') <= failed'
  <2>1. CASE Write(w)
    <3>1. Sends(w, "write", next + 1) /\ next + 1 \in Ids /\ UNCHANGED keys
      BY <2>1 DEF Write, KvTypeOK, Ids
    <3> QED
      BY <1>6, <3>1
  <2>2. ASSUME NEW key \in Ids, Delete(w, key)
        PROVE  Cardinality(Charged') <= failed'
    <3>1. Sends(w, "delete", key) /\ keys' = [keys EXCEPT ![key] = @ - 1]
      BY <2>2 DEF Delete
    <3>2. \A k \in Ids : k # key => keys'[k] = keys[k]
      BY <3>1 DEF KvTypeOK
    <3> QED
      BY <1>6, <3>1, <3>2
  <2> QED
    BY <1>7, <2>1, <2>2 DEF WorkerStarts
<1>8. ASSUME NEW w \in Workers, RequestEnds(w)
      PROVE  Cardinality(Charged') <= failed'
  <2>1. /\ UNCHANGED <<command, phase, listFailed, quiet>> /\ Key(w) \in Ids
    BY <1>8, RequestSteps DEF Key, Requests
  <2>2. failed' \in {failed, failed + 1}
    BY <1>8 DEF RequestEnds, Served, Refused, GivenUp, Answered, FailRequest, historyVars
  <2>3. Cardinality(Charged) <= failed /\ failed \in Nat
    BY <2>1 DEF LeaksCharged, KvTypeOK
  <2>4. /\ Charged' \subseteq Charged \cup {Key(w)}
        /\ failed' = failed => Charged' \subseteq Charged
    BY <1>8, <2>1, RequestCharged
  <2>5. CASE failed' = failed
    BY <1>2, <2>1, <2>4, <2>5
  <2>6. CASE failed' = failed + 1
    BY <1>0, <2>1, <2>3, <2>4, <2>6, OneMore
  <2> QED
    BY <2>2, <2>5, <2>6
<1>9. CASE LateArrives
  <2>1. PICK r \in late :
          late' = late \ {r} /\ Execute(r) /\ UNCHANGED <<toolVars, worker, historyVars>>
    BY <1>9 DEF LateArrives
  <2>2. UNCHANGED <<command, phase, mount, keys, worker, listFailed, quiet, failed>>
    BY <2>1 DEF toolVars, historyVars
  <2>3. Here' \subseteq Here /\ \A k : Handled(k)' <=> Handled(k)
    BY <2>1, <2>2 DEF Here, Handled, Busy, Key
  <2>4. \A k \in stored'[mount] : k \in stored[mount] \/ (r \in Here /\ r.op = "write" /\ k = r.key)
    BY <2>1 DEF Execute, Here, KvTypeOK, Requests
  <2>5. Charged' \subseteq Charged
    BY <2>2, <2>3, <2>4 DEF Charged
  <2> QED
    BY <1>2, <2>2, <2>5
<1>10. CASE UNCHANGED kvVars
  <2>1. Charged' = Charged
    BY <1>10 DEF kvVars, toolVars, historyVars, Charged, Here, Handled, Busy, Key
  <2> QED
    BY <1>2, <1>10, <2>1 DEF kvVars, toolVars, historyVars
<1> QED
  BY <1>1, <1>3, <1>4, <1>5, <1>7, <1>8, <1>9, <1>10 DEF KvNext, Command

-----------------------------------------------------------------------------
(***************************************************************************)
(* The theorems.                                                           *)
(***************************************************************************)

(* The inductive invariant of the tool holds whatever was stored before it *)
(* was run and whichever requests fail.                                    *)
THEOREM KvInvariant == KvSpec => []KvInv
<1>1. KvInit => KvInv
  BY KvInvInit
<1>2. KvInv /\ [KvNext]_kvVars => KvInv'
  BY KvTypeStep, OnePlaceStep, NumbersStoredStep, EmptiedStep, LeaksStep DEF KvInv
<1> QED
  BY <1>1, <1>2, PTL DEF KvSpec

(* On a mount without gaps the mix lists live keys, each once.             *)
THEOREM TrackedCorrect == KvSpec => []TrackedAreLive
<1>1. KvInv => TrackedAreLive
  BY DEF KvInv
<1> QED
  BY <1>1, KvInvariant, PTL

(* Numbering on from the number of keys writes over none on such a mount,  *)
(* and adds as many as are wanted.                                         *)
THEOREM WritesCorrect == KvSpec => []WritesAdd
<1>1. KvInv => WritesAdd
  <2> SUFFICES ASSUME KvInv, (phase = "idle" /\ command = "kv-write") \/ phase = "relist",
                      dense, failed = 0
               PROVE  stored[mount] = 1..Wanted
    BY DEF WritesAdd
  <2>1. /\ stored[mount] \cup Sent = 1..next
        /\ next + left = Wanted
        /\ left = 0 /\ next \in Nat
    BY DEF KvInv, NumbersStored, Adding, KvTypeOK
  <2>2. \A v \in Workers : worker[v].at # "sent"
    BY DEF KvInv, KvControl, AllIdle, Idle
  <2>3. Sent = {}
    BY <2>2 DEF Sent
  <2>4. next = Wanted
    BY <2>1
  <2> QED
    BY <2>1, <2>3, <2>4
<1> QED
  BY <1>1, KvInvariant, PTL

(* bulk-delete returns over empty mounts, unless a list went wrong or a    *)
(* write was late.                                                         *)
THEOREM DeletionCorrect == KvSpec => []EmptiedWhenDone
<1>1. KvInv => EmptiedWhenDone
  BY DEF KvInv, EmptiedSoFar, EmptiedWhenDone, Mounts
<1> QED
  BY <1>1, KvInvariant, PTL

(* Every secret the mix has lost track of is a failed request's.           *)
THEOREM LeaksCorrect == KvSpec => []LeaksAreFailures
<1>1. KvInv => LeaksAreFailures
  <2> SUFFICES ASSUME KvInv, phase = "churn", quiet, ~listFailed
               PROVE  Cardinality({k \in stored[mount] : keys[k] = 0} \ InFlight) <= failed
    BY DEF LeaksAreFailures
  <2> DEFINE Lost == {k \in stored[mount] : keys[k] = 0} \ InFlight
  <2>1. Cardinality(Charged) <= failed /\ failed \in Nat
    BY DEF KvInv, KvControl, LeaksCharged, KvTypeOK
  <2>2. Lost \subseteq Charged
    BY DEF Charged, Handled, InFlight, Busy, Key
  <2>3. Charged \in SUBSET Ids
    BY ChargedTyped DEF KvInv
  <2>4. IsFiniteSet(Charged)
    <3>1. IsFiniteSet(Ids)
      BY FS_Interval, KvAssumption DEF KvAssumption, Ids
    <3> QED
      BY <2>3, <3>1, FS_Subset
  <2>5. Cardinality(Lost) <= Cardinality(Charged) /\ IsFiniteSet(Lost)
    BY <2>2, <2>4, FS_Subset
  <2>6. Cardinality(Lost) \in Nat /\ Cardinality(Charged) \in Nat
    BY <2>4, <2>5, FS_CardinalityType
  <2> QED
    BY <2>1, <2>5, <2>6
<1> QED
  BY <1>1, KvInvariant, PTL
=============================================================================
