---------------------------- MODULE ProcessProofs ----------------------------
(***************************************************************************)
(* Proofs about Startup, Exporter and their composition, Process.          *)
(***************************************************************************)
EXTENDS Process, TLAPS

-----------------------------------------------------------------------------
(***************************************************************************)
(* LoadConfig is right for every file and every list of common sockets,    *)
(* and on a node that changes at will: StartupInv is inductive.            *)
(***************************************************************************)

(* The defaults fill what the file leaves out and nothing else.            *)
LEMMA DefaultsComplete ==
  ASSUME NEW c \in Config
  PROVE  LET d == applyDefaults(c)
         IN  /\ d \in Config
             /\ \A f \in {"Address", "LogLevel", "Cgroup", "Proc"} :
                  d[f] # Unset /\ c[f] \in {Unset, d[f]}
             /\ d.CRISocket = c.CRISocket
             /\ DOMAIN d.Filters = DOMAIN c.Filters
             /\ \A i \in DOMAIN d.Filters :
                  d.Filters[i] # Unset /\ c.Filters[i] \in {Unset, d.Filters[i]}
<1> USE StartupAssumption DEF StartupAssumption
<1> DEFINE d == applyDefaults(c)
           F == c.Filters
           G == [i \in DOMAIN F |-> Default(F[i], AnyCommand)]
<1>1. /\ c.Address \in Values \cup {Unset} /\ c.LogLevel \in Values \cup {Unset}
      /\ c.Cgroup \in Files \cup {Unset} /\ c.Proc \in Files \cup {Unset}
      /\ c.CRISocket \in Files \cup {Unset} /\ F \in Seq(Values \cup {Unset})
      /\ c.EmptyFilePattern \in BOOLEAN
  BY DEF Config
<1>2. /\ d.Address = Default(c.Address, DefaultAddress)
      /\ d.Cgroup = Default(c.Cgroup, DefaultCgroup)
      /\ d.Proc = Default(c.Proc, DefaultProc)
      /\ d.LogLevel = Default(c.LogLevel, DefaultLogLevel)
      /\ d.Filters = G
      /\ d.CRISocket = c.CRISocket
      /\ d.EmptyFilePattern = c.EmptyFilePattern
  BY DEF applyDefaults
<1>4. \A i \in DOMAIN F : F[i] \in Values \cup {Unset}
  BY <1>1
<1>5. \A i \in DOMAIN F :
        /\ G[i] \in Values /\ G[i] # Unset
        /\ F[i] \in {Unset, G[i]}
  BY <1>4 DEF Default
<1>6. G \in Seq(Values \cup {Unset}) /\ DOMAIN G = DOMAIN F
  <2>1. DOMAIN F = 1..Len(F) /\ Len(F) \in Nat
    BY <1>1
  <2>2. G \in [1..Len(F) -> Values \cup {Unset}]
    BY <1>5, <2>1
  <2> QED
    BY <2>1, <2>2
<1>7. /\ d.Address \in Values /\ d.LogLevel \in Values
      /\ d.Cgroup \in Files /\ d.Proc \in Files
  BY <1>1, <1>2 DEF Default
<1>8. d \in Config
  BY <1>1, <1>2, <1>6, <1>7 DEF Config, applyDefaults
<1>9. /\ c.Address \in {Unset, d.Address} /\ c.LogLevel \in {Unset, d.LogLevel}
      /\ c.Cgroup \in {Unset, d.Cgroup} /\ c.Proc \in {Unset, d.Proc}
  BY <1>2 DEF Default
<1>10. \A f \in {"Address", "LogLevel", "Cgroup", "Proc"} :
         d[f] # Unset /\ c[f] \in {Unset, d[f]}
  <2> HIDE DEF d
  <2> QED
    BY <1>7, <1>9
<1> HIDE DEF d, G, F
<1> QED
  BY <1>2, <1>5, <1>6, <1>8, <1>10 DEF d, F

(* A path that was not touched is what it was.                             *)
LEMMA TouchKeeps ==
  ASSUME StartupTypeOK, NEW f \in Files, NEW s \in Stats, Touch(f, s)
  PROVE  /\ UNCHANGED loadVars
         /\ stat' \in [Files -> Stats] /\ touched' \subseteq Files
         /\ touched \subseteq touched'
         /\ \A p \in Files : p \notin touched' => stat'[p] = stat[p]
<1>1. /\ UNCHANGED loadVars
      /\ stat' = [stat EXCEPT ![f] = s] /\ touched' = touched \cup {f}
  BY DEF Touch
<1>2. stat' \in [Files -> Stats] /\ touched' \subseteq Files
  BY <1>1 DEF StartupTypeOK
<1>3. \A p \in Files : p = f \/ stat'[p] = stat[p]
  BY <1>1 DEF StartupTypeOK
<1> QED
  BY <1>1, <1>2, <1>3

(* The paths of a complete configuration are paths.                        *)
LEMMA PathsAreFiles ==
  ASSUME config \in Config
  PROVE  /\ \A i \in 1..3 : ToStat[i] \in Files \cup {Unset}
         /\ ToStat[1] = config.Cgroup /\ ToStat[2] = config.Proc
         /\ ToStat[3] = config.CRISocket
<1>1. ToStat[1] = config.Cgroup /\ ToStat[2] = config.Proc /\ ToStat[3] = config.CRISocket
  BY DEF ToStat
<1>2. \A i \in 1..3 : i = 1 \/ i = 2 \/ i = 3
  OBVIOUS
<1> QED
  BY <1>1, <1>2 DEF Config

-----------------------------------------------------------------------------
(* The initial states.                                                     *)
LEMMA StartupInvInit == StartupInit => StartupInv
BY StartupAssumption
DEF StartupAssumption, StartupInit, StartupInv, StartupTypeOK, SocketDetected,
    LoadedIsSound, RejectedForCause

(* The node changes.                                                       *)
LEMMA NodeKeeps ==
  ASSUME StartupInv, NodeStep
  PROVE  StartupInv'
<1> USE StartupAssumption DEF StartupAssumption
<1>1. PICK f \in Files, s \in Stats : Touch(f, s)
  BY DEF NodeStep
<1>2. StartupTypeOK
  BY DEF StartupInv
<1>3. /\ UNCHANGED <<lpc, given, config, next>>
      /\ stat' \in [Files -> Stats] /\ touched' \subseteq Files
      /\ touched \subseteq touched'
      /\ \A p \in Files : p \notin touched' => stat'[p] = stat[p]
  BY <1>1, <1>2, TouchKeeps DEF loadVars
<1>4. ToStat' = ToStat
  BY <1>3 DEF ToStat
<1>5. \A i \in DOMAIN CommonPaths : CommonPaths[i] \in Files
  OBVIOUS
<1>6. \A i \in 1..3 : ToStat[i] \in Files \cup {Unset}
  BY <1>2, PathsAreFiles DEF StartupTypeOK
<1>7. StartupTypeOK'
  BY <1>2, <1>3 DEF StartupTypeOK
<1>8. Completed <=> Completed'
  BY <1>3 DEF Completed
<1>9. \A i \in 1..3 : ToStat[i] # Unset =>
        /\ Passed(ToStat[i]) => Passed(ToStat[i])'
        /\ ToStat[i] \in touched \/ stat[ToStat[i]] = "absent"
             => ToStat'[i] \in touched' \/ stat'[ToStat'[i]] = "absent"
  BY <1>3, <1>4, <1>6 DEF There, Once, Passed
<1>10. \A i \in DOMAIN CommonPaths :
         /\ There(CommonPaths[i])' => There(CommonPaths[i])
         /\ Once(CommonPaths[i]) => Once(CommonPaths[i])'
  BY <1>3, <1>5 DEF There, Once, Passed
<1>11. SocketDetected'
  <2>1. \A i \in DOMAIN CommonPaths, j \in Nat : j \in 1..(i - 1) => j \in DOMAIN CommonPaths
    OBVIOUS
  <2> QED
    BY <1>3, <1>10, <2>1 DEF StartupInv, SocketDetected
<1>12. LoadedIsSound'
  BY <1>3, <1>4, <1>9 DEF StartupInv, LoadedIsSound
<1>13. RejectedForCause'
  BY <1>3, <1>4, <1>9 DEF StartupInv, RejectedForCause
<1> QED
  BY <1>3, <1>4, <1>7, <1>8, <1>9, <1>10, <1>11, <1>12, <1>13 DEF StartupInv

(* The file is read and completed.                                         *)
LEMMA DecodeKeeps ==
  ASSUME StartupInv, Decode \/ DecodeFails
  PROVE  StartupInv'
<1> USE StartupAssumption DEF StartupAssumption
<1>1. StartupTypeOK
  BY DEF StartupInv
<1>2. CASE DecodeFails
  BY <1>1, <1>2
  DEF DecodeFails, StartupInv, StartupTypeOK, SocketDetected, LoadedIsSound,
      RejectedForCause
<1>3. CASE Decode
  <2>1. /\ config' = applyDefaults(given) /\ given \in Config
        /\ UNCHANGED <<stat, touched, given, next>>
        /\ next = 1
        /\ \/ lpc' = "detect" /\ given.CRISocket = Unset
           \/ lpc' = "validate" /\ given.CRISocket # Unset
    BY <1>1, <1>3 DEF Decode, StartupInv, StartupTypeOK
  <2>2. /\ config' \in Config
        /\ \A f \in {"Address", "LogLevel", "Cgroup", "Proc"} :
             config'[f] # Unset /\ given[f] \in {Unset, config'[f]}
        /\ config'.CRISocket = given.CRISocket
        /\ DOMAIN config'.Filters = DOMAIN given.Filters
        /\ \A i \in DOMAIN config'.Filters :
             /\ config'.Filters[i] # Unset
             /\ given.Filters[i] \in {Unset, config'.Filters[i]}
    BY <2>1, DefaultsComplete
  <2>3. StartupTypeOK'
    BY <1>1, <2>1, <2>2 DEF StartupTypeOK
  <2>4. Completed'
    BY <2>1, <2>2 DEF Completed
  <2> QED
    BY <2>1, <2>2, <2>3, <2>4
    DEF StartupInv, SocketDetected, LoadedIsSound, RejectedForCause
<1> QED
  BY <1>2, <1>3

(* The socket is looked for.                                               *)
LEMMA DetectKeeps ==
  ASSUME StartupInv, Detect \/ DetectNext \/ DetectFails
  PROVE  StartupInv'
<1> USE StartupAssumption DEF StartupAssumption
<1>1. /\ StartupTypeOK /\ Completed /\ lpc = "detect"
      /\ given.CRISocket = Unset /\ config.CRISocket = Unset
      /\ \A i \in 1..(next - 1) : i \in DOMAIN CommonPaths => ~There(CommonPaths[i])
  BY DEF StartupInv, Detect, DetectNext, DetectFails
<1>2. DOMAIN CommonPaths = 1..Len(CommonPaths) /\ Len(CommonPaths) \in Nat /\ next \in Nat \ {0}
  BY <1>1 DEF StartupTypeOK
<1>3. CASE Detect
  <2>1. /\ next \in DOMAIN CommonPaths /\ stat[CommonPaths[next]] = "exists"
        /\ config' = [config EXCEPT !.CRISocket = CommonPaths[next]]
        /\ lpc' = "validate" /\ UNCHANGED <<stat, touched, given, next>>
    BY <1>2, <1>3 DEF Detect
  <2>2. CommonPaths[next] \in Files
    BY <2>1
  <2>3. config' \in Config
    BY <1>1, <2>1, <2>2 DEF StartupTypeOK, Config
  <2>4. /\ config'.CRISocket = CommonPaths[next]
        /\ config'.Address = config.Address /\ config'.LogLevel = config.LogLevel
        /\ config'.Cgroup = config.Cgroup /\ config'.Proc = config.Proc
        /\ config'.Filters = config.Filters
    BY <1>1, <2>1 DEF StartupTypeOK, Config
  <2>5. Completed'
    BY <1>1, <2>1, <2>4 DEF Completed
  <2>6. StartupTypeOK'
    BY <1>1, <2>1, <2>3 DEF StartupTypeOK
  <2>7. SocketDetected'
    <3>1. Once(CommonPaths[next])'
      BY <2>1 DEF Once
    <3>2. \A j \in 1..(next - 1) : ~There(CommonPaths[j])'
      BY <1>1, <1>2, <2>1 DEF There
    <3> QED
      BY <2>1, <2>4, <3>1, <3>2 DEF SocketDetected
  <2> QED
    BY <2>1, <2>5, <2>6, <2>7 DEF StartupInv, LoadedIsSound, RejectedForCause
<1>4. CASE DetectNext
  <2>1. /\ next \in DOMAIN CommonPaths /\ stat[CommonPaths[next]] # "exists"
        /\ next' = next + 1 /\ UNCHANGED <<stat, touched, lpc, given, config>>
    BY <1>2, <1>4 DEF DetectNext
  <2>2. \A i \in 1..next : i \in DOMAIN CommonPaths => ~There(CommonPaths[i])
    BY <1>1, <1>2, <2>1 DEF There
  <2>3. \A i \in 1..(next' - 1) : i \in DOMAIN CommonPaths => ~There(CommonPaths[i])'
    BY <1>2, <2>1, <2>2 DEF There
  <2>4. StartupTypeOK' /\ Completed'
    BY <1>1, <1>2, <2>1 DEF StartupTypeOK, Completed
  <2> QED
    BY <1>1, <2>1, <2>3, <2>4
    DEF StartupInv, SocketDetected, LoadedIsSound, RejectedForCause
<1>5. CASE DetectFails
  <2>1. /\ next > Len(CommonPaths) /\ lpc' = "validate"
        /\ UNCHANGED <<stat, touched, given, config, next>>
    BY <1>5 DEF DetectFails
  <2>2. \A i \in DOMAIN CommonPaths : ~There(CommonPaths[i])'
    BY <1>1, <1>2, <2>1 DEF There
  <2>3. StartupTypeOK' /\ Completed'
    BY <1>1, <2>1 DEF StartupTypeOK, Completed
  <2> QED
    BY <1>1, <2>1, <2>2, <2>3
    DEF StartupInv, SocketDetected, LoadedIsSound, RejectedForCause
<1> QED
  BY <1>3, <1>4, <1>5

(* The configuration is validated.                                         *)
LEMMA ValidateKeeps ==
  ASSUME StartupInv, ValidateFields \/ StatPath \/ StatFails \/ Loaded
  PROVE  StartupInv'
<1> USE StartupAssumption DEF StartupAssumption
<1>1. /\ StartupTypeOK /\ Completed /\ SocketDetected
      /\ lpc \in {"validate", "stat"}
      /\ UNCHANGED <<stat, touched, given, config>>
  BY DEF StartupInv, ValidateFields, StatPath, StatFails, Loaded
<1>2. ToStat' = ToStat /\ Completed'
  BY <1>1 DEF ToStat, Completed
<1>3. /\ ToStat[1] = config.Cgroup /\ ToStat[2] = config.Proc
      /\ ToStat[3] = config.CRISocket
  BY DEF ToStat
<1>4. lpc' \notin {"open", "detect", "notRead"}
  BY DEF ValidateFields, StatPath, StatFails, Loaded
<1>5. SocketDetected'
  BY <1>1, <1>4 DEF SocketDetected, There, Once
<1>6. \A p : Passed(p) => Passed(p)'
  BY <1>1 DEF Passed
<1>7. CASE ValidateFields
  <2>1. next' = 1
    BY <1>7 DEF ValidateFields
  <2>2. CASE lpc' = "stat"
    <3>1. /\ Unset \notin {config.Address, config.Cgroup, config.Proc, config.CRISocket}
          /\ config.Filters # <<>>
      BY <1>7, <2>2 DEF ValidateFields
    <3>2. \A i \in 1..3 : ToStat[i] # Unset
      <4>1. \A i \in 1..3 : i = 1 \/ i = 2 \/ i = 3
        OBVIOUS
      <4> QED
        BY <1>3, <3>1, <4>1
    <3>3. StartupTypeOK'
      BY <1>1, <2>1, <2>2 DEF StartupTypeOK
    <3> QED
      BY <1>1, <1>2, <1>5, <2>1, <2>2, <3>1, <3>2, <3>3
      DEF StartupInv, LoadedIsSound, RejectedForCause
  <2>3. CASE lpc' = "incomplete"
    <3>1. config.CRISocket = Unset \/ config.Filters = <<>>
      BY <1>1, <1>7, <2>3 DEF ValidateFields, Completed
    <3>2. given.Filters = <<>> \/ config.CRISocket = Unset
      <4> SUFFICES ASSUME config.Filters = <<>> PROVE given.Filters = <<>>
        BY <3>1
      <4>1. given.Filters \in Seq(Values \cup {Unset})
        BY <1>1 DEF StartupTypeOK, Config
      <4>2. DOMAIN given.Filters = {}
        BY <1>1 DEF Completed
      <4>3. DOMAIN given.Filters = 1..Len(given.Filters) /\ Len(given.Filters) \in Nat
        BY <4>1
      <4>4. Len(given.Filters) = 0
        <5>1. 1 \notin 1..Len(given.Filters)
          BY <4>2, <4>3
        <5> QED
          BY <4>3, <5>1
      <4> HIDE DEF Config
      <4> QED
        BY <4>1, <4>4
    <3>3. StartupTypeOK'
      BY <1>1, <2>1, <2>3 DEF StartupTypeOK
    <3> QED
      BY <1>1, <1>2, <1>5, <2>3, <3>2, <3>3
      DEF StartupInv, LoadedIsSound, RejectedForCause
  <2> QED
    BY <1>7, <2>2, <2>3 DEF ValidateFields
<1>8. ASSUME lpc = "stat"
      PROVE  /\ \A i \in 1..3 : ToStat[i] # Unset
             /\ config.Filters # <<>>
             /\ \A i \in 1..3 : i < next => Passed(ToStat[i])
             /\ next \in Nat \ {0}
  BY <1>8 DEF StartupInv, StartupTypeOK
<1>9. CASE StatPath
  <2>1. /\ lpc = "stat" /\ lpc' = "stat" /\ next' = next + 1
        /\ stat[ToStat[next]] # "absent"
    BY <1>9 DEF StatPath
  <2>2. \A i \in 1..3 : i < next' => Passed(ToStat[i])
    BY <1>8, <2>1 DEF Passed
  <2>3. StartupTypeOK'
    BY <1>1, <1>8, <2>1 DEF StartupTypeOK
  <2> QED
    BY <1>1, <1>2, <1>5, <1>6, <1>8, <2>1, <2>2, <2>3
    DEF StartupInv, LoadedIsSound, RejectedForCause
<1>10. CASE StatFails
  <2>1. /\ lpc = "stat" /\ lpc' = "notExist" /\ next' = next
        /\ next \in 1..3 /\ stat[ToStat[next]] = "absent"
    BY <1>8, <1>10 DEF StatFails
  <2>2. StartupTypeOK'
    BY <1>1, <2>1 DEF StartupTypeOK
  <2> QED
    BY <1>1, <1>2, <1>5, <1>8, <2>1, <2>2
    DEF StartupInv, LoadedIsSound, RejectedForCause
<1>11. CASE Loaded
  <2>1. lpc = "stat" /\ lpc' = "loaded" /\ next' = next /\ next > 3
    BY <1>11 DEF Loaded
  <2>2. \A i \in 1..3 : Passed(ToStat[i])
    BY <1>8, <2>1
  <2>3. StartupTypeOK'
    BY <1>1, <2>1 DEF StartupTypeOK
  <2>4. LoadedIsSound'
    BY <1>1, <1>2, <1>3, <1>6, <1>8, <2>1, <2>2 DEF LoadedIsSound, Completed
  <2> QED
    BY <1>1, <1>2, <1>5, <1>6, <1>8, <2>1, <2>2, <2>3, <2>4
    DEF StartupInv, RejectedForCause
<1> QED
  BY <1>7, <1>9, <1>10, <1>11

-----------------------------------------------------------------------------
(* LoadConfig keeps StartupInv whatever the node does meanwhile            *)
(* (config.go:42-135, 198-214).                                            *)
THEOREM StartupInvariant == StartupSpec => []StartupInv
<1>1. StartupInv /\ [StartupNext]_startupVars => StartupInv'
  <2> SUFFICES ASSUME StartupInv, [StartupNext]_startupVars PROVE StartupInv'
    OBVIOUS
  <2>1. CASE UNCHANGED startupVars
    BY <2>1
    DEF startupVars, loadVars, StartupInv, StartupTypeOK, Completed, ToStat,
        There, Once, Passed, SocketDetected, LoadedIsSound, RejectedForCause
  <2> QED
    BY <2>1, NodeKeeps, DecodeKeeps, DetectKeeps, ValidateKeeps
    DEF StartupNext, LoadConfig
<1> QED
  BY <1>1, StartupInvInit, PTL DEF StartupSpec

(* The socket detected was there when looked for, and none that was there  *)
(* all along comes before it (config.go:198-214).                          *)
THEOREM SocketCorrect == StartupSpec => []SocketDetected
<1>1. StartupInv => SocketDetected
  BY DEF StartupInv
<1> QED
  BY <1>1, StartupInvariant, PTL

(* What LoadConfig accepts is complete, says what the file said and names  *)
(* no path that was absent all along (config.go:65-135).                   *)
THEOREM ConfigurationCorrect == StartupSpec => []LoadedIsSound
<1>1. StartupInv => LoadedIsSound
  BY DEF StartupInv
<1> QED
  BY <1>1, StartupInvariant, PTL

(* What LoadConfig rejects has its reason in the file or on the node       *)
(* (config.go:96-135).                                                     *)
THEOREM RejectionCorrect == StartupSpec => []RejectedForCause
<1>1. StartupInv => RejectedForCause
  BY DEF StartupInv
<1> QED
  BY <1>1, StartupInvariant, PTL

-----------------------------------------------------------------------------
(***************************************************************************)
(* However many requests there are, the end of the process is explained:   *)
(* ExporterInv is inductive.                                               *)
(***************************************************************************)

(* The initial state.                                                      *)
LEMMA ExporterInvInit == ExporterInit => ExporterInv
BY DEF ExporterInit, ExporterInv, ExporterTypeOK, EndExplained, Open

(* The steps of main up to the end.                                        *)
LEMMA MainKeeps ==
  ASSUME ExporterInv,
         \/ ConfigLoaded \/ SetUp \/ Notify \/ StartGoroutine
         \/ Listen \/ Bind \/ Serve \/ ListenerClosed
  PROVE  ExporterInv'
<1> USE DEF ExporterInv, ExporterTypeOK, EndExplained, Main, serverVars, signalVars
<1>1. CASE ConfigLoaded \/ SetUp \/ Notify
  BY <1>1 DEF ConfigLoaded, SetUp, Notify
<1>2. CASE StartGoroutine
  BY <1>2 DEF StartGoroutine
<1>3. CASE Listen
  BY <1>3 DEF Listen
<1>4. CASE Bind
  BY <1>4 DEF Bind
<1>5. CASE Serve
  BY <1>5 DEF Serve
<1>6. CASE ListenerClosed
  BY <1>6 DEF ListenerClosed
<1> QED
  BY <1>1, <1>2, <1>3, <1>4, <1>5, <1>6

(* A process that ends cuts off what is open.                              *)
LEMMA EndKeeps ==
  ASSUME ExporterInv,
         NEW how \in {"stopped", "error", "panic", "killed"}, End(how),
         fault' \in BOOLEAN,
         how = "stopped" => signalled /\ inShutdown,
         how = "error" => fault',
         how = "panic" => panics \/ garbled,
         how = "killed" => mpc \in {"load", "client", "notify"}
  PROVE  ExporterInv'
<1>1. /\ ExporterTypeOK /\ status = "running" /\ status' = how /\ mpc' = "end"
      /\ UNCHANGED <<panics, garbled, sigChan, signalled, gpc, inShutdown, listening>>
      /\ request' = [r \in Requests |-> IF request[r] \in Open THEN "cut" ELSE request[r]]
  BY DEF End, ExporterInv, signalVars, serverVars
<1>2. request' \in [Requests -> Open \cup {"none", "answered", "cut"}]
  BY <1>1 DEF ExporterTypeOK
<1>3. ExporterTypeOK'
  BY <1>1, <1>2 DEF ExporterTypeOK
<1>4. how = "killed" => ~signalled /\ \A r \in Requests : request'[r] = "none"
  BY <1>1 DEF ExporterInv, Open
<1>5. EndExplained'
  BY <1>1, <1>4 DEF EndExplained
<1> QED
  BY <1>1, <1>3, <1>5 DEF ExporterInv

(* Requests come and are answered.                                         *)
LEMMA RequestsKeep ==
  ASSUME ExporterInv, NEW r \in Requests,
         \/ \E kind \in Open : Accept(r, kind)
         \/ AnswerScrape(r) \/ AnswerOther(r)
  PROVE  ExporterInv'
<1>1. PICK s \in Open \cup {"answered"} : request' = [request EXCEPT ![r] = s]
  BY DEF Accept, AnswerScrape, AnswerOther, Answer
<1>2. /\ status = "running"
      /\ UNCHANGED <<mpc, status, panics, garbled, fault, sigChan, signalled, gpc,
                     inShutdown, listening>>
  BY DEF Accept, AnswerScrape, AnswerOther, Answer, Main, signalVars, serverVars
<1>3. mpc \notin {"load", "client", "notify"}
  BY DEF Accept, AnswerScrape, AnswerOther, Answer, Main, ExporterInv
<1>4. request' \in [Requests -> Open \cup {"none", "answered", "cut"}]
  BY <1>1 DEF ExporterInv, ExporterTypeOK
<1>5. \A q \in Requests : request'[q] # "cut"
  BY <1>1, <1>2 DEF ExporterInv, ExporterTypeOK, Open
<1> QED
  BY <1>2, <1>3, <1>4, <1>5 DEF ExporterInv, ExporterTypeOK, EndExplained

(* Every step.                                                             *)
LEMMA ExporterInvNext == ExporterInv /\ [ExporterNext]_exporterVars => ExporterInv'
<1> SUFFICES ASSUME ExporterInv, [ExporterNext]_exporterVars PROVE ExporterInv'
  OBVIOUS
<1>1. CASE \/ ConfigLoaded \/ SetUp \/ Notify \/ StartGoroutine
           \/ Listen \/ Bind \/ Serve \/ ListenerClosed
  BY <1>1, MainKeeps
<1>2. CASE Stopped
  <2>1. inShutdown /\ signalled /\ fault' = fault /\ fault \in BOOLEAN /\ End("stopped")
    BY <1>2 DEF Stopped, ExporterInv, ExporterTypeOK
  <2> QED
    BY <2>1, EndKeeps
<1>3. CASE StartFails \/ BindFails \/ AcceptFails
  <2>1. fault' = TRUE /\ End("error")
    BY <1>3 DEF StartFails, BindFails, AcceptFails
  <2> QED
    BY <2>1, EndKeeps
<1>4. CASE SignalKills
  <2>1. fault' = fault /\ fault \in BOOLEAN /\ mpc \in {"load", "client", "notify"} /\ End("killed")
    BY <1>4 DEF SignalKills, ExporterInv, ExporterTypeOK
  <2> QED
    BY <2>1, EndKeeps
<1>5. CASE Signal \/ Garble
  <2> USE DEF ExporterInv, ExporterTypeOK, EndExplained, serverVars, signalVars
  <2>1. CASE Signal
    BY <2>1 DEF Signal
  <2>2. CASE Garble
    BY <2>2 DEF Garble
  <2> QED
    BY <1>5, <2>1, <2>2
<1>6. CASE SignalStep
  <2> USE DEF ExporterInv, ExporterTypeOK, EndExplained, Goroutine, serverVars
  <2>1. CASE Receive
    BY <2>1 DEF Receive
  <2>2. CASE Shutdown
    BY <2>2 DEF Shutdown
  <2>3. CASE CloseListener
    BY <2>3 DEF CloseListener
  <2>4. CASE ShutdownReturns
    BY <2>4 DEF ShutdownReturns
  <2> QED
    BY <1>6, <2>1, <2>2, <2>3, <2>4 DEF SignalStep
<1>7. ASSUME NEW r \in Requests,
             \/ \E kind \in Open : Accept(r, kind)
             \/ AnswerScrape(r) \/ AnswerOther(r)
      PROVE  ExporterInv'
  BY <1>7, RequestsKeep
<1>8. ASSUME NEW r \in Requests, Panic(r)
      PROVE  ExporterInv'
  <2>1. fault' = fault /\ fault \in BOOLEAN /\ (panics \/ garbled) /\ End("panic")
    BY <1>8 DEF Panic, ExporterInv, ExporterTypeOK
  <2> QED
    BY <2>1, EndKeeps
<1>9. CASE UNCHANGED exporterVars
  BY <1>9 DEF exporterVars, signalVars, serverVars, ExporterInv, ExporterTypeOK, EndExplained
<1> QED
  BY <1>1, <1>2, <1>3, <1>4, <1>5, <1>6, <1>7, <1>8, <1>9 DEF ExporterNext, MainStep

-----------------------------------------------------------------------------
(* The exporter keeps ExporterInv, with any number of requests open.       *)
THEOREM ExporterInvariant == ExporterSpec => []ExporterInv
<1> QED
  BY ExporterInvInit, ExporterInvNext, PTL DEF ExporterSpec

(* Every end of the process has its cause; of a panic there are two, an    *)
(* empty pattern and a name that is not valid UTF-8 (main.go:46-105,       *)
(* collector.go:78, 100, 313).                                             *)
THEOREM EndCorrect == ExporterSpec => []EndExplained
<1>1. ExporterInv => EndExplained
  BY DEF ExporterInv
<1> QED
  BY <1>1, ExporterInvariant, PTL

-----------------------------------------------------------------------------
(***************************************************************************)
(* In the whole, the parts keep what was proved of each.                   *)
(***************************************************************************)

(* A step of the process is one of LoadConfig or one of the rest.          *)
LEMMA ProcessSteps ==
  ASSUME [ProcessNext]_processVars
  PROVE  [StartupNext]_startupVars /\ [ExporterNext]_exporterVars
BY DEF ProcessNext, Load, Proceed, AfterLoad, processVars

(* Whatever holds of LoadConfig and of the server by themselves holds of   *)
(* the process: neither is disturbed by the other.                         *)
THEOREM ProcessRunsBoth == ProcessSpec => StartupSpec /\ ExporterSpec
<1>1. ProcessInit => StartupInit /\ ExporterInit
  BY DEF ProcessInit
<1>2. [ProcessNext]_processVars => [StartupNext]_startupVars /\ [ExporterNext]_exporterVars
  BY ProcessSteps
<1> QED
  BY <1>1, <1>2, PTL DEF ProcessSpec, StartupSpec, ExporterSpec

(* LoadConfig leaves alone what the file says of the file patterns.        *)
LEMMA PatternsKept ==
  ASSUME StartupTypeOK, StartupNext, config.EmptyFilePattern = given.EmptyFilePattern
  PROVE  config'.EmptyFilePattern = given'.EmptyFilePattern /\ UNCHANGED given
<1>1. config = [config EXCEPT !.CRISocket = config.CRISocket]
  BY DEF StartupTypeOK, Config
<1>2. CASE Decode
  BY <1>2 DEF Decode, applyDefaults
<1>3. CASE Detect
  BY <1>3 DEF Detect, StartupTypeOK, Config
<1>4. CASE UNCHANGED <<config, given>>
  BY <1>4
<1> QED
  BY <1>2, <1>3, <1>4
     DEF StartupNext, NodeStep, Touch, LoadConfig, DecodeFails, DetectNext, DetectFails,
         ValidateFields, StatPath, StatFails, Loaded, loadVars

LEMMA ProcessInvInit == ProcessInit => ProcessInv
BY DEF ProcessInit, StartupInit, ExporterInit, ProcessInv, PanicTraced

LEMMA ProcessInvStep ==
  ASSUME ProcessInv, StartupInv, ExporterInv, ExporterInv', [ProcessNext]_processVars
  PROVE  ProcessInv'
<1>1. CASE Load
  <2>1. /\ mpc = "load" /\ lpc # "loaded" /\ UNCHANGED <<mpc, status, panics, garbled, listening>>
        /\ StartupNext
    BY <1>1 DEF Load, InLoadConfig, exporterVars, serverVars
  <2>2. config'.EmptyFilePattern = given'.EmptyFilePattern /\ UNCHANGED given
    BY <2>1, PatternsKept DEF ProcessInv, StartupInv
  <2> QED
    BY <2>1, <2>2 DEF ProcessInv, PanicTraced
<1>2. CASE Proceed
  <2>1. UNCHANGED <<lpc, config, given>> /\ ExporterNext
    BY <1>2 DEF Proceed, AfterLoad, startupVars, loadVars
  <2>2. ASSUME NEW how \in {"stopped", "error", "panic", "killed"}, End(how),
                how = "panic" => panics \/ garbled
        PROVE  ProcessInv'
    BY <2>1, <2>2 DEF End, serverVars, ProcessInv, PanicTraced
  <2>3. CASE ConfigLoaded
    BY <1>2, <2>1, <2>3 DEF Proceed, AfterLoad, ConfigLoaded, Main, serverVars, ProcessInv, PanicTraced,
                            ExporterInv, ExporterTypeOK
  <2>4. CASE mpc \notin {"load", "end"} /\ UNCHANGED <<status, panics, garbled>>
    BY <2>1, <2>4 DEF ProcessInv, PanicTraced
  <2>5. CASE UNCHANGED <<mpc, panics, status>> /\ garbled' \in {garbled, TRUE}
    BY <2>1, <2>5 DEF ProcessInv, PanicTraced, ExporterInv, ExporterTypeOK
  <2>6. CASE SetUp \/ Notify \/ StartGoroutine \/ Listen \/ Bind \/ Serve \/ ListenerClosed
    BY <2>4, <2>6 DEF SetUp, Notify, StartGoroutine, Listen, Bind, Serve, ListenerClosed, Main
  <2>7. CASE SignalStep \/ Signal \/ Garble
    BY <2>5, <2>7 DEF SignalStep, Signal, Garble, Receive, Shutdown, CloseListener, ShutdownReturns,
                      Goroutine, serverVars, ExporterInv, ExporterTypeOK
  <2>8. CASE Stopped \/ StartFails \/ BindFails \/ AcceptFails \/ SignalKills
             \/ \E r \in Requests : Panic(r)
    BY <2>2, <2>8 DEF Stopped, StartFails, BindFails, AcceptFails, SignalKills, Panic
  <2>9. CASE \E r \in Requests : \/ \E kind \in Open : Accept(r, kind)
                                \/ AnswerScrape(r) \/ AnswerOther(r)
    BY <2>5, <2>9 DEF Accept, AnswerScrape, AnswerOther, Answer, Main, serverVars
  <2> QED
    BY <2>1, <2>3, <2>6, <2>7, <2>8, <2>9 DEF ExporterNext, MainStep
<1>3. CASE UNCHANGED processVars
  BY <1>3 DEF processVars, startupVars, loadVars, exporterVars, serverVars, ProcessInv, PanicTraced
<1> QED
  BY <1>1, <1>2, <1>3 DEF ProcessNext

(* A panic goes back to what the file says or to a name of the node,       *)
(* whatever LoadConfig does with the configuration (collector.go:78, 100,  *)
(* 313, config.go:65-135).                                                 *)
THEOREM PanicHasCause == ProcessSpec => []PanicTraced
<1>1. ProcessInit => ProcessInv
  BY ProcessInvInit
<1>2. ProcessInv /\ StartupInv /\ ExporterInv /\ ExporterInv' /\ [ProcessNext]_processVars
        => ProcessInv'
  BY ProcessInvStep
<1>3. ProcessInv => PanicTraced
  BY DEF ProcessInv
<1> QED
  BY <1>1, <1>2, <1>3, ProcessRunsBoth, StartupInvariant, ExporterInvariant, PTL
     DEF ProcessSpec
=============================================================================
