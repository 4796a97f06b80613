------------------------------ MODULE Startup ------------------------------
(***************************************************************************)
(* LoadConfig (config.go): the configuration is read, completed with       *)
(* defaults and validated, while the node under it still comes up: sockets *)
(* and mounts appear and vanish between any two of its steps.              *)
(***************************************************************************)
EXTENDS Naturals, Sequences

CONSTANTS
  Files,          \* the paths LoadConfig may look at
  Values,         \* values of the other fields
  Unset,          \* the value of a field the file does not give
  Given,          \* what the file may say
  DefaultAddress, DefaultCgroup, DefaultProc, DefaultLogLevel,
  AnyCommand,     \* the pattern "*"
  CommonPaths     \* the sockets looked for, in order

Config ==
  [ Address : Values \cup {Unset}, LogLevel : Values \cup {Unset},
    Cgroup : Files \cup {Unset}, Proc : Files \cup {Unset},
    CRISocket : Files \cup {Unset},
    Filters : Seq(Values \cup {Unset}),     \* their command patterns
    EmptyFilePattern : BOOLEAN ]            \* some collect.files has ""

ASSUME StartupAssumption ==
  /\ Unset \notin Files \cup Values
  /\ Given \subseteq Config
  /\ {DefaultAddress, DefaultLogLevel, AnyCommand} \subseteq Values
  /\ {DefaultCgroup, DefaultProc} \subseteq Files
  /\ CommonPaths \in Seq(Files)

VARIABLES
  stat,       \* what os.Stat says of a path: "exists", "absent" or
              \* "error" (any error but ErrNotExist)
  touched,    \* history: paths that changed since LoadConfig began
  lpc,        \* control point of LoadConfig
  given,      \* what the file says
  config,     \* the configuration
  next        \* the next path to look at

loadVars == <<lpc, given, config, next>>
startupVars == <<stat, touched, loadVars>>

Stats == {"exists", "absent", "error"}

StartupTypeOK ==
  /\ stat \in [Files -> Stats]
  /\ touched \subseteq Files
  /\ lpc \in {"open", "detect", "validate", "stat", "loaded",
              "notRead", "incomplete", "notExist"}
  /\ given \in Given
  /\ config \in Config
  /\ next \in Nat \ {0}

StartupInit ==
  /\ stat \in [Files -> Stats]
  /\ touched = {}
  /\ lpc = "open"
  /\ given \in Given
  /\ config = given
  /\ next = 1

-----------------------------------------------------------------------------
(* The node: a path is made, removed, or cannot be looked at.              *)
Touch(f, s) ==
  /\ stat[f] # s
  /\ stat' = [stat EXCEPT ![f] = s]
  /\ touched' = touched \cup {f}
  /\ UNCHANGED loadVars

-----------------------------------------------------------------------------
(* Mutant: the default wins over what the file says.                       *)
Default_Always(value, default) == default

Default(value, default) == IF value = Unset THEN default ELSE value

(* applyDefaults but for the socket: the fields are independent.           *)
applyDefaults(c) ==
  [ Address |-> Default(c.Address, DefaultAddress),
    LogLevel |-> Default(c.LogLevel, DefaultLogLevel),
    Cgroup |-> Default(c.Cgroup, DefaultCgroup),
    Proc |-> Default(c.Proc, DefaultProc),
    CRISocket |-> c.CRISocket,
    Filters |-> [i \in DOMAIN c.Filters |-> Default(c.Filters[i], AnyCommand)],
    EmptyFilePattern |-> c.EmptyFilePattern ]

(* The file cannot be opened or parsed, or has a field that is not known.  *)
DecodeFails ==
  /\ lpc = "open"
  /\ lpc' = "notRead"
  /\ UNCHANGED <<stat, touched, given, config, next>>

Decode ==
  /\ lpc = "open"
  /\ config' = applyDefaults(given)
  /\ lpc' = IF given.CRISocket = Unset THEN "detect" ELSE "validate"
  /\ UNCHANGED <<stat, touched, given, next>>

(* detectCRISocket takes the first path that is there.                     *)
Detect ==
  /\ lpc = "detect"
  /\ next <= Len(CommonPaths)
  /\ stat[CommonPaths[next]] = "exists"
  /\ config' = [config EXCEPT !.CRISocket = CommonPaths[next]]
  /\ lpc' = "validate"
  /\ UNCHANGED <<stat, touched, given, next>>

(* Mutant: one path is skipped with the one that is not there.             *)
DetectNext_Skip ==
  /\ lpc = "detect"
  /\ next <= Len(CommonPaths)
  /\ stat[CommonPaths[next]] # "exists"
  /\ next' = next + 2
  /\ UNCHANGED <<stat, touched, lpc, given, config>>

DetectNext ==
  /\ lpc = "detect"
  /\ next <= Len(CommonPaths)
  /\ stat[CommonPaths[next]] # "exists"
  /\ next' = next + 1
  /\ UNCHANGED <<stat, touched, lpc, given, config>>

(* Mutant: without a socket the search starts over until there is one.     *)
DetectFails_Retry ==
  /\ lpc = "detect"
  /\ next > Len(CommonPaths)
  /\ next' = 1
  /\ UNCHANGED <<stat, touched, lpc, given, config>>

DetectFails ==
  /\ lpc = "detect"
  /\ next > Len(CommonPaths)
  /\ lpc' = "validate"
  /\ UNCHANGED <<stat, touched, given, config, next>>

(* Validate: the required fields ...                                       *)
ValidateFields ==
  /\ lpc = "validate"
  /\ lpc' = IF /\ Unset \notin {config.Address, config.Cgroup, config.Proc,
                                config.CRISocket}
               /\ config.Filters # <<>>
            THEN "stat" ELSE "incomplete"
  /\ next' = 1
  /\ UNCHANGED <<stat, touched, given, config>>

(* ... and the paths, in this order.                                       *)
ToStat == <<config.Cgroup, config.Proc, config.CRISocket>>

StatPath ==
  /\ lpc = "stat"
  /\ next <= 3
  /\ stat[ToStat[next]] # "absent"
  /\ next' = next + 1
  /\ UNCHANGED <<stat, touched, lpc, given, config>>

(* Mutant: any error of os.Stat rejects the configuration.                 *)
StatFails_AnyError ==
  /\ lpc = "stat"
  /\ next <= 3
  /\ stat[ToStat[next]] # "exists"
  /\ lpc' = "notExist"
  /\ UNCHANGED <<stat, touched, given, config, next>>

StatFails ==
  /\ lpc = "stat"
  /\ next <= 3
  /\ stat[ToStat[next]] = "absent"
  /\ lpc' = "notExist"
  /\ UNCHANGED <<stat, touched, given, config, next>>

Loaded ==
  /\ lpc = "stat"
  /\ next > 3
  /\ lpc' = "loaded"
  /\ UNCHANGED <<stat, touched, given, config, next>>

-----------------------------------------------------------------------------
NodeStep == \E f \in Files, s \in Stats : Touch(f, s)

LoadConfig ==
  \/ DecodeFails \/ Decode
  \/ Detect \/ DetectNext \/ DetectFails
  \/ ValidateFields \/ StatPath \/ StatFails \/ Loaded

StartupNext == NodeStep \/ LoadConfig

StartupSpec == StartupInit /\ [][StartupNext]_startupVars

-----------------------------------------------------------------------------
(***************************************************************************)
(* Properties.                                                             *)
(***************************************************************************)

There(f) == f \notin touched /\ stat[f] = "exists"
Once(f) == f \in touched \/ stat[f] = "exists"
Passed(f) == f \in touched \/ stat[f] # "absent"

(* The socket of a configuration that does not name one is a common path   *)
(* that was there at some time, and no path that comes before it was there *)
(* all along; none is found only if none was there all along               *)
(* (config.go:79-82, 199-214).                                             *)
SocketDetected ==
  given.CRISocket = Unset /\ lpc \notin {"open", "detect", "notRead"} =>
    \/ /\ config.CRISocket = Unset
       /\ \A i \in DOMAIN CommonPaths : ~There(CommonPaths[i])
    \/ \E i \in DOMAIN CommonPaths :
         /\ config.CRISocket = CommonPaths[i]
         /\ Once(CommonPaths[i])
         /\ \A j \in 1..(i - 1) : ~There(CommonPaths[j])

(* A configuration that is accepted is complete, says what the file said   *)
(* where the file said something, and names no path that was absent all    *)
(* along (config.go:65-135).                                               *)
LoadedIsSound ==
  lpc = "loaded" =>
    /\ \A f \in {"Address", "LogLevel", "Cgroup", "Proc", "CRISocket"} :
         config[f] # Unset /\ given[f] \in {Unset, config[f]}
    /\ config.Filters # <<>> /\ DOMAIN config.Filters = DOMAIN given.Filters
    /\ \A i \in DOMAIN config.Filters :
         config.Filters[i] # Unset /\ given.Filters[i] \in {Unset, config.Filters[i]}
    /\ \A i \in 1..3 : Passed(ToStat[i])

(* What is rejected has a fault: no filters, no socket named or found, or  *)
(* a path that was absent at some time (config.go:96-135).                 *)
RejectedForCause ==
  /\ lpc = "incomplete" => given.Filters = <<>> \/ config.CRISocket = Unset
  /\ lpc = "notExist" =>
       \E i \in 1..3 : ToStat[i] \in touched \/ stat[ToStat[i]] = "absent"

(* "Validate that paths exist." (config.go:117).  A path that cannot be    *)
(* looked at, below a file or a directory without permission, passes.      *)
PathsExist ==
  lpc = "loaded" =>
    \A i \in 1..3 : Once(ToStat[i])

-----------------------------------------------------------------------------
(***************************************************************************)
(* Why: what the file says is kept from field to field, and what was       *)
(* looked at stands for as long as nobody touches it.                      *)
(***************************************************************************)
Completed ==
  /\ \A f \in {"Address", "LogLevel", "Cgroup", "Proc"} :
       config[f] # Unset /\ given[f] \in {Unset, config[f]}
  /\ given.CRISocket \in {Unset, config.CRISocket}
  /\ DOMAIN config.Filters = DOMAIN given.Filters
  /\ \A i \in DOMAIN config.Filters :
       config.Filters[i] # Unset /\ given.Filters[i] \in {Unset, config.Filters[i]}

StartupInv ==
  /\ StartupTypeOK
  /\ lpc \notin {"open", "notRead"} => Completed
  /\ lpc = "open" => next = 1
  /\ lpc = "detect" =>
       /\ given.CRISocket = Unset /\ config.CRISocket = Unset
       /\ \A i \in 1..(next - 1) :
            i \in DOMAIN CommonPaths => ~There(CommonPaths[i])
  /\ lpc \in {"stat", "notExist", "loaded"} =>
       (\A i \in 1..3 : ToStat[i] # Unset) /\ config.Filters # <<>>
  /\ lpc \in {"stat", "loaded"} =>
       \A i \in 1..3 : i < next \/ lpc = "loaded" => Passed(ToStat[i])
  /\ SocketDetected
  /\ LoadedIsSound
  /\ RejectedForCause
=============================================================================
