------------------------------ MODULE Exporter ------------------------------
(***************************************************************************)
(* The process (main.go): main comes up and serves, a second goroutine     *)
(* waits for the signal and shuts the server down, and every request has a *)
(* goroutine of its own.                                                   *)
(*                                                                         *)
(* What net/http does is modelled from its use: Shutdown first marks the   *)
(* server, then closes its listener, then waits for the requests;          *)
(* ListenAndServe looks at the mark before it listens, when it hands the   *)
(* listener to the server, and when Accept fails.                          *)
(***************************************************************************)

CONSTANT Requests   \* requests there may be at a time

VARIABLES
  mpc,          \* control point of main
  status,       \* "running", or how the process ended
  panics,       \* the configuration has an empty file pattern
  garbled,      \* history: a name a scrape sends is not valid UTF-8
  fault,        \* history: a failure that main reports
  sigChan,      \* the channel of one signal is full
  signalled,    \* history: a signal was caught
  gpc,          \* control point of the goroutine that waits for it
  inShutdown,   \* the server is marked
  listening,    \* its listener is open
  request       \* "none", "scrape", "other", "answered" or "cut"

serverVars == <<inShutdown, listening>>
signalVars == <<sigChan, signalled, gpc>>
exporterVars == <<mpc, status, panics, garbled, fault, signalVars, serverVars, request>>

Open == {"scrape", "other"}

ExporterTypeOK ==
  /\ mpc \in {"load", "client", "notify", "go", "listen", "bind", "serve",
              "accept", "closed", "end"}
  /\ status \in {"running", "stopped", "error", "panic", "killed"}
  /\ panics \in BOOLEAN /\ garbled \in BOOLEAN /\ fault \in BOOLEAN
  /\ sigChan \in BOOLEAN /\ signalled \in BOOLEAN
  /\ gpc \in {"none", "wait", "shutdown", "close", "poll", "done"}
  /\ inShutdown \in BOOLEAN /\ listening \in BOOLEAN
  /\ request \in [Requests -> Open \cup {"none", "answered", "cut"}]

ExporterInit ==
  /\ mpc = "load"
  /\ status = "running"
  /\ panics = FALSE
  /\ garbled = FALSE
  /\ fault = FALSE
  /\ sigChan = FALSE /\ signalled = FALSE /\ gpc = "none"
  /\ inShutdown = FALSE /\ listening = FALSE
  /\ request = [r \in Requests |-> "none"]

Main(from, to) ==
  /\ status = "running" /\ mpc = from /\ mpc' = to
  /\ UNCHANGED <<status, garbled, fault, signalVars>>

(* The end of the process is the end of every goroutine in it.             *)
End(how) ==
  /\ status = "running" /\ status' = how
  /\ mpc' = "end"
  /\ request' = [r \in Requests |-> IF request[r] \in Open THEN "cut" ELSE request[r]]
  /\ UNCHANGED <<panics, garbled, signalVars, serverVars>>

-----------------------------------------------------------------------------
(* main                                                                    *)

(* os.Exit(1) for an error of LoadConfig or of NewKubernetesClient.        *)
StartFails ==
  /\ mpc \in {"load", "client"}
  /\ fault' = TRUE
  /\ End("error")

(* Validate takes an empty file pattern.                                   *)
ConfigLoaded ==
  /\ panics' \in BOOLEAN
  /\ Main("load", "client")
  /\ UNCHANGED <<serverVars, request>>

(* The client connects on first use; collector and handlers are set up.    *)
SetUp == Main("client", "notify") /\ UNCHANGED <<panics, serverVars, request>>

Notify == Main("notify", "go") /\ UNCHANGED <<panics, serverVars, request>>

StartGoroutine ==
  /\ status = "running" /\ mpc = "go" /\ mpc' = "listen"
  /\ gpc' = "wait"
  /\ UNCHANGED <<status, panics, garbled, fault, sigChan, signalled, serverVars, request>>

(* ListenAndServe                                                          *)
Listen ==
  /\ Main("listen", IF inShutdown THEN "closed" ELSE "bind")
  /\ UNCHANGED <<panics, serverVars, request>>

Bind ==
  /\ Main("bind", "serve")
  /\ UNCHANGED <<panics, serverVars, request>>

BindFails ==
  /\ mpc = "bind"
  /\ fault' = TRUE
  /\ End("error")

Serve ==
  /\ Main("serve", IF inShutdown THEN "closed" ELSE "accept")
  /\ listening' = ~inShutdown
  /\ UNCHANGED <<panics, inShutdown, request>>

(* A request on a new connection or on an open one.                        *)
Accept(r, kind) ==
  /\ listening
  /\ Main("accept", "accept")
  /\ request[r] \in {"none", "answered"}
  /\ request' = [request EXCEPT ![r] = kind]
  /\ UNCHANGED <<panics, serverVars>>

ListenerClosed ==
  /\ ~listening
  /\ Main("accept", "closed")
  /\ UNCHANGED <<panics, serverVars, request>>

(* Accept fails for a reason of its own, once the server is marked it is   *)
(* not told from a closed listener.                                        *)
AcceptFails ==
  /\ mpc = "accept"
  /\ ~inShutdown
  /\ fault' = TRUE
  /\ End("error")

(* Mutant: the error is not compared with ErrServerClosed.                 *)
Stopped_AnyError == mpc = "closed" /\ End("error") /\ UNCHANGED fault

(* ErrServerClosed is no error; main returns.                              *)
Stopped == mpc = "closed" /\ End("stopped") /\ UNCHANGED fault

-----------------------------------------------------------------------------
(* Signals                                                                 *)

(* Before signal.Notify the signal ends the process.                       *)
SignalKills ==
  /\ mpc \in {"load", "client", "notify"}
  /\ End("killed")
  /\ UNCHANGED fault

(* Mutant: a channel without room, so that a signal is dropped unless the  *)
(* goroutine waits for it at that moment.                                  *)
Signal_Unbuffered ==
  /\ status = "running"
  /\ mpc \notin {"load", "client", "notify"}
  /\ sigChan' = (gpc = "wait")
  /\ signalled' = TRUE
  /\ UNCHANGED <<mpc, status, panics, garbled, fault, gpc, serverVars, request>>

(* Later it is put into the channel, or dropped when that is full.         *)
Signal ==
  /\ status = "running"
  /\ mpc \notin {"load", "client", "notify"}
  /\ sigChan' = TRUE
  /\ signalled' = TRUE
  /\ UNCHANGED <<mpc, status, panics, garbled, fault, gpc, serverVars, request>>

Goroutine(from, to) ==
  /\ status = "running" /\ gpc = from /\ gpc' = to
  /\ UNCHANGED <<mpc, status, panics, garbled, fault, signalled, request>>

Receive ==
  /\ sigChan
  /\ Goroutine("wait", "shutdown")
  /\ sigChan' = FALSE
  /\ UNCHANGED serverVars

(* Shutdown with a context that is never cancelled                         *)
Shutdown ==
  /\ Goroutine("shutdown", "close")
  /\ inShutdown' = TRUE
  /\ UNCHANGED <<sigChan, listening>>

CloseListener ==
  /\ Goroutine("close", "poll")
  /\ listening' = FALSE
  /\ UNCHANGED <<sigChan, inShutdown>>

ShutdownReturns ==
  /\ \A r \in Requests : request[r] \notin Open
  /\ Goroutine("poll", "done")
  /\ UNCHANGED <<sigChan, serverVars>>

-----------------------------------------------------------------------------
(* Requests                                                                *)
Answer(r, kind) ==
  /\ status = "running"
  /\ request[r] = kind
  /\ request' = [request EXCEPT ![r] = "answered"]
  /\ UNCHANGED <<mpc, status, panics, garbled, fault, signalVars, serverVars>>

(* /metrics: Collect                                                       *)
AnswerScrape(r) == Answer(r, "scrape")

(* Mutant: one request at a time.                                          *)
AnswerOther_OneAtATime(r) ==
  /\ \A q \in Requests \ {r} : request[q] # "scrape"
  /\ Answer(r, "other")

(* /health and the redirection of everything else                          *)
AnswerOther(r) == Answer(r, "other")

(* The name of a process, of the file behind a mapping, or of a mount      *)
(* comes from the node as it is: it need not be valid UTF-8.               *)
Garble ==
  /\ ~garbled
  /\ \E r \in Requests : request[r] = "scrape"
  /\ garbled' = TRUE
  /\ UNCHANGED <<mpc, status, panics, fault, signalVars, serverVars, request>>

(* The registry collects in a goroutine of its own, where no handler       *)
(* recovers a panic: of collectFileMetrics over an empty pattern, of       *)
(* MustNewConstMetric over a label value that is not valid UTF-8.          *)
Panic(r) ==
  /\ panics \/ garbled
  /\ request[r] = "scrape"
  /\ End("panic")
  /\ UNCHANGED fault

-----------------------------------------------------------------------------
MainStep ==
  \/ ConfigLoaded \/ SetUp \/ Notify \/ StartGoroutine
  \/ Listen \/ Bind \/ Serve \/ ListenerClosed \/ Stopped

SignalStep == Receive \/ Shutdown \/ CloseListener \/ ShutdownReturns

ExporterNext ==
  \/ MainStep \/ SignalStep
  \/ StartFails \/ BindFails \/ AcceptFails
  \/ Signal \/ SignalKills \/ Garble
  \/ \E r \in Requests : \/ \E kind \in Open : Accept(r, kind)
                         \/ AnswerScrape(r) \/ AnswerOther(r) \/ Panic(r)

ExporterSpec == ExporterInit /\ [][ExporterNext]_exporterVars

(* The goroutines run.  A scrape need not end: statfs may never return.    *)
ExporterFairSpec ==
  /\ ExporterSpec
  /\ WF_exporterVars(MainStep)
  /\ WF_exporterVars(SignalStep)
  /\ \A r \in Requests : WF_exporterVars(AnswerOther(r))

-----------------------------------------------------------------------------
(***************************************************************************)
(* Properties.                                                             *)
(***************************************************************************)

(* The process ends well only after a signal, and a signal that was caught *)
(* is never what makes it fail: an exit status of 1 has a failure of its   *)
(* own.  It panics only over an empty file pattern or a name of the node   *)
(* that is not valid UTF-8, and requests are cut off only by its end       *)
(* (main.go:46-105, collector.go:78, 100, 313).                            *)
EndExplained ==
  /\ status = "stopped" => signalled /\ inShutdown
  /\ status = "error" => fault
  /\ status = "panic" => panics \/ garbled
  /\ status = "killed" => ~signalled
  /\ (\E r \in Requests : request[r] = "cut") => status \in {"stopped", "error", "panic"}

(* Once caught, at whatever point of the start, a signal ends the process, *)
(* even if a scrape never ends (main.go:87-104).                           *)
SignalEndsProcess == signalled ~> status # "running"

(* /health is answered, or cut off by the end, whatever the scrapes do     *)
(* (main.go:75-80).                                                        *)
HealthAnswered ==
  \A r \in Requests : request[r] = "other" ~> request[r] # "other"

-----------------------------------------------------------------------------
(***************************************************************************)
(* Why: the server is marked, and its listener closed, only on the way     *)
(* from the signal to the end.                                             *)
(***************************************************************************)
ExporterInv ==
  /\ ExporterTypeOK
  /\ EndExplained
  /\ gpc \in {"close", "poll", "done"} <=> inShutdown
  /\ sigChan \/ gpc \notin {"none", "wait"} => signalled
  /\ mpc \in {"load", "client", "notify", "go"} => gpc = "none"
  /\ signalled => mpc \notin {"load", "client", "notify"}
  /\ mpc = "closed" => inShutdown
  /\ mpc = "accept" /\ ~listening => inShutdown
  /\ \A r \in Requests :
       /\ mpc \in {"load", "client", "notify"} => request[r] = "none"
       /\ status = "running" => request[r] # "cut"
=============================================================================
