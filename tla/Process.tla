------------------------------- MODULE Process -------------------------------
(***************************************************************************)
(* The whole process (main.go): what main does first is LoadConfig, of     *)
(* Startup, and what it goes on with is what LoadConfig returned.          *)
(***************************************************************************)
EXTENDS Startup, Exporter

processVars == <<startupVars, exporterVars>>

Rejected == {"notRead", "incomplete", "notExist"}

ProcessInit == StartupInit /\ ExporterInit

InLoadConfig == mpc = "load" /\ lpc \notin Rejected \cup {"loaded"}

(* The paths are not looked at again, so their later changes are left out. *)
Load ==
  /\ InLoadConfig
  /\ StartupNext
  /\ UNCHANGED exporterVars

(* main goes on, or exits, once LoadConfig has returned; a signal does not *)
(* wait for it.                                                            *)
AfterLoad(A) ==
  /\ A
  /\ mpc = "load" /\ status' # "killed" =>
       IF status' = "error" THEN lpc \in Rejected
                            ELSE lpc = "loaded" /\ panics' = config.EmptyFilePattern
  /\ UNCHANGED startupVars

Proceed == AfterLoad(ExporterNext)

ProcessNext == Load \/ Proceed

ProcessSpec == ProcessInit /\ [][ProcessNext]_processVars

ProcessFairSpec ==
  /\ ProcessSpec
  /\ WF_processVars(Load /\ LoadConfig)
  /\ WF_processVars(AfterLoad(MainStep \/ StartFails))
  /\ WF_processVars(AfterLoad(SignalStep))
  /\ \A r \in Requests : WF_processVars(AfterLoad(AnswerOther(r)))

-----------------------------------------------------------------------------
(***************************************************************************)
(* Properties.                                                             *)
(***************************************************************************)

(* Whatever the node does while the process starts, the start ends: it     *)
(* listens, or the process is over; it does not wait for a socket or a     *)
(* path to appear (main.go:46-102, config.go:65-135, 199-214).             *)
StartEnds == <>(listening \/ status # "running")

(* A panic goes back to an empty file pattern of the file, or to a name of *)
(* the node that is not valid UTF-8 (collector.go:78, 100, 313,            *)
(* config.go:65-135).                                                      *)
PanicTraced == status = "panic" => given.EmptyFilePattern \/ garbled

(* Why: main goes on only with what LoadConfig accepted, and LoadConfig    *)
(* leaves the file patterns as they are.                                   *)
ProcessInv ==
  /\ PanicTraced
  /\ mpc \notin {"load", "end"} => lpc = "loaded"
  /\ panics => config.EmptyFilePattern
  /\ config.EmptyFilePattern = given.EmptyFilePattern
=============================================================================
