----------------------------- MODULE ContourTools -----------------------------
(***************************************************************************)
(* One run of the Contour load tool (examples/contour/tools): either a     *)
(* traffic command, whose metrics a ticker, a signal handler and main all  *)
(* print, or "stats", which sums up the latency histograms of Envoy.  The  *)
(* OpenBao tool runs its commands in the same frame.                       *)
(***************************************************************************)
EXTENDS Integers, FiniteSets, FiniteSetsExt, Functions

CONSTANTS
  Workers,     \* the goroutines of the worker pool (external: echoclient)
  Count,       \* repetitions asked for; bound: requests of an endless run
  Clusters,    \* Envoy clusters with a histogram
  Buckets,     \* number of buckets of each; the last one has no upper bound
  Samples      \* how many requests a bucket of a cluster may have counted

ASSUME ContourAssumption ==
  /\ Count \in Nat \ {0} /\ Buckets \in Nat \ {0} /\ Samples \subseteq Nat
  /\ IsFiniteSet(Clusters)

VARIABLES
  main,      \* what the goroutine of main is about to do
  mode,      \* what ends the traffic
  ticker,    \* the goroutine that prints every 5 seconds
  handler,   \* the goroutine that waits for a signal
  tick,      \* a tick is in the channel of the ticker
  sigs,      \* a signal is in its channel, which has room for one
  worker,    \* what a worker does
  left,      \* repetitions left
  answered,  \* requests measured
  seen,      \* what the dump a goroutine prints, or printed last, shows
  last,      \* what the dump printed last shows
  best,      \* history: the most a printed dump has shown
  asked,     \* history: requests measured when the first signal came, or -1
  exit,      \* how the process ended
  samples,   \* requests Envoy has counted, by cluster and bucket
  shown      \* the bucket stats shows for a percentile

trafficVars == <<worker, left, answered>>
dumpVars == <<seen, last, best>>
statsVars == <<samples, shown>>
toolVars == <<main, mode, ticker, handler, tick, sigs, trafficVars, dumpVars,
              asked, exit, statsVars>>

Percents == {50, 95, 99}
Bounds == 1..Buckets

ToolTypeOK ==
  /\ main \in {"parse", "fetch", "report", "traffic", "stop", "close", "wait",
               "dump", "return"}
  /\ mode \in {"duration", "count", "endless"}
  /\ ticker \in {"select", "dump", "ended"}
  /\ handler \in {"waiting", "dump", "exit"}
  /\ tick \in BOOLEAN /\ sigs \in BOOLEAN
  /\ worker \in [Workers -> {"idle", "sent"}]
  /\ left \in 0..Count /\ answered \in 0..Count
  /\ seen \in [{"main", "ticker", "handler"} -> 0..Count]
  /\ last \in -1..Count /\ best \in -1..Count /\ asked \in -1..Count
  /\ exit \in {"none", "done", "failed", "killed", "interrupted"}
  /\ samples \in [Clusters -> [Bounds -> Nat]]
  /\ shown \in [Percents -> 0..Buckets]

ToolInit ==
  /\ main = "parse" /\ ticker = "select" /\ handler = "waiting"
  /\ mode \in {"duration", "count", "endless"}
  /\ tick = FALSE /\ sigs = FALSE
  /\ worker = [w \in Workers |-> "idle"] /\ left = Count /\ answered = 0
  /\ seen = [g \in {"main", "ticker", "handler"} |-> 0]
  /\ last = -1 /\ best = -1 /\ asked = -1
  /\ exit = "none"
  /\ samples = [c \in Clusters |-> [b \in Bounds |-> 0]]
  /\ shown = [p \in Percents |-> 0]

-----------------------------------------------------------------------------
(* The printing of the metrics: they are gathered, then written.           *)
Gathers(g) ==
  /\ seen' = [seen EXCEPT ![g] = answered]
  /\ UNCHANGED <<last, best>>

Prints(g) ==
  /\ last' = seen[g]
  /\ best' = IF seen[g] > best THEN seen[g] ELSE best
  /\ UNCHANGED seen

MainStep(from, to) ==
  /\ exit = "none"
  /\ main = from /\ main' = to
  /\ UNCHANGED <<mode, ticker, handler, tick, sigs, trafficVars, asked>>

-----------------------------------------------------------------------------
(* withMetrics.                                                            *)
withMetrics == MainStep("parse", "traffic") /\ UNCHANGED <<dumpVars, exit, statsVars>>

(* Mutant: the traffic is not waited for.                                  *)
TrafficEnds_NoWait ==
  /\ left = 0 /\ mode # "endless"
  /\ MainStep("traffic", "stop") /\ UNCHANGED <<dumpVars, exit, statsVars>>

(* The worker pool returns when every request has.                         *)
TrafficEnds ==
  /\ left = 0 /\ mode # "endless"
  /\ \A w \in Workers : worker[w] = "idle"
  /\ MainStep("traffic", "stop") /\ UNCHANGED <<dumpVars, exit, statsVars>>

StopTicker == MainStep("stop", "close") /\ UNCHANGED <<dumpVars, exit, statsVars>>

CloseDone == MainStep("close", "wait") /\ UNCHANGED <<dumpVars, exit, statsVars>>

(* Mutant: the ticker's goroutine is told to stop and not waited for.      *)
FinalDump_NoWait ==
  /\ MainStep("wait", "dump")
  /\ Gathers("main") /\ UNCHANGED <<exit, statsVars>>

FinalDump ==
  /\ ticker = "ended"
  /\ MainStep("wait", "dump")
  /\ Gathers("main") /\ UNCHANGED <<exit, statsVars>>

FinalPrinted ==
  /\ MainStep("dump", "return")
  /\ Prints("main") /\ UNCHANGED <<exit, statsVars>>

Return ==
  /\ main = "return" /\ exit = "none"
  /\ exit' = "done"
  /\ UNCHANGED <<main, mode, ticker, handler, tick, sigs, trafficVars, dumpVars,
                 asked, statsVars>>

-----------------------------------------------------------------------------
(* The worker pool: so many requests, or as many as fit in the time, or    *)
(* more and more.  Nothing but an answer ends a request.                   *)
PoolStep ==
  /\ exit = "none" /\ main = "traffic"
  /\ UNCHANGED <<main, mode, ticker, handler, tick, sigs, dumpVars, asked, exit, statsVars>>

Send(w) ==
  /\ PoolStep
  /\ worker[w] = "idle" /\ left > 0
  /\ worker' = [worker EXCEPT ![w] = "sent"] /\ left' = left - 1
  /\ UNCHANGED answered

Answer(w) ==
  /\ PoolStep
  /\ worker[w] = "sent"
  /\ worker' = [worker EXCEPT ![w] = "idle"] /\ answered' = answered + 1
  /\ UNCHANGED left

TimeUp ==
  /\ PoolStep
  /\ mode = "duration"
  /\ left' = 0
  /\ UNCHANGED <<worker, answered>>

-----------------------------------------------------------------------------
(* The ticker and its goroutine, which may be printing, or have a tick     *)
(* before it, when it is told to stop.                                     *)
Tick ==
  /\ exit = "none" /\ main \in {"traffic", "stop"}
  /\ ~tick /\ tick' = TRUE
  /\ UNCHANGED <<main, mode, ticker, handler, sigs, trafficVars, dumpVars, asked,
                 exit, statsVars>>

Running == main \in {"traffic", "stop", "close", "wait", "dump", "return"}

TickerStep(from, to) ==
  /\ exit = "none" /\ Running
  /\ ticker = from /\ ticker' = to
  /\ UNCHANGED <<main, mode, handler, sigs, trafficVars, asked, exit, statsVars>>

TickDump == tick /\ tick' = FALSE /\ TickerStep("select", "dump") /\ Gathers("ticker")

TickPrinted == TickerStep("dump", "select") /\ Prints("ticker") /\ UNCHANGED tick

TickerEnds ==
  /\ main \in {"wait", "dump", "return"}
  /\ TickerStep("select", "ended")
  /\ UNCHANGED <<tick, dumpVars>>

-----------------------------------------------------------------------------
(* A signal is caught once withMetrics runs; before, and in stats, it      *)
(* kills the process.                                                      *)
Signal ==
  /\ exit = "none"
  /\ IF Running THEN sigs' = TRUE /\ UNCHANGED exit
                ELSE exit' = "killed" /\ UNCHANGED sigs
  /\ asked' = IF asked = -1 THEN answered ELSE asked
  /\ UNCHANGED <<main, mode, ticker, handler, tick, trafficVars, dumpVars, statsVars>>

HandlerStep(from, to) ==
  /\ exit = "none" /\ Running
  /\ handler = from /\ handler' = to
  /\ UNCHANGED <<main, mode, ticker, tick, trafficVars, asked, statsVars>>

Interrupted ==
  /\ sigs /\ sigs' = FALSE
  /\ HandlerStep("waiting", "dump")
  /\ Gathers("handler") /\ UNCHANGED exit

(* Mutants: the goroutine ends and not the process, or the process without *)
(* the metrics.                                                            *)
InterruptPrinted_Nothing ==
  HandlerStep("dump", "exit") /\ UNCHANGED <<sigs, dumpVars, exit>>

Exit_Returns == HandlerStep("exit", "waiting") /\ UNCHANGED <<sigs, dumpVars, exit>>

InterruptPrinted == HandlerStep("dump", "exit") /\ Prints("handler") /\ UNCHANGED <<sigs, exit>>

Exit ==
  /\ HandlerStep("exit", "exit")
  /\ exit' = "interrupted" /\ UNCHANGED <<sigs, dumpVars>>

-----------------------------------------------------------------------------
(* stats: four answers are needed, and Envoy's has the histograms.         *)
RunStats == MainStep("parse", "fetch") /\ UNCHANGED <<dumpVars, exit, statsVars>>

Fetch ==
  /\ MainStep("fetch", "report")
  /\ samples' \in [Clusters -> [Bounds -> Samples]]
  /\ UNCHANGED <<dumpVars, exit, shown>>

FetchFails ==
  /\ MainStep("fetch", "fetch")
  /\ exit' = "failed" /\ UNCHANGED <<dumpVars, statsVars>>

(* What a histogram exposes: the requests in a bucket and all before it.   *)
Cumulative(c, b) == SumFunctionOnSet(samples[c], 1..b)

(* Mutant: of two clusters' buckets the larger one is kept.                *)
Merged_Largest(b) == Max({Cumulative(c, b) : c \in Clusters})

Merged(b) == SumFunctionOnSet([c \in Clusters |-> Cumulative(c, b)], Clusters)

totalCount == SumFunctionOnSet([c \in Clusters |-> Cumulative(c, Buckets)], Clusters)

(* The first bucket that has, with those before it, the share of all, cut  *)
(* to an integer; the last one, should none have it.                       *)
percentileFromBuckets(percent) ==
  LET target == (totalCount * percent) \div 100
  IN  Min({b \in Bounds : Merged(b) >= target} \cup {Buckets})

Report ==
  /\ MainStep("report", "report")
  /\ exit' = "done"
  /\ shown' = IF totalCount > 0 THEN [p \in Percents |-> percentileFromBuckets(p)]
                                ELSE shown
  /\ UNCHANGED <<dumpVars, samples>>

-----------------------------------------------------------------------------
DumpStep ==
  \/ FinalPrinted \/ TickDump \/ TickPrinted \/ TickerEnds
  \/ Interrupted \/ InterruptPrinted \/ Exit

ToolNext ==
  \/ withMetrics \/ TrafficEnds \/ StopTicker \/ CloseDone \/ FinalDump \/ Return
  \/ \E w \in Workers : Send(w) \/ Answer(w)
  \/ TimeUp \/ Tick \/ Signal \/ DumpStep
  \/ RunStats \/ Fetch \/ FetchFails \/ Report

(* The goroutines run and standard output takes what is written to it; a   *)
(* server need not answer.                                                 *)
ToolSpec ==
  /\ ToolInit /\ [][ToolNext]_toolVars
  /\ WF_toolVars(StopTicker \/ CloseDone \/ FinalDump \/ FinalPrinted \/ Return)
  /\ WF_toolVars(TickPrinted \/ TickerEnds)
  /\ WF_toolVars(Interrupted \/ InterruptPrinted \/ Exit)

-----------------------------------------------------------------------------
(***************************************************************************)
(* Properties.                                                             *)
(***************************************************************************)

(* A run that is not interrupted ends with the metrics of all its          *)
(* requests, after whatever the ticker had under way (main.go:128-133).    *)
LastDumpComplete ==
  exit = "done" /\ main = "return" /\ handler = "waiting" =>
    /\ last = answered
    /\ mode = "count" => last = Count

(* "Print metrics on interrupt and exit." (openbao main.go:130): whichever *)
(* goroutine ends the process, a dump has been written whole that shows    *)
(* every request measured before there was a reason to end.                *)
MetricsOnExit ==
  /\ exit = "interrupted" => best >= asked
  /\ exit = "done" /\ main = "return" => best = answered

(* A signal that was caught ends the process, though a request may hang    *)
(* without a timeout and a dump be under way (main.go:104-111, 158).       *)
SignalEndsTool == sigs ~> exit # "none"

RequestsUpTo(b) ==
  LET buckets == Clusters \X (1..b)
  IN  SumFunctionOnSet([at \in buckets |-> samples[at[1]][at[2]]], buckets)

(* Of the requests of all clusters the share asked for, give or take one   *)
(* request, took no longer than the time shown, and less than it took less *)
(* time than the bucket shown begins with (cmd_stats.go:113-131, 323-345). *)
PercentileOfSamples ==
  \A p \in Percents : shown[p] > 0 =>
    /\ RequestsUpTo(shown[p]) * 100 > RequestsUpTo(Buckets) * p - 100
    /\ shown[p] > 1 => RequestsUpTo(shown[p] - 1) * 100 < RequestsUpTo(Buckets) * p

(* "computes a percentile" (cmd_stats.go:323): with a share below one      *)
(* request the first bucket is shown, though no request was that fast.     *)
PercentileIsOfARequest ==
  \A p \in Percents : shown[p] > 0 => \E c \in Clusters : samples[c][shown[p]] > 0

-----------------------------------------------------------------------------
(***************************************************************************)
(* Why the printed metrics are complete.                                   *)
(***************************************************************************)
Out == {w \in Workers : worker[w] = "sent"}

(* Once the worker pool has returned no request is out, and every request  *)
(* of a counted run was answered.                                          *)
TrafficOver ==
  /\ main \in {"stop", "close", "wait", "dump", "return"} => left = 0 /\ Out = {}
  /\ IsFiniteSet(Out) /\ left + Cardinality(Out) + answered <= Count
  /\ mode = "count" => left + Cardinality(Out) + answered = Count

(* Nobody shows more than there is; main shows all there is, and the       *)
(* ticker, which has ended by then, does not print over it.                *)
FinalDumpLast ==
  /\ best <= answered /\ \A g \in {"main", "ticker", "handler"} : seen[g] <= answered
  /\ main \in {"dump", "return"} => ticker = "ended"
  /\ main = "dump" => seen["main"] = answered
  /\ main = "return" => best = answered /\ (handler = "waiting" => last = answered)

(* The handler gathers after the signal.                                   *)
HandlerDump ==
  /\ asked <= answered
  /\ sigs \/ handler # "waiting" => asked # -1
  /\ handler = "dump" => seen["handler"] >= asked
  /\ handler = "exit" => best >= asked
  /\ exit = "interrupted" => handler = "exit"

ToolInv ==
  /\ ToolTypeOK
  /\ TrafficOver
  /\ FinalDumpLast
  /\ HandlerDump
=============================================================================
