------------------------- MODULE ContourToolsProofs -------------------------
(***************************************************************************)
(* The metrics a traffic command prints are complete, whatever the number  *)
(* of workers and requests: ToolInv is inductive.  The percentiles of stats*)
(* are those of the requests of all clusters, whatever their number.       *)
(***************************************************************************)
EXTENDS ContourTools, SumsProofs

(* A set of natural numbers has a least element.                           *)
LEMMA LeastExists ==
  ASSUME NEW T, T \subseteq Nat, T # {}
  PROVE  Min(T) \in T /\ \A y \in T : Min(T) <= y
<1>1. PICK x \in T : \A y \in T : <<y, x>> \notin OpToRel(<, Nat)
  BY NatLessThanWellFounded, WFMin
<1>2. \A y \in T : ~(y < x)
  BY <1>1 DEF OpToRel
<1>3. \A y \in T : x <= y
  BY <1>2
<1> QED
  BY <1>3 DEF Min

(* What stats shows is a bucket.                                           *)
LEMMA ShownIsBucket ==
  ASSUME NEW p
  PROVE  percentileFromBuckets(p) \in 0..Buckets
<1> DEFINE S == {b \in Bounds : Merged(b) >= (totalCount * p) \div 100} \cup {Buckets}
<1>1. S \subseteq Nat /\ S # {} /\ S \subseteq 0..Buckets
  BY ContourAssumption DEF ContourAssumption, Bounds
<1>2. Min(S) \in S
  BY <1>1, LeastExists
<1> QED
  BY <1>1, <1>2 DEF percentileFromBuckets

LEMMA ToolInvInit == ToolInit => ToolInv
<1> SUFFICES ASSUME ToolInit PROVE ToolInv
  OBVIOUS
<1>1. Out = {}
  BY DEF ToolInit, Out
<1>2. ToolTypeOK
  <2>1. /\ left \in 0..Count /\ answered \in 0..Count
        /\ seen \in [{"main", "ticker", "handler"} -> 0..Count]
        /\ last \in -1..Count /\ best \in -1..Count /\ asked \in -1..Count
    BY ContourAssumption DEF ToolInit, ContourAssumption
  <2>2. /\ samples \in [Clusters -> [Bounds -> Nat]]
        /\ shown \in [Percents -> 0..Buckets]
    BY ContourAssumption DEF ToolInit, ContourAssumption, Percents
  <2> QED
    BY <2>1, <2>2 DEF ToolInit, ToolTypeOK
<1>3. TrafficOver
  BY <1>1, FS_EmptySet, ContourAssumption DEF ToolInit, TrafficOver, ContourAssumption
<1>4. FinalDumpLast
  BY DEF ToolInit, FinalDumpLast
<1>5. HandlerDump
  BY DEF ToolInit, HandlerDump
<1> QED
  BY <1>2, <1>3, <1>4, <1>5 DEF ToolInv

(* The steps of main, from the start of the traffic to the return.         *)
LEMMA MainKeeps ==
  ASSUME ToolInv,
         \/ withMetrics \/ TrafficEnds \/ StopTicker \/ CloseDone
         \/ FinalDump \/ FinalPrinted \/ Return
  PROVE  ToolInv'
<1> USE DEF ToolInv, ToolTypeOK, MainStep, trafficVars, dumpVars, statsVars
<1>1. Out' = Out
  BY DEF Out, withMetrics, TrafficEnds, StopTicker, CloseDone, FinalDump, FinalPrinted, Return
<1>2. CASE withMetrics \/ StopTicker \/ CloseDone \/ Return
  <2>1. TrafficOver'
    BY <1>1, <1>2 DEF withMetrics, StopTicker, CloseDone, Return, TrafficOver
  <2>2. FinalDumpLast' /\ HandlerDump'
    BY <1>2 DEF withMetrics, StopTicker, CloseDone, Return, FinalDumpLast, HandlerDump
  <2> QED
    BY <1>2, <2>1, <2>2 DEF withMetrics, StopTicker, CloseDone, Return
<1>3. CASE TrafficEnds
  <2>1. Out = {}
    BY <1>3 DEF TrafficEnds, Out
  <2>2. TrafficOver'
    BY <1>1, <1>3, <2>1 DEF TrafficEnds, TrafficOver
  <2>3. FinalDumpLast' /\ HandlerDump'
    BY <1>3 DEF TrafficEnds, FinalDumpLast, HandlerDump
  <2> QED
    BY <1>3, <2>2, <2>3 DEF TrafficEnds
<1>4. CASE FinalDump
  <2>1. TrafficOver'
    BY <1>1, <1>4 DEF FinalDump, Gathers, TrafficOver
  <2>2. FinalDumpLast' /\ HandlerDump'
    BY <1>4 DEF FinalDump, Gathers, FinalDumpLast, HandlerDump
  <2> QED
    BY <1>4, <2>1, <2>2 DEF FinalDump, Gathers
<1>5. CASE FinalPrinted
  <2>1. TrafficOver'
    <3>1. main = "dump" /\ main' = "return" /\ UNCHANGED <<mode, left, answered>>
      BY <1>5 DEF FinalPrinted
    <3> QED
      BY <1>1, <3>1 DEF TrafficOver
  <2>2. FinalDumpLast' /\ HandlerDump'
    BY <1>5 DEF FinalPrinted, Prints, FinalDumpLast, HandlerDump
  <2> QED
    BY <1>5, <2>1, <2>2 DEF FinalPrinted, Prints
<1> QED
  BY <1>2, <1>3, <1>4, <1>5

(* The worker pool.                                                        *)
LEMMA PoolKeeps ==
  ASSUME ToolInv, TimeUp \/ \E w \in Workers : Send(w) \/ Answer(w)
  PROVE  ToolInv'
<1> USE DEF ToolInv, ToolTypeOK, PoolStep, dumpVars, statsVars
<1>1. /\ main = "traffic"
      /\ UNCHANGED <<main, mode, ticker, handler, tick, sigs, seen, last, best, asked,
                     exit, samples, shown>>
  BY DEF TimeUp, Send, Answer
<1>2. IsFiniteSet(Out)
  BY DEF TrafficOver
<1>3. CASE TimeUp
  <2>1. left' = 0 /\ UNCHANGED <<worker, answered>> /\ mode # "count" /\ Out' = Out
    BY <1>3 DEF TimeUp, Out
  <2>2. TrafficOver'
    <3>1. Cardinality(Out) \in Nat
      BY <1>2, FS_CardinalityType
    <3> QED
      BY <1>1, <1>2, <2>1, <3>1, ContourAssumption DEF TrafficOver, ContourAssumption
  <2>3. FinalDumpLast' /\ HandlerDump'
    BY <1>1, <2>1 DEF FinalDumpLast, HandlerDump
  <2>4. ToolTypeOK'
    BY <1>1, <2>1, ContourAssumption DEF ContourAssumption
  <2> QED
    BY <2>2, <2>3, <2>4
<1>4. ASSUME NEW w \in Workers, Send(w) PROVE ToolInv'
  <2>1. /\ worker' = [worker EXCEPT ![w] = "sent"] /\ worker[w] = "idle"
        /\ left > 0 /\ left' = left - 1 /\ UNCHANGED answered
    BY <1>4 DEF Send
  <2>2. w \notin Out /\ Out' = Out \cup {w}
    BY <2>1 DEF Out
  <2>3. IsFiniteSet(Out') /\ Cardinality(Out') = Cardinality(Out) + 1
    BY <1>2, <2>2, FS_AddElement
  <2>4. Cardinality(Out) \in Nat
    BY <1>2, FS_CardinalityType
  <2>5. TrafficOver'
    BY <1>1, <2>1, <2>3, <2>4 DEF TrafficOver
  <2>6. FinalDumpLast' /\ HandlerDump'
    BY <1>1, <2>1 DEF FinalDumpLast, HandlerDump
  <2>7. left' \in 0..Count
    BY <2>1, ContourAssumption DEF ContourAssumption
  <2>8. ToolTypeOK'
    BY <1>1, <2>1, <2>7
  <2> QED
    BY <2>5, <2>6, <2>8
<1>5. ASSUME NEW w \in Workers, Answer(w) PROVE ToolInv'
  <2>1. /\ worker' = [worker EXCEPT ![w] = "idle"] /\ worker[w] = "sent"
        /\ answered' = answered + 1 /\ UNCHANGED left
    BY <1>5 DEF Answer
  <2>2. w \in Out /\ Out' = Out \ {w}
    BY <2>1 DEF Out
  <2>3. IsFiniteSet(Out') /\ Cardinality(Out') = Cardinality(Out) - 1
    BY <1>2, <2>2, FS_RemoveElement
  <2>4. Cardinality(Out) \in Nat /\ Cardinality(Out') \in Nat
    BY <1>2, <2>3, FS_CardinalityType
  <2>5. TrafficOver'
    BY <1>1, <2>1, <2>3, <2>4 DEF TrafficOver
  <2>6. FinalDumpLast' /\ HandlerDump'
    BY <1>1, <2>1 DEF FinalDumpLast, HandlerDump
  <2>7. answered' \in 0..Count
    <3>1. left' + Cardinality(Out') + answered' <= Count
      BY <2>5 DEF TrafficOver
    <3> QED
      BY <2>1, <2>4, <3>1, ContourAssumption DEF ContourAssumption
  <2>8. ToolTypeOK'
    BY <1>1, <2>1, <2>7
  <2> QED
    BY <2>5, <2>6, <2>8
<1> QED
  BY <1>3, <1>4, <1>5

(* The ticker's goroutine and its ticks.                                   *)
LEMMA TickerKeeps ==
  ASSUME ToolInv, Tick \/ TickDump \/ TickPrinted \/ TickerEnds
  PROVE  ToolInv'
<1> USE DEF ToolInv, ToolTypeOK
<1>1. UNCHANGED <<main, mode, handler, sigs, worker, left, answered, asked, exit,
                  samples, shown>>
  BY DEF Tick, TickDump, TickPrinted, TickerEnds, TickerStep, trafficVars, statsVars
<1>2. TrafficOver'
  BY <1>1 DEF TrafficOver, Out
<1>3. CASE Tick \/ TickerEnds
  <2>1. /\ UNCHANGED <<seen, last, best>> /\ tick' \in BOOLEAN
        /\ ticker' \in {ticker, "ended"}
    BY <1>3 DEF Tick, TickerEnds, TickerStep, dumpVars
  <2>2. FinalDumpLast' /\ HandlerDump'
    BY <1>1, <2>1 DEF FinalDumpLast, HandlerDump
  <2> QED
    BY <1>1, <1>2, <2>1, <2>2
<1>4. CASE TickDump
  <2>1. /\ seen' = [seen EXCEPT !["ticker"] = answered] /\ UNCHANGED <<last, best>>
        /\ ticker = "select" /\ ticker' = "dump" /\ tick' = FALSE
    BY <1>4 DEF TickDump, TickerStep, Gathers
  <2>2. FinalDumpLast' /\ HandlerDump'
    BY <1>1, <2>1 DEF FinalDumpLast, HandlerDump
  <2> QED
    BY <1>1, <1>2, <2>1, <2>2
<1>5. CASE TickPrinted
  <2>1. /\ UNCHANGED <<seen, tick>> /\ last' = seen["ticker"]
        /\ best' \in {best, seen["ticker"]} /\ best' >= best
        /\ ticker = "dump" /\ ticker' = "select"
    BY <1>5 DEF TickPrinted, TickerStep, Prints
  <2>2. FinalDumpLast' /\ HandlerDump'
    BY <1>1, <2>1 DEF FinalDumpLast, HandlerDump
  <2> QED
    BY <1>1, <1>2, <2>1, <2>2
<1> QED
  BY <1>3, <1>4, <1>5

(* A signal and its handler.                                               *)
LEMMA HandlerKeeps ==
  ASSUME ToolInv, Signal \/ Interrupted \/ InterruptPrinted \/ Exit
  PROVE  ToolInv'
<1> USE DEF ToolInv, ToolTypeOK
<1>1. UNCHANGED <<main, mode, ticker, tick, worker, left, answered, samples, shown>>
  BY DEF Signal, Interrupted, InterruptPrinted, Exit, HandlerStep, trafficVars, statsVars
<1>2. TrafficOver'
  BY <1>1 DEF TrafficOver, Out
<1>3. CASE Signal
  <2>1. /\ UNCHANGED <<handler, seen, last, best>>
        /\ asked' = IF asked = -1 THEN answered ELSE asked
        /\ exit = "none"
    BY <1>3 DEF Signal, dumpVars
  <2>2. sigs' \in BOOLEAN /\ exit' \in {"none", "killed"}
    <3>1. CASE Running
      BY <1>3, <2>1, <3>1 DEF Signal
    <3>2. CASE ~Running
      BY <1>3, <3>2 DEF Signal
    <3> QED
      BY <3>1, <3>2
  <2>3. asked' \in {asked, answered} /\ asked' # -1 /\ (asked # -1 => asked' = asked)
    BY <2>1
  <2>4. FinalDumpLast'
    BY <1>1, <2>1 DEF FinalDumpLast
  <2>5. asked' <= answered
    BY <2>3 DEF HandlerDump
  <2>6. handler # "waiting" => asked' = asked
    BY <2>3 DEF HandlerDump
  <2>7. HandlerDump'
    BY <1>1, <2>1, <2>2, <2>3, <2>5, <2>6 DEF HandlerDump
  <2> QED
    BY <1>1, <1>2, <2>1, <2>2, <2>3, <2>4, <2>7
<1>4. CASE Interrupted
  <2>1. /\ seen' = [seen EXCEPT !["handler"] = answered] /\ UNCHANGED <<last, best, asked>>
        /\ handler' = "dump" /\ sigs /\ sigs' = FALSE /\ exit = "none" /\ exit' = exit
    BY <1>4 DEF Interrupted, HandlerStep, Gathers
  <2>2. FinalDumpLast' /\ HandlerDump'
    BY <1>1, <2>1 DEF FinalDumpLast, HandlerDump
  <2> QED
    BY <1>1, <1>2, <2>1, <2>2
<1>5. CASE InterruptPrinted
  <2>1. /\ UNCHANGED <<seen, sigs, asked, exit>> /\ last' = seen["handler"]
        /\ best' \in {best, seen["handler"]} /\ best' >= best /\ best' >= seen["handler"]
        /\ handler = "dump" /\ handler' = "exit" /\ exit = "none"
    BY <1>5 DEF InterruptPrinted, HandlerStep, Prints
  <2>2. FinalDumpLast' /\ HandlerDump'
    BY <1>1, <2>1 DEF FinalDumpLast, HandlerDump
  <2> QED
    BY <1>1, <1>2, <2>1, <2>2
<1>6. CASE Exit
  <2>1. /\ UNCHANGED <<handler, seen, last, best, asked, sigs>> /\ handler = "exit"
        /\ exit' = "interrupted"
    BY <1>6 DEF Exit, HandlerStep, dumpVars
  <2>2. FinalDumpLast' /\ HandlerDump'
    BY <1>1, <2>1 DEF FinalDumpLast, HandlerDump
  <2> QED
    BY <1>1, <1>2, <2>1, <2>2
<1> QED
  BY <1>3, <1>4, <1>5, <1>6

(* stats prints none of this.                                              *)
LEMMA StatsKeeps ==
  ASSUME ToolInv, RunStats \/ Fetch \/ FetchFails \/ Report
  PROVE  ToolInv'
<1> USE DEF ToolInv, ToolTypeOK
<1>1. /\ UNCHANGED <<mode, ticker, handler, tick, sigs, worker, left, answered, asked,
                     seen, last, best>>
      /\ main \in {"parse", "fetch", "report"} /\ main' \in {"fetch", "report"}
      /\ exit = "none" /\ exit' \in {"none", "failed", "done"}
  BY DEF RunStats, Fetch, FetchFails, Report, MainStep, trafficVars, dumpVars
<1>2. TrafficOver'
  BY <1>1 DEF TrafficOver, Out
<1>3. FinalDumpLast' /\ HandlerDump'
  BY <1>1 DEF FinalDumpLast, HandlerDump
<1>4. samples' \in [Clusters -> [Bounds -> Nat]]
  <2>1. CASE Fetch
    <3>1. samples' \in [Clusters -> [Bounds -> Samples]]
      BY <2>1 DEF Fetch
    <3>2. [Bounds -> Samples] \subseteq [Bounds -> Nat]
      BY ContourAssumption DEF ContourAssumption
    <3> QED
      BY <3>1, <3>2
  <2>2. CASE RunStats \/ FetchFails \/ Report
    BY <2>2 DEF RunStats, FetchFails, Report, statsVars
  <2> QED
    BY <2>1, <2>2
<1>5. shown' \in [Percents -> 0..Buckets]
  BY ShownIsBucket DEF RunStats, Fetch, FetchFails, Report, statsVars
<1> QED
  BY <1>1, <1>2, <1>3, <1>4, <1>5

-----------------------------------------------------------------------------
(* The frame of the commands keeps ToolInv (main.go:95-135).               *)
THEOREM ToolInvariant == ToolSpec => []ToolInv
<1>1. ToolInv /\ [ToolNext]_toolVars => ToolInv'
  <2> SUFFICES ASSUME ToolInv, [ToolNext]_toolVars PROVE ToolInv'
    OBVIOUS
  <2>1. CASE UNCHANGED toolVars
    BY <2>1 DEF toolVars, trafficVars, dumpVars, statsVars, ToolInv, ToolTypeOK, TrafficOver,
                FinalDumpLast, HandlerDump, Out
  <2> QED
    BY <2>1, MainKeeps, PoolKeeps, TickerKeeps, HandlerKeeps, StatsKeeps
    DEF ToolNext, DumpStep
<1> QED
  BY <1>1, ToolInvInit, PTL DEF ToolSpec

(* A run that was not interrupted ends with the metrics of all its         *)
(* requests (main.go:128-133).                                             *)
THEOREM LastDumpCorrect == ToolSpec => []LastDumpComplete
<1>1. ToolInv => LastDumpComplete
  <2> SUFFICES ASSUME ToolInv, main = "return", handler = "waiting"
               PROVE  last = answered /\ (mode = "count" => last = Count)
    BY DEF LastDumpComplete
  <2>1. last = answered /\ left = 0 /\ Out = {} /\ answered \in Nat
    BY DEF ToolInv, ToolTypeOK, FinalDumpLast, TrafficOver
  <2>2. mode = "count" => answered = Count
    BY <2>1, FS_EmptySet DEF ToolInv, TrafficOver
  <2> QED
    BY <2>1, <2>2
<1> QED
  BY <1>1, ToolInvariant, PTL

(* However the process ends, the metrics until then were printed           *)
(* (main.go:104-111, 128-133).                                             *)
THEOREM MetricsPrinted == ToolSpec => []MetricsOnExit
<1>1. ToolInv => MetricsOnExit
  BY DEF ToolInv, FinalDumpLast, HandlerDump, MetricsOnExit
<1> QED
  BY <1>1, ToolInvariant, PTL

-----------------------------------------------------------------------------
(* The histograms are merged bucket by bucket: what stats adds up is the   *)
(* number of requests of all clusters in a bucket and all before it.       *)
LEMMA MergedIsRequests ==
  ASSUME samples \in [Clusters -> [Bounds -> Nat]], NEW b \in Bounds
  PROVE  Merged(b) = RequestsUpTo(b) /\ Merged(b) \in Nat
<1> DEFINE Y == 1..b
           g == [at \in Clusters \X Y |-> samples[at[1]][at[2]]]
           h == [c \in Clusters |-> Cumulative(c, b)]
<1>1. Y \subseteq Bounds /\ IsFiniteSet(Y)
  <2>1. b \in Int /\ Y \subseteq Bounds
    BY ContourAssumption DEF Bounds, ContourAssumption
  <2> QED
    BY <2>1, FS_Interval
<1>2. IsFiniteSet(Clusters)
  BY ContourAssumption DEF ContourAssumption
<1>3. \A c \in Clusters : \A a \in Y : samples[c][a] \in Nat
  BY <1>1
<1>4. \A c \in Clusters : \A a \in Y : g[<<c, a>>] = samples[c][a]
  OBVIOUS
<1>5. \A c \in Clusters : h[c] = SumFunctionOnSet(samples[c], Y)
  BY DEF Cumulative
<1>6. Merged(b) = SumFunctionOnSet(h, Clusters) /\ RequestsUpTo(b) = SumFunctionOnSet(g, Clusters \X Y)
  BY DEF Merged, RequestsUpTo
<1> HIDE DEF Y, g, h
<1>7. SumFunctionOnSet(h, Clusters) = SumFunctionOnSet(g, Clusters \X Y)
  <2> DEFINE f == samples
             Z == Clusters \X Y
  <2>1. \A x \in Clusters : /\ h[x] = SumFunctionOnSet(f[x], Y)
                            /\ \A y \in Y : f[x][y] \in Nat /\ g[<<x, y>>] = f[x][y]
    BY <1>3, <1>4, <1>5
  <2>2. Z = Clusters \X Y
    OBVIOUS
  <2> HIDE DEF f, Z
  <2>3. SumFunctionOnSet(h, Clusters) = SumFunctionOnSet(g, Z)
    BY <1>1, <1>2, <2>1, <2>2, SumOfRows
  <2> QED
    BY <2>3 DEF Z
<1>8. \A c \in Clusters : h[c] \in Nat
  <2> SUFFICES ASSUME NEW c \in Clusters PROVE h[c] \in Nat
    OBVIOUS
  <2> DEFINE row == samples[c]
  <2>1. \A a \in Y : row[a] \in Nat
    BY <1>3
  <2> HIDE DEF row
  <2>2. SumFunctionOnSet(row, Y) \in Nat
    BY <1>1, <2>1, SumType, Zenon
  <2> QED
    BY <1>5, <2>2 DEF row
<1>9. SumFunctionOnSet(h, Clusters) \in Nat
  BY <1>2, <1>8, SumType
<1> QED
  BY <1>6, <1>7, <1>9

(* The bucket found has the share asked for, and the one before it not.    *)
LEMMA PercentileBracketed ==
  ASSUME samples \in [Clusters -> [Bounds -> Nat]], NEW p \in Percents
  PROVE  LET b == percentileFromBuckets(p)
         IN  /\ b \in Bounds
             /\ RequestsUpTo(b) * 100 > RequestsUpTo(Buckets) * p - 100
             /\ b > 1 => RequestsUpTo(b - 1) * 100 < RequestsUpTo(Buckets) * p
<1> DEFINE target == (totalCount * p) \div 100
           S == {b \in Bounds : Merged(b) >= target} \cup {Buckets}
           m == Min(S)
<1>1. Buckets \in Bounds /\ Bounds \subseteq Nat /\ S \subseteq Bounds
  BY ContourAssumption DEF ContourAssumption, Bounds
<1>2. m \in S /\ \A b \in S : m <= b
  BY <1>1, LeastExists
<1>3. percentileFromBuckets(p) = m /\ m \in Bounds
  BY <1>1, <1>2 DEF percentileFromBuckets
<1> HIDE DEF m, S
<1>4. totalCount = RequestsUpTo(Buckets) /\ totalCount \in Nat
  <2>1. totalCount = Merged(Buckets)
    BY DEF totalCount, Merged
  <2> QED
    BY <1>1, <2>1, MergedIsRequests
<1>5. target * 100 <= totalCount * p /\ totalCount * p < target * 100 + 100
      /\ target <= totalCount /\ target \in Nat
  <2>1. p = 50 \/ p = 95 \/ p = 99
    BY DEF Percents
  <2> QED
    BY <1>4, <2>1
<1>6. Merged(m) >= target
  <2>1. CASE m = Buckets
    BY <1>1, <1>4, <1>5, <2>1, MergedIsRequests
  <2>2. CASE m # Buckets
    BY <1>2, <2>2 DEF S
  <2> QED
    BY <2>1, <2>2
<1>7. ASSUME m > 1
      PROVE  m - 1 \in Bounds /\ Merged(m - 1) < target
  <2>1. m - 1 \in Bounds
    BY <1>3, <1>7, ContourAssumption DEF Bounds, ContourAssumption
  <2>2. m - 1 \notin S
    <3>1. m \in Nat /\ ~(m <= m - 1)
      BY <1>1, <1>3
    <3> QED
      BY <1>2, <3>1
  <2>3. Merged(m - 1) \in Nat
    BY <2>1, MergedIsRequests
  <2> QED
    BY <1>5, <2>1, <2>2, <2>3 DEF S
<1>8. /\ Merged(m) = RequestsUpTo(m) /\ Merged(m) \in Nat
      /\ m > 1 => Merged(m - 1) = RequestsUpTo(m - 1) /\ Merged(m - 1) \in Nat
  BY <1>3, <1>7, MergedIsRequests
<1> DEFINE share == totalCount * p
<1>9. share \in Int
  BY <1>4 DEF Percents
<1> HIDE DEF share, target
<1>10. /\ target * 100 <= share /\ share < target * 100 + 100 /\ target \in Nat
  BY <1>5 DEF share
<1>11. RequestsUpTo(m) * 100 > share - 100
  BY <1>6, <1>8, <1>9, <1>10
<1>12. m > 1 => RequestsUpTo(m - 1) * 100 < share
  BY <1>7, <1>8, <1>9, <1>10
<1> QED
  BY <1>3, <1>4, <1>11, <1>12 DEF share

(* What is shown was computed from the samples that are there.             *)
ShownFromSamples ==
  /\ samples \in [Clusters -> [Bounds -> Nat]]
  /\ \A p \in Percents :
       shown[p] > 0 => exit = "done" /\ shown[p] = percentileFromBuckets(p)

(* stats shows of each share the bucket in which it was reached            *)
(* (cmd_stats.go:113-131, 323-345).                                        *)
THEOREM PercentileCorrect == ToolSpec => []PercentileOfSamples
<1>1. ToolInit => ShownFromSamples
  BY ContourAssumption DEF ToolInit, ShownFromSamples, ContourAssumption
<1>2. ToolInv /\ ToolInv' /\ ShownFromSamples /\ [ToolNext]_toolVars => ShownFromSamples'
  <2> SUFFICES ASSUME ToolInv, ToolInv', ShownFromSamples, [ToolNext]_toolVars
               PROVE  ShownFromSamples'
    OBVIOUS
  <2>1. samples' \in [Clusters -> [Bounds -> Nat]]
    BY DEF ToolInv, ToolTypeOK
  <2>2. ASSUME UNCHANGED <<samples, shown>>, exit = "none" \/ exit' = exit
        PROVE  ShownFromSamples'
    <3>1. \A p \in Percents : percentileFromBuckets(p)' = percentileFromBuckets(p)
      BY <2>2 DEF percentileFromBuckets, totalCount, Merged, Cumulative
    <3>2. \A p \in Percents : shown'[p] > 0 => shown[p] > 0 /\ exit = "done"
      BY <2>2 DEF ShownFromSamples
    <3> QED
      BY <2>1, <2>2, <3>1, <3>2 DEF ShownFromSamples
  <2>3. CASE Fetch
    <3>1. exit = "none" /\ shown' = shown
      BY <2>3 DEF Fetch, MainStep
    <3> QED
      BY <2>1, <3>1 DEF ShownFromSamples
  <2>4. CASE Report
    <3>1. exit = "none" /\ exit' = "done" /\ samples' = samples
      BY <2>4 DEF Report, MainStep
    <3>2. \A p \in Percents : percentileFromBuckets(p)' = percentileFromBuckets(p)
      BY <3>1 DEF percentileFromBuckets, totalCount, Merged, Cumulative
    <3>3. \A p \in Percents : shown'[p] > 0 => shown'[p] = percentileFromBuckets(p)
      <4>1. CASE totalCount > 0
        BY <2>4, <4>1 DEF Report
      <4>2. CASE ~(totalCount > 0)
        BY <2>4, <3>1, <4>2 DEF Report, ShownFromSamples
      <4> QED
        BY <4>1, <4>2
    <3> QED
      BY <2>1, <3>1, <3>2, <3>3 DEF ShownFromSamples
  <2>5. CASE UNCHANGED toolVars
    BY <2>2, <2>5 DEF toolVars, statsVars
  <2>6. ASSUME ToolNext, ~Fetch, ~Report
        PROVE  UNCHANGED <<samples, shown>> /\ exit = "none"
    BY <2>6 DEF ToolNext, DumpStep, statsVars, MainStep, PoolStep, TickerStep, HandlerStep,
             withMetrics, TrafficEnds, StopTicker, CloseDone, FinalDump, FinalPrinted, Return,
             Send, Answer, TimeUp, Tick, TickDump, TickPrinted, TickerEnds, Signal, Interrupted,
             InterruptPrinted, Exit, RunStats, FetchFails
  <2> QED
    BY <2>2, <2>3, <2>4, <2>5, <2>6
<1>3. ShownFromSamples => PercentileOfSamples
  BY PercentileBracketed DEF ShownFromSamples, PercentileOfSamples
<1> QED
  BY <1>1, <1>2, <1>3, ToolInvariant, PTL DEF ToolSpec
=============================================================================
