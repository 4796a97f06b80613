SPECIFICATION ToolSpec
CONSTANTS
  Workers <- MCWorkers
  Clusters <- MCClusters
  Samples <- MCSamples
  Count = 3
  Buckets = 3
INVARIANTS
  LastDumpComplete
  MetricsOnExit
  PercentileOfSamples
PROPERTIES
  SignalEndsTool
CHECK_DEADLOCK FALSE
