SPECIFICATION ToolSpec
CONSTANTS
  Workers <- MCWorkers
  Clusters <- MCClusters
  Samples <- MCSamples
  Count = 3
  Buckets = 3
INVARIANTS
  PercentileIsOfARequest
CHECK_DEADLOCK FALSE
