SPECIFICATION ScrapeSpec
CONSTANTS
  web = web
  app1 = app1
  app2 = app2
  host = host
  server = server
  shell = shell
  data = data
  logs = logs
  scratch = scratch
  memory = memory
  none = none
  Filters <- MCFilters
  Comms <- MCComms
  Paths <- MCPaths
  Pods <- MCPods
  Containers <- MCContainers
  Pids <- MCPids
  HostProcess <- host
  PodOf <- MCPodOf
  PodMeta <- MCPodMeta
  CtrName <- MCCtrName
  MaxChurn = 2
  CgroupMetrics = {memory}
  Mounts <- MCMounts
  Malformed = {scratch}
  Nothing <- none
  InvalidUTF8 <- MCInvalidUTF8
  MaxFaults = 0
INVARIANT FilesAreMeasured
