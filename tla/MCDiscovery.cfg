SPECIFICATION DiscoverySpec
CONSTANTS
  web = web
  web2 = web2
  db = db
  app1 = app1
  app2 = app2
  db1 = db1
  host = host
  server = server
  shell = shell
  Filters <- MCFilters
  Comms <- MCComms
  Paths = {}
  Pods <- MCPods
  Containers <- MCContainers
  Pids <- MCPids
  HostProcess <- host
  PodOf <- MCPodOf
  PodMeta <- MCPodMeta
  CtrName <- MCCtrName
  MaxChurn = 4
INVARIANTS
  FoundWereRunning
  StableContainersFound
  LabelsIdentifyContainer
  AttachedProcesses
  OneContainerPerProcess
