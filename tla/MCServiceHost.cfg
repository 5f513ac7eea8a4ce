SPECIFICATION Spec
CONSTANTS
  NumInstances = 2
  NumServers = 2
  Callers = {c1, c2, c3}
  Handlers = {h1}
  CallCap = 1
  Containers <- MCContainers
  Paths <- MCPaths
  Priorities = {0, 1}
  Deployments <- MCDeployments
  None = None
INVARIANTS TypeOK ServersFollowStatus 
PROPERTIES StoppedServersEnd CallsReturn
