\* Two identities on one host: events, a crash and a store fault at any point,
\* and, without a fault, the backlog drains.
SPECIFICATION FairSpec
CONSTANTS
  e1 = e1
  e2 = e2
  h1 = h1
  b1 = b1
  b2 = b2
  NoHost = NoHost
  NoIdentity = NoIdentity
  NoBody = NoBody
  NoRun = NoRun
  NoIncident = NoIncident
  Ids = {i1, i2, i3}
  RunIds = {r1, r2}
  Identities = {e1, e2}
  Hosts = {h1}
  HostOf <- SameHost
  Bodies = {b1, b2}
  MaxConcurrentRuns = 2
  MaxRunsPerHost = 1
  MaxDispatchAttempts = 2
  MaxEvents = 3
  MaxCrashes = 1
  MaxFaults = 1
INVARIANTS
  ControllerInv
  OneActiveIncident
  RunsMatchIncidents
  ConcurrencyBounded
  ActiveRunsOwned
  FailedAfterBudget
PROPERTIES
  BacklogDrains
CHECK_DEADLOCK FALSE
