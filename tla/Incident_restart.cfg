\* A restart and the retry budget of the incident it interrupted.
SPECIFICATION Spec
CONSTANTS
  e1 = e1
  e2 = e2
  h1 = h1
  b1 = b1
  b2 = b2
  NoHost = NoHost
  NoIdentity = NoIdentity
  NoBody = NoBody
  NoRun = NoRun
  NoIncident = NoIncident
  Ids = {i1}
  RunIds = {r1, r2}
  Identities = {e1, e2}
  Hosts = {h1}
  HostOf <- OneHostless
  Bodies = {b1, b2}
  MaxConcurrentRuns = 1
  MaxRunsPerHost = 1
  MaxDispatchAttempts = 2
  MaxEvents = 1
  MaxCrashes = 1
  MaxFaults = 0
INVARIANTS
  RestartsNotCounted
CHECK_DEADLOCK FALSE
