\* A store fault under one worker and the other incidents.
SPECIFICATION FairSpec
CONSTANTS
  e1 = e1
  e2 = e2
  h1 = h1
  b1 = b1
  b2 = b2
  NoHost = NoHost
  NoIdentity = NoIdentity
  NoBody = NoBody
  NoRun = NoRun
  NoIncident = NoIncident
  Ids = {i1, i2}
  RunIds = {r1, r2}
  Identities = {e1, e2}
  Hosts = {h1}
  HostOf <- OneHostless
  Bodies = {b1, b2}
  MaxConcurrentRuns = 1
  MaxRunsPerHost = 1
  MaxDispatchAttempts = 2
  MaxEvents = 2
  MaxCrashes = 0
  MaxFaults = 1
PROPERTIES
  OthersNotStarved
CHECK_DEADLOCK FALSE
