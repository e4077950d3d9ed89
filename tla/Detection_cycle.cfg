\* One host, two faults of any kind at any point.
SPECIFICATION Spec
CONSTANTS
  t1 = t1
  t2 = t2
  dashboard = dashboard
  teams = teams
  Threads = {t1, t2}
  Hosts = {1}
  Scores = {0, 70, 100}
  Channels = {dashboard}
  WarningWindow = 1
  WarningRequired = 1
  CriticalCycles = 2
  RecoveryCycles = 2
  Interval = 1
  EvaluationDelay = 2
  RefreshWindow = 2
  Horizon = 6
  LeaseDuration = 2
  Backoffs <- ShortLadder
  MaxSignals = 2
  MaxRows = 5
  MaxTime = 6
  MaxFaults = 2
INVARIANTS
  TypeOK
  OneActiveEpisode
  MemoryFollowsStore
  EscalationOrder
  StaleAlertsExpire
  SteadyAlertKept
PROPERTIES
  SettledForever
CHECK_DEADLOCK FALSE
SYMMETRY ThreadSymmetry
