\* Two processes, one plan of each family, crashes at every step.
SPECIFICATION Spec
CONSTANTS
  planA = planA
  planB = planB
  planR = planR
  i1 = i1
  h1 = h1
  h2 = h2
  k1 = k1
  NoPlan = NoPlan
  Procs = {c1, c2}
  Plans = {planA, planR}
  Incidents = {i1}
  Hosts = {h1}
  Components = {k1}
  Managed = {i1}
  RiskOf <- MixedRisk
  IncidentOf <- MixedIncident
  HostOf <- MixedHost
  ComponentOf <- MixedComponent
  Config <- TightConfig
  OperatorModes = {"enforced", "disabled"}
  OperatorScopes = {}
  Resolvable = {}
  MaxAge = 0
INVARIANTS
  ExecutionInv
  ApplyAtMostOnce
  AppliedOnlyIfApproved
  RunMatchesState
PROPERTIES
  ImplementsLifecycle
CHECK_DEADLOCK TRUE
