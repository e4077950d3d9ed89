\* One process at a time, which may crash: what the policy guards guarantee.
SPECIFICATION Spec
CONSTANTS
  planA = planA
  planB = planB
  planR = planR
  i1 = i1
  h1 = h1
  h2 = h2
  k1 = k1
  NoPlan = NoPlan
  Procs = {c1}
  Plans = {planA, planB}
  Incidents = {i1}
  Hosts = {h1}
  Components = {k1}
  Managed = {i1}
  RiskOf <- PairRisk
  IncidentOf <- PairIncident
  HostOf <- SameHost
  ComponentOf <- PairComponent
  Config <- TightConfig
  OperatorModes = {"enforced"}
  OperatorScopes <- ReachedScopes
  Resolvable = {i1}
  MaxAge = 3
INVARIANTS
  TypeOK
PROPERTIES
  PolicyApprovalWithinBudget
  NoPolicyApprovalAfterRejection
