\* Two auto-execute commands on two hosts of one incident.
SPECIFICATION Spec
CONSTANTS
  planA = planA
  planB = planB
  planR = planR
  i1 = i1
  h1 = h1
  h2 = h2
  k1 = k1
  NoPlan = NoPlan
  Procs = {c1, c2}
  Plans = {planA, planB}
  Incidents = {i1}
  Hosts = {h1, h2}
  Components = {k1}
  Managed = {i1}
  RiskOf <- PairRisk
  IncidentOf <- PairIncident
  HostOf <- PairHost
  ComponentOf <- PairComponent
  Config <- TightConfig
  OperatorModes = {"enforced", "disabled"}
  OperatorScopes = {}
  Resolvable = {}
  MaxAge = 0
INVARIANTS
  AutoOncePerIncident
