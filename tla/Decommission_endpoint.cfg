SPECIFICATION Spec
CONSTANTS
  client = client
  generic = generic
  endpoint = endpoint
  Procs = {p1}
  PlanIds = {d1, d2}
  Target = target
  Edits = {other}
  Steps <- EndpointSteps
  Comp <- EndpointComp
  Kind <- EndpointKind
  References = {endpoint}
  Client = client
  ShortName = FALSE
  MaxFaults = 1
  None = None
INVARIANT ZeroResidueBeforeRemoval
