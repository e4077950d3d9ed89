SPECIFICATION FairSpec
CONSTANTS
  client = client
  generic = generic
  endpoint = endpoint
  Procs = {p1, p2}
  PlanIds = {d1, d2}
  Target = target
  Edits = {other}
  Steps <- ClientSteps
  Comp <- ClientComp
  Kind <- ClientKind
  References = {}
  Client = client
  ShortName = FALSE
  MaxFaults = 1
  None = None
INVARIANTS
  ZeroResidueBeforeRemoval
  NoSilentRemoval
  ReceiptMeansGone
  EditsKept
PROPERTY EventuallyRemoved
