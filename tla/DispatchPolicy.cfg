SPECIFICATION Spec
CONSTANTS
  Thread = {t1, t2}
  Installer = {i1}
  Cage <- MCCage
  GrateBase = 100
  MaxGrates = 0
  Lengths = {}
  NArgs = 2
  Subtree <- MCSubtree
  Granted <- MCGranted
  Allowlist = {2}
  NoProgram = NoProgram
  NoChain = NoChain
  Policies <- PolicyPolicies
  Nchecks <- PolicyNchecks
  Offers <- PolicyOffers
  Requests <- PolicyRequests
  Current = {}
  Modes <- PolicyModes
  MaxDenied = 1
INVARIANT AbortMeansMisuse
PROPERTY PolicyRespected
SYMMETRY Alike
\* An aborted process takes no step.
CHECK_DEADLOCK FALSE
