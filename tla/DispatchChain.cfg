\* One thread: chains are thread-local, so another thread matters to this one
\* only as the register_* calls it makes, which interleave here anyway.
SPECIFICATION FairSpec
CONSTANTS
  Thread = {t1}
  Installer = {i1}
  Cage <- MCCage
  GrateBase = 100
  MaxGrates = 2
  Lengths = {1, 2}
  NArgs = 2
  Subtree <- MCSubtree
  Granted <- MCGranted
  Allowlist = {2}
  NoProgram = NoProgram
  NoChain = NoChain
  Policies <- ChainPolicies
  Nchecks = {}
  Offers <- ChainOffers
  Requests <- ChainRequests
  Current = {2}
  Modes <- AllModes
  MaxDenied = 1
INVARIANTS TypeOK VmctxAccounted AbortMeansMisuse DenialsTold
PROPERTIES ServiceSpec CallsEnd
\* An aborted process takes no step.
CHECK_DEADLOCK FALSE
