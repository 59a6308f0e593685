SPECIFICATION HarnessSpec
CONSTANTS
  Thread <- MCThread
  Installer = {0}
  Cage <- MCCage
  GrateBase = 100
  MaxGrates = 2
  Lengths = {0, 1, 2}
  NArgs = 2
  Subtree <- MCSubtree
  Granted <- MCGranted
  Allowlist <- MCAllow
  NoProgram = NoProgram
  NoChain = NoChain
  Policies <- MCPolicies
  Nchecks = {0, 2, 3}
  Offers <- MCOffers
  Requests <- MCRequests
  Current <- MCCage
  Modes <- MCModes
  MaxDenied = 10
  Main = 0
  Self = 1
  Depth = 1
  First = 900
  MaxCages = 901
  Arguments <- MCArguments
  Reps = 2
INVARIANTS HarnessTypeOK NoCrash AsLabelled
PROPERTY RunsThrough
\* The program ends.
CHECK_DEADLOCK FALSE
