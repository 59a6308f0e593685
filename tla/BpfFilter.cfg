SPECIFICATION FairSpec
CONSTANTS
  Word <- MCWord
  BitAnd <- MCAnd
  Cage <- MCCage
  NArgs = 2
  MaxLen = 13
  Byte = 256
  NoProgram = NoProgram
  Programs <- MCPrograms
  Contexts <- MCContexts
  Lineages <- MCLineages
INVARIANTS TypeOK BoundedExecution VerifiedStaysInside SubtreeCheckFaithful
PROPERTY RunsEnd
\* A panic ends the process.
CHECK_DEADLOCK FALSE
