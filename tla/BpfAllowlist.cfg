SPECIFICATION Spec
CONSTANTS
  Word <- MCWord
  BitAnd <- MCAnd
  Cage <- MCCage
  NArgs = 2
  MaxLen = 13
  Byte = 256
  NoProgram = NoProgram
  Programs <- AllowPrograms
  Contexts <- MCContexts
  Lineages <- MCLineages
INVARIANT AllowlistDecides
\* A panic ends the process.
CHECK_DEADLOCK FALSE
