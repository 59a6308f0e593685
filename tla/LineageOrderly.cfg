\* No cage outlives its parent; ids of exited cages are used again.
SPECIFICATION FairSpec
CONSTANTS
  Thread = {t1, t2}
  Cage <- MCCage
  Root = 0
  NoParent = NoParent
  Questions <- MCQuestions
  Orphans = FALSE
  Reuse = TRUE
  MaxDepth = 3
INVARIANTS TypeOK BitsAreAncestors DepthIsRank
PROPERTIES WalkMatchesBits TreeSpec WalkReturns
