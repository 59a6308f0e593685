\* No cage outlives its parent; ids of exited cages are used again.
SPECIFICATION ThreeiSpec
CONSTANTS
  Thread = {t1, t2}
  Cage <- MCCage
  Root = 0
  NoParent = NoParent
  Questions <- MCQuestions
  Orphans = FALSE
  Reuse = TRUE
  MaxDepth = 2
  Requests <- MCRequests
  Ncheck = 1
  Hows <- MCHows
INVARIANTS CallTypeOK LeafInside DescendantsServed
PROPERTY CallsReturn
