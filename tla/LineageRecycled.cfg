\* A cage may exit before its children and its id may be forked again.
SPECIFICATION FairSpec
CONSTANTS
  Thread = {t1}
  Cage <- MCCage
  Root = 0
  NoParent = NoParent
  Questions <- MCQuestions
  Orphans = TRUE
  Reuse = TRUE
  MaxDepth = 3
PROPERTY WalkReturns
