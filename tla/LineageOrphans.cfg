\* A cage may exit before its children.
SPECIFICATION Spec
CONSTANTS
  Thread = {t1}
  Cage <- MCCage
  Root = 0
  NoParent = NoParent
  Questions <- MCQuestions
  Orphans = TRUE
  Reuse = FALSE
  MaxDepth = 3
INVARIANT BitsAreAncestors
