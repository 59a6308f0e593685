SPECIFICATION Spec
CONSTANTS
  Thread = {t1, t2}
  Cage <- MCCage
  Edits <- MCEdits
  Forks <- MCForks
  Questions <- MCQuestions
INVARIANTS TypeOK FlavoursAgree
PROPERTIES EditsTake SetsSpec BitsSpec
SYMMETRY Alike
