SPECIFICATION Spec
CONSTANTS
  Workers = {w1, w2}
  MaxTokens = 2
  MaxLinks = 1
  MaxVersion = 1
  MaxFaults = 0
SYMMETRY Symmetry
INVARIANTS FamilyRevokedWhole
CHECK_DEADLOCK FALSE
