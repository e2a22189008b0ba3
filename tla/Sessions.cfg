SPECIFICATION Spec
CONSTANTS
  Workers = {w1, w2}
  MaxTokens = 3
  MaxLinks = 1
  MaxVersion = 1
  MaxFaults = 1
SYMMETRY Symmetry
INVARIANTS TypeOK ChainNeverForks
PROPERTIES ResetEvicts KeepsRelay
CHECK_DEADLOCK FALSE
