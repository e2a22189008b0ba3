SPECIFICATION Spec
CONSTANTS
  lamp = lamp
  main = main
  other = other
  Products = {lamp}
  NoProduct = NoProduct
  Orders = {main, other}
  Lists <- MainGrows
  Deliveries <- InParts
  Floor = 2
  Workers = {w1, w2}
  MaxLines = 2
  MaxDrafts = 2
  MaxAsks = 2
  MaxFaults = 1
CHECK_DEADLOCK FALSE
SYMMETRY Symmetry
CONSTRAINT Explored
PROPERTIES KeepsDock
INVARIANTS TypeOK OrdersAgreeInTurn ApprovedAsIssuedInTurn ShelfHoldsReceipts
