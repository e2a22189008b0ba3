SPECIFICATION Spec
CONSTANTS
  lamp = lamp
  main = main
  other = other
  Products = {lamp}
  NoProduct = NoProduct
  Orders = {main}
  Lists <- MainGrows
  Deliveries <- InParts
  Floor = 4
  Workers = {w1, w2}
  MaxLines = 2
  MaxDrafts = 1
  MaxAsks = 1
  MaxFaults = 0
CHECK_DEADLOCK FALSE
INVARIANTS ReceivedWithinOrder
