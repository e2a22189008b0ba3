SPECIFICATION Spec
CONSTANTS
  cable = cable
  lamp = lamp
  Products = {cable, lamp}
  OneOff = OneOff
  Operators = {ann}
  Carts <- CrossingCarts
  Quantities <- Movements
  Figures = {0, 2}
  Workers = {w1, w2}
  MaxSales = 2
  MaxTills = 1
  MaxHeld = 2
SYMMETRY Symmetry
CONSTRAINT Explored
INVARIANTS TypeOK NeverOversold SaleIsWhole
PROPERTIES KeepsShop
