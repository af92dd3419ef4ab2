SPECIFICATION Spec
CONSTANTS
  c1 = c1
  c2 = c2
  c3 = c3
  h1 = h1
  h2 = h2
  Cell <- ThreeCells
  Handler <- OneHandler
  MaxCells = 3
  MaxCharts = 1
  GivenOrders <- NoPlace
CHECK_DEADLOCK FALSE
PROPERTY MovesTheCell
