SPECIFICATION Spec
CONSTANTS
  c1 = c1
  c2 = c2
  c3 = c3
  h1 = h1
  h2 = h2
  Cell <- ThreeCells
  Handler <- TwoHandlers
  MaxCells = 2
  MaxCharts = 1
  GivenOrders <- FirstPlace
CHECK_DEADLOCK FALSE
SYMMETRY Interchangeable
INVARIANT PlacesAreDistinct ReorderRenumbers LimitExceededByOverlapOnly DanglingByStaleSaveOnly
