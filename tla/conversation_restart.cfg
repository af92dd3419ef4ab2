SPECIFICATION Spec
CONSTANTS
  h1 = h1
  h2 = h2
  Handlers <- OneHandler
  MaxUserMessages = 1
  Outcomes <- GoodOrBad
  MaxFaults = 1
CHECK_DEADLOCK FALSE
PROPERTY WaitingIsEnough
