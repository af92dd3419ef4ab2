SPECIFICATION Spec
CONSTANTS
  h1 = h1
  h2 = h2
  Handlers <- TwoHandlers
  MaxUserMessages = 2
  Outcomes <- GoodOrBad
  MaxFaults = 1
CHECK_DEADLOCK FALSE
INVARIANT SequenceHasNoGaps LimitExceededByOverlapOnly
PROPERTY BusyEndsWithoutFaults
