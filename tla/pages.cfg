SPECIFICATION PagesSpec
CONSTANTS
  aRequest = aRequest  aQuery = aQuery  anotherQuery = anotherQuery  aChart = aChart
  DataRequest <- OneRequest
  MaxSessions = 3
  MaxRows <- ListRows
  Matching = {1}
  PageSizes <- OneAndTwo
  SqlCells <- TwoQueries
  ChartCells <- OneChart
  NoCell = NoCell
  Texts = {"stored"}
  MaxUnderWay = 2
  MaxDeletions = 1
  MaxEdits = 3
  MaxSaves = 2
  Columns <- ColumnLikeAnAlias
  AggregateNames = {"sum"}
  SeriesLimit = 2
  ColorSlots = 2
  Charts = {c1, c2}
  NoChart = NoChart
  MaxChartRuns = 2
SYMMETRY Interchangeable
INVARIANT PagesTypeOK
INVARIANT NobodyWaitsForNothing
INVARIANT SignedOutStaysOut
INVARIANT SelectionIsOnShow
INVARIANT RunningHasCaller
INVARIANT EditsAreKept
INVARIANT ReopeningChangesNothing
INVARIANT OutputIsOfDrawnChart
CHECK_DEADLOCK FALSE
