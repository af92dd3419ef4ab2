SPECIFICATION PartsSpec
CONSTANTS
  Parts = {"grid", "page", "tiles", "summaries"}
  c1 = c1
  c2 = c2
  c3 = c3
  s1 = s1
  k1 = k1
  k2 = k2
  Chart <- ThreeCharts
  Saved <- Arrangements
  AskedWidths <- SomeWidths
  AskedHeights <- SomeHeights
  Columns = 12
  MinWidth = 4
  DefaultWidth = 4
  MinHeight = 3
  MaxHeight = 6
  DefaultHeight = 3
  MaxCharts = 2
  U16Max = 24
  Canvases <- TwoCanvases
  Away = Away
  Missing = Missing
  NoLayout = NoLayout
  Idle = Idle
  Asked = Asked
  MaxLayouts = 3
  MaxClicks = 1
  MaxSavesOut = 1
  Tiles = {t1, t2, t3}
  AllTiles = AllTiles
  Nothing = Nothing
  MaxLost = 1
  Summarized <- OneChart
  SummaryCharts <- OneChart
  NotRead = NotRead
  QueryIdle = QueryIdle
  QueryAsked = QueryAsked
  NoDialog = NoDialog
  MaxPrompts = 2
  MaxCalls = 2
SYMMETRY Interchangeable
INVARIANT PartsTypeOK
INVARIANT StaysTidy
INVARIANT BusyTileIsHeardOf
INVARIANT QuietPanelIsCurrent
INVARIANT TypedPromptIsKept
INVARIANT SavedWhereItBelongs
INVARIANT EditsStayOnShow
INVARIANT RestingShowsStored
