---------------------------- MODULE MCDashboard ----------------------------
(***************************************************************************)
(* Instances for TLC of the dashboard: the grid on the service, and in the *)
(* browser the page, its tiles and its summaries.  They have no state in   *)
(* common: one of them, part, moves in a behaviour.                        *)
(***************************************************************************)
EXTENDS DashboardGrid, DashboardPage, DashboardTiles, SummaryPanel, TLC

CONSTANTS
  Parts,   \* those that a run looks at
  c1, c2, c3, k1, k2, s1

VARIABLE part
dashboardPartsVars == <<part, vars, dashboardVars, tilesVars, panelVars>>

ThreeCharts == {c1, c2, c3}

At(px, py, pw, ph) == [x |-> px, y |-> py, w |-> pw, h |-> ph]

\* Nothing; one chart, in the middle or near the end of the range; two side by side; two on
\* each other; one that sticks out of the columns.
Arrangements ==
  {[c \in {} |-> At(0, 0, 0, 0)],
   [c \in {c1} |-> At(4, 1, 6, 5)],
   [c \in {c1} |-> At(0, 22, 4, 3)],
   [c \in {c1, c2} |-> IF c = c1 THEN At(0, 0, 4, 3) ELSE At(6, 0, 6, 4)],
   [c \in {c1, c2} |-> At(2, 0, 4, 3)],
   [c \in {c2} |-> At(10, 0, 5, 3)]}

\* One that leaves room for a narrow chart beside it, and one that is too high.
SomeWidths == {7}
SomeHeights == {9}

OneChart == {s1}
\* Both have a layout at first; it may be taken away.
TwoCanvases == {k1, k2}
Interchangeable == Permutations(TwoCanvases)

PartsInit ==
  /\ part \in Parts
  /\ Init /\ (part # "grid" => DOMAIN layout = {})
  /\ DashboardInit /\ (part # "page" => grid = Blank(k1))
  /\ \A k \in Canvases : onDashboard[k] # NoLayout
  /\ TilesInit /\ (part # "tiles" => marked = {})
  /\ PanelInit

StillUnless(name, partVars) == part # name => UNCHANGED partVars

PartsNext ==
  /\ UNCHANGED part
  /\ StillUnless("grid", vars) /\ StillUnless("page", dashboardVars)
  /\ StillUnless("tiles", tilesVars) /\ StillUnless("summaries", panelVars)
  /\ \/ part = "grid" /\ Next
     \/ part = "page" /\ DashboardNext
     \/ part = "tiles" /\ TilesNext
     \/ part = "summaries" /\ PanelNext

PartsSpec == PartsInit /\ [][PartsNext]_dashboardPartsVars

\* Every variable of every part has its type.
PartsTypeOK == TypeOK /\ DashboardPageTypeOK /\ TilesTypeOK /\ PanelTypeOK
=============================================================================
