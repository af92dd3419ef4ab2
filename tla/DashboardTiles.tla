--------------------------- MODULE DashboardTiles ---------------------------
(***************************************************************************)
(* Running the charts of a dashboard.                                      *)
(*                                                                         *)
(* Every tile has a hook of its own and runs its chart when it comes on    *)
(* show; the button that refreshes all charts has one hook for all of      *)
(* them.  As in NotebookRuns a mark in a store says that a chart runs, the *)
(* callback of the request takes it off, and only the last request of a    *)
(* hook that is on show is called back.  The layout does not change here.  *)
(***************************************************************************)
EXTENDS Naturals, FiniteSets

CONSTANTS
  Tiles,         \* the charts of the dashboard
  AllTiles,      \* the hook of the button that refreshes all
  Nothing,
  MaxLost        \* bound: requests of one chart that nobody will hear of

ASSUME DashboardTilesAssumption ==
  /\ AllTiles \notin Tiles /\ Nothing \notin Tiles /\ MaxLost \in Nat
  /\ IsFiniteSet(Tiles)

VARIABLES
  visible,       \* the dashboard is on show
  marked,        \* executionStates: the charts that are RUNNING
  awaits,        \* the chart each hook is to hear of
  lost,          \* the requests whose hook will not hear, for each chart
  drawn,         \* the charts with an output in the query cache
  overtaken      \* history: refreshed with others since the dashboard came on show, but not last
tilesVars == <<visible, marked, awaits, lost, drawn, overtaken>>

Hooks == Tiles \cup {AllTiles}
MayBeLost == \A t \in Tiles : lost[t] < MaxLost

\* A chart may be running in the notebook when the dashboard is first opened.
TilesInit ==
  /\ visible = FALSE /\ marked \in SUBSET Tiles
  /\ awaits = [k \in Hooks |-> Nothing] /\ lost = [t \in Tiles |-> 0]
  /\ drawn = {} /\ overtaken = {}

\* Mutant of ShowTiles: what has an output already is not run again.
ShowTilesOnce ==
  /\ ~visible /\ visible' = TRUE
  /\ marked' = marked \cup (Tiles \ drawn)
  /\ awaits' = [k \in Hooks |-> IF k \in Tiles \ drawn THEN k ELSE Nothing]
  /\ overtaken' = {}
  /\ UNCHANGED <<lost, drawn>>

\* The effect of each tile.
ShowTiles ==
  /\ ~visible /\ visible' = TRUE
  /\ marked' = Tiles
  /\ awaits' = [k \in Hooks |-> IF k \in Tiles THEN k ELSE Nothing]
  /\ overtaken' = {}
  /\ UNCHANGED <<lost, drawn>>

HideTiles ==
  /\ visible /\ visible' = FALSE /\ MayBeLost
  /\ awaits' = [k \in Hooks |-> Nothing]
  /\ lost' = [t \in Tiles |-> lost[t] + Cardinality({k \in Hooks : awaits[k] = t})]
  /\ UNCHANGED <<marked, drawn, overtaken>>

\* A button that is busy cannot be pressed.
RefreshTile(t) ==
  /\ visible /\ t \notin marked /\ marked' = marked \cup {t}
  /\ awaits' = [awaits EXCEPT ![t] = t]
  /\ UNCHANGED <<visible, lost, drawn, overtaken>>

\* One request after another by the same hook: it hears of the last.
RefreshAll(last) ==
  /\ visible /\ marked = {} /\ marked' = Tiles
  /\ MayBeLost
  /\ awaits' = [awaits EXCEPT ![AllTiles] = last]
  /\ lost' = [t \in Tiles |-> IF t = last THEN lost[t] ELSE lost[t] + 1]
  /\ overtaken' = Tiles \ {last}
  /\ UNCHANGED <<visible, drawn>>

HookHears(k) ==
  /\ awaits[k] # Nothing
  /\ awaits' = [awaits EXCEPT ![k] = Nothing]
  /\ marked' = marked \ {awaits[k]} /\ drawn' = drawn \cup {awaits[k]}
  /\ UNCHANGED <<visible, lost, overtaken>>

NobodyHears(t) ==
  /\ lost[t] > 0 /\ lost' = [lost EXCEPT ![t] = @ - 1]
  /\ drawn' = drawn \cup {t}
  /\ UNCHANGED <<visible, marked, awaits, overtaken>>

TilesNext ==
  \/ ShowTiles \/ HideTiles
  \/ \E t \in Tiles : RefreshTile(t) \/ RefreshAll(t) \/ NobodyHears(t)
  \/ \E k \in Hooks : HookHears(k)

TilesSpec == TilesInit /\ [][TilesNext]_tilesVars

-----------------------------------------------------------------------------
(* Properties.                                                             *)

TilesTypeOK ==
  /\ visible \in BOOLEAN
  /\ marked \subseteq Tiles /\ drawn \subseteq Tiles /\ overtaken \subseteq Tiles
  /\ awaits \in [Hooks -> Tiles \cup {Nothing}]
  /\ lost \in [Tiles -> 0 .. MaxLost + 1]

\* A chart on show that is marked as running, and so cannot be refreshed, will be unmarked:
\* a hook is to hear of it.  The exceptions are the charts refreshed together, but for the
\* last of them: they stay marked, and with them the button that refreshes all stays busy,
\* until the dashboard is left and opened again.
BusyTileIsHeardOf ==
  visible => marked \subseteq overtaken \cup {awaits[k] : k \in Hooks}

=============================================================================
