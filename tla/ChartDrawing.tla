---------------------------- MODULE ChartDrawing ----------------------------
(***************************************************************************)
(* Which chart a chart cell draws.                                         *)
(*                                                                         *)
(* The output of a chart is the result of a query made of a chart content, *)
(* and it is drawn with a chart content.  They are kept in two places, the *)
(* query cache and the store, and change at different moments: the store   *)
(* when the form is run, and when the cell comes on show with nothing in   *)
(* the store; the cache when any run of the cell is answered.              *)
(*                                                                         *)
(* Contents are told apart, no more.  Who runs the cell and which callers  *)
(* hear the answer is in NotebookRuns.                                     *)
(***************************************************************************)
EXTENDS Naturals

CONSTANTS Charts, NoChart,   \* contents of the cell
          MaxChartRuns       \* bound: runs of one content under way at once

ASSUME ChartDrawingAssumption ==
  Charts # {} /\ NoChart \notin Charts /\ MaxChartRuns \in Nat

VARIABLES
  onShow,        \* the cell's editor is on show
  storedChart,   \* the content of the cell
  formChart,     \* what the form makes of its values
  drawnChart,    \* chartContents
  outputOf,      \* the content the output in the query cache was computed from
  busy,          \* the cell is marked as running
  ofStored,      \* runs of the stored content that have not read it yet
  ofChart,       \* runs that compute each content
  mixedUp        \* history: a run may leave the output of another content than is drawn
drawingVars == <<onShow, storedChart, formChart, drawnChart, outputOf, busy, ofStored, ofChart, mixedUp>>

\* No run is under way.
AllAnswered == ofStored = 0 /\ \A c \in Charts : ofChart[c] = 0

\* Room for another run.
MayRun == \A c \in Charts : ofStored + ofChart[c] < MaxChartRuns

DrawingInit ==
  /\ onShow = FALSE
  /\ storedChart \in Charts \cup {NoChart} /\ formChart = storedChart
  /\ drawnChart = NoChart /\ outputOf = NoChart
  /\ busy = FALSE /\ ofStored = 0 /\ ofChart = [c \in Charts |-> 0]
  /\ mixedUp = FALSE

\* executeCell: the server will read the content, c.
AskStored(c, drawn) ==
  /\ MayRun
  /\ ofStored' = ofStored + 1 /\ busy' = TRUE
  /\ mixedUp' = (drawn # c \/ ~AllAnswered)
  /\ UNCHANGED ofChart

\* useChartCellAutoLoad.  A cell without a content has no source to run.
ShowChart ==
  /\ ~onShow /\ onShow' = TRUE
  /\ formChart' = storedChart
  /\ drawnChart' = IF drawnChart = NoChart THEN storedChart ELSE drawnChart
  /\ IF storedChart # NoChart
     THEN AskStored(storedChart, drawnChart')
     ELSE UNCHANGED <<ofStored, ofChart, busy, mixedUp>>
  /\ UNCHANGED <<storedChart, outputOf>>

HideChart ==
  /\ onShow /\ onShow' = FALSE
  /\ UNCHANGED <<storedChart, formChart, drawnChart, outputOf, busy, ofStored, ofChart, mixedUp>>

EditChart(c) ==
  /\ onShow /\ c # formChart /\ formChart' = c
  /\ UNCHANGED <<onShow, storedChart, drawnChart, outputOf, busy, ofStored, ofChart, mixedUp>>

\* handleSubmit, as the server does it.  Stored for the first time, or with another source,
\* the chart is run; the content in the store is set when there is none.
StoreForm(rerun) ==
  /\ onShow /\ formChart # NoChart
  /\ storedChart' = formChart
  /\ drawnChart' = IF drawnChart = NoChart THEN formChart ELSE drawnChart
  /\ storedChart = NoChart => rerun
  /\ IF rerun
     THEN AskStored(formChart, drawnChart')
     ELSE /\ mixedUp' = (mixedUp \/ (ofStored > 0 /\ formChart # storedChart))
          /\ UNCHANGED <<ofStored, ofChart, busy>>
  /\ UNCHANGED <<onShow, formChart, outputOf>>

\* Mutant of RunPreview: the output will be of the form, the content drawn is not.
RunPreviewOnly ==
  /\ onShow /\ ~busy /\ formChart # NoChart /\ MayRun
  /\ ofChart' = [ofChart EXCEPT ![formChart] = @ + 1] /\ busy' = TRUE
  /\ mixedUp' = ~AllAnswered
  /\ UNCHANGED <<onShow, storedChart, formChart, outputOf, ofStored, drawnChart>>

\* ChartRunButton.
RunPreview ==
  /\ onShow /\ ~busy /\ formChart # NoChart /\ MayRun
  /\ ofChart' = [ofChart EXCEPT ![formChart] = @ + 1] /\ busy' = TRUE
  /\ drawnChart' = formChart
  /\ mixedUp' = ~AllAnswered
  /\ UNCHANGED <<onShow, storedChart, formChart, outputOf, ofStored>>

\* The shortcut.
RunStored ==
  /\ onShow /\ storedChart # NoChart
  /\ AskStored(storedChart, drawnChart)
  /\ UNCHANGED <<onShow, storedChart, formChart, drawnChart, outputOf>>

StoredRead ==
  /\ ofStored > 0
  /\ ofStored' = ofStored - 1
  /\ ofChart' = [ofChart EXCEPT ![storedChart] = @ + 1]
  /\ UNCHANGED <<onShow, storedChart, formChart, drawnChart, outputOf, busy, mixedUp>>

\* Answers come in any order.  The mark stays on when no caller hears.
ChartAnswered(c) ==
  /\ ofChart[c] > 0
  /\ ofChart' = [ofChart EXCEPT ![c] = @ - 1]
  /\ outputOf' = c
  /\ busy' \in {FALSE, busy}
  /\ UNCHANGED <<onShow, storedChart, formChart, drawnChart, ofStored, mixedUp>>

ClearDrawing ==
  /\ onShow /\ ~busy /\ outputOf' = NoChart
  /\ UNCHANGED <<onShow, storedChart, formChart, drawnChart, busy, ofStored, ofChart, mixedUp>>

DrawingNext ==
  \/ ShowChart \/ HideChart \/ RunPreview \/ RunStored \/ StoredRead \/ ClearDrawing
  \/ \E c \in Charts : EditChart(c) \/ ChartAnswered(c)
  \/ \E rerun \in BOOLEAN : StoreForm(rerun)

DrawingSpec == DrawingInit /\ [][DrawingNext]_drawingVars

-----------------------------------------------------------------------------
(* Properties.                                                             *)

DrawingTypeOK ==
  /\ onShow \in BOOLEAN /\ busy \in BOOLEAN /\ mixedUp \in BOOLEAN
  /\ {storedChart, formChart, drawnChart, outputOf} \subseteq Charts \cup {NoChart}
  /\ ofStored \in 0 .. MaxChartRuns /\ ofChart \in [Charts -> 0 .. MaxChartRuns]

\* Once every run of a chart is answered its output is drawn with the content it was
\* computed from.  It is not when the stored chart was run, by opening the notebook or by
\* the shortcut, while another content was in the store, one that was run and not saved or
\* one from before a save; nor when runs overlapped, whose answers come in any order, or
\* the chart was saved while a run of it was on its way.
OutputIsOfDrawnChart ==
  outputOf # NoChart /\ AllAnswered /\ ~mixedUp => outputOf = drawnChart

=============================================================================
