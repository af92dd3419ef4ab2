---------------------------- MODULE NotebookRuns ----------------------------
(***************************************************************************)
(* Running the cells of a notebook in the browser.                         *)
(*                                                                         *)
(* A cell is marked as running in a store that outlives the page, and the  *)
(* mark is taken off by a callback given to the request that runs it.  The *)
(* callback belongs to the caller, one per hook on the page: it is called  *)
(* only while that component is on show and has sent no other request      *)
(* since.  The output itself is put in the query cache whoever called.     *)
(*                                                                         *)
(* A chart cell runs when the notebook opens, and so does the cell it      *)
(* draws from, whose columns its form offers.  The shortcuts act on the    *)
(* cell clicked last, which is any cell on show.  The 300 ms before a run  *)
(* is shown, the dialog before a deletion, and whether a run failed are    *)
(* left out: an error is an output.                                        *)
(***************************************************************************)
EXTENDS Naturals, FiniteSets

CONSTANTS
  SqlCells, ChartCells, NoCell,
  Texts,         \* what of a query is run: the "stored" text, the "selected" one, or both
  MaxUnderWay,   \* bound: runs under way at once
  MaxDeletions   \* bound: deletions under way at once

ASSUME NotebookRunsAssumption ==
  /\ SqlCells \cap ChartCells = {} /\ NoCell \notin SqlCells \cup ChartCells
  /\ IsFiniteSet(SqlCells) /\ IsFiniteSet(ChartCells) /\ IsFiniteSet(Texts)
  /\ MaxUnderWay \in Nat /\ MaxDeletions \in Nat

VARIABLES
  mounted,       \* the notebook is on show
  running,       \* executionStates: the cells that are RUNNING
  outputs,       \* the cells with an output in the query cache
  hears,         \* the cell each caller waits to hear of
  unheard,       \* the requests whose caller will not hear, for each cell
  listed,        \* the cells of the notebook
  deletions,     \* the requests to delete a cell
  source,        \* sourceCellId of each chart's form
  chosen,        \* the source each chart has stored
  silenced       \* history: cells whose caller went before the answer
runsVars == <<mounted, running, outputs, hears, unheard, listed, deletions,
              source, chosen, silenced>>

charts == <<source, chosen>>

Cells == SqlCells \cup ChartCells

\* One caller for each use of useExecuteCell and useExecuteCellPreview.
Callers ==
  [place : {"keyboard"}, cell : {NoCell}, text : Texts]
    \cup [place : {"toolbar"}, cell : SqlCells, text : Texts]
    \cup [place : {"source", "load"}, cell : ChartCells, text : {"stored"}]
    \cup [place : {"form"}, cell : ChartCells, text : {"form"}]

Caller(place, c, text) == [place |-> place, cell |-> c, text |-> text]

Heard(c) == \E b \in Callers : hears[b] = c

\* The requests under way: one for each caller who waits, and those nobody hears of.
Waiting == {b \in Callers : hears[b] # NoCell}
Forgotten == {r \in Cells \X (1 .. MaxUnderWay) : r[2] <= unheard[r[1]]}
HowMany == Cardinality(Waiting) + Cardinality(Forgotten)

Shown == IF mounted THEN listed ELSE {}

-----------------------------------------------------------------------------
(* What a cell shows.                                                      *)

\* CellOutput, of a query and of a chart.
OutputShown(c) ==
  CASE c \notin outputs /\ c \in running -> "skeleton"
    [] c \notin outputs /\ c \notin running -> "nothing"
    [] c \in outputs /\ c \in running -> "dimmed"
    [] c \in outputs /\ c \notin running -> "output"

\* CellToolbar: while the cell runs a spinner takes the place of the play button.
ToolbarOf(c) == IF c \in running THEN {} ELSE {"clear", "play"}

\* The form of a chart waits for the columns of its source.
ReadOnly(h) ==
  source[h] # NoCell /\ (source[h] \in running \/ source[h] \notin outputs)

-----------------------------------------------------------------------------
(* Callers come and go.                                                    *)

Count(c, gone) == Cardinality({b \in gone : hears[b] = c})

\* The callers in gone are off the page, or busy with another request from now on.
Gone(gone) ==
  /\ hears' = [b \in Callers |-> IF b \in gone THEN NoCell ELSE hears[b]]
  /\ unheard' = [c \in Cells |-> unheard[c] + Count(c, gone)]
  /\ silenced' = silenced \cup ({hears[b] : b \in gone} \ {NoCell})

\* Each caller b in starts sends a request to run starts[b].
Send(starts) ==
  /\ HowMany + Cardinality(DOMAIN starts) <= MaxUnderWay
  /\ hears' = [b \in Callers |-> IF b \in DOMAIN starts THEN starts[b] ELSE hears[b]]
  /\ unheard' = [c \in Cells |-> unheard[c] + Count(c, DOMAIN starts)]
  /\ silenced' = silenced \cup ({hears[b] : b \in DOMAIN starts} \ {NoCell})
  /\ running' = running \cup {starts[b] : b \in DOMAIN starts}

\* useStartCellExecution: one request.
Run(c, b) == Send([x \in {b} |-> c])

\* useSourceCellExecution and useChartCellAutoLoad: the charts in hs come on show.
LoadCharts(hs, from) ==
  LET loaded == {h \in hs : from[h] # NoCell} IN
  [b \in {Caller("source", h, "stored") : h \in loaded} \cup {Caller("load", h, "stored") : h \in loaded} |->
     IF b.place = "source" THEN from[b.cell] ELSE b.cell]

\* The callers of a cell's own component.
CallersOf(cs) == {b \in Callers : b.cell \in cs}

RunsInit ==
  /\ mounted = FALSE /\ running = {} /\ outputs = {}
  /\ hears = [b \in Callers |-> NoCell] /\ unheard = [c \in Cells |-> 0]
  /\ listed = Cells
  /\ deletions = {}
  /\ chosen \in [ChartCells -> SqlCells \cup {NoCell}] /\ source = chosen
  /\ silenced = {}

OpenNotebook ==
  /\ ~mounted /\ mounted' = TRUE
  /\ source' = chosen
  /\ Send(LoadCharts(ChartCells \cap listed, chosen))
  /\ UNCHANGED <<outputs, listed, deletions, chosen>>

\* Another view of the canvas, or another page.
LeaveNotebook ==
  /\ mounted /\ mounted' = FALSE
  /\ deletions' = {[d EXCEPT !.heard = FALSE] : d \in deletions}
  /\ Gone(Callers)
  /\ UNCHANGED <<running, outputs, listed, charts>>

-----------------------------------------------------------------------------
(* Running and clearing.                                                   *)

\* The play button runs the text selected in the editor, or the stored text.
PressPlay(c, text) ==
  /\ c \in Shown \cap SqlCells /\ "play" \in ToolbarOf(c)
  /\ Run(c, Caller("toolbar", c, text))
  /\ UNCHANGED <<mounted, outputs, listed, deletions, charts>>

\* The shortcut does not look at whether the cell runs.  A chart has no text to select.
ShortcutRun(c, text) ==
  /\ c \in Shown /\ (text = "selected" => c \in SqlCells)
  /\ Run(c, Caller("keyboard", NoCell, text))
  /\ UNCHANGED <<mounted, outputs, listed, deletions, charts>>

\* ChartRunButton: a preview of what the form holds.
RunForm(h) ==
  /\ h \in Shown \cap ChartCells /\ h \notin running
  /\ Run(h, Caller("form", h, "form"))
  /\ UNCHANGED <<mounted, outputs, listed, deletions, charts>>

\* Mutant of AnswerHeard: the answer is put in the cache and the mark is left on.
AnswerHeardKeepsMark(b) ==
  /\ hears[b] # NoCell
  /\ hears' = [hears EXCEPT ![b] = NoCell]
  /\ outputs' = outputs \cup {hears[b]}
  /\ silenced' = silenced \ {hears[b]}
  /\ UNCHANGED <<mounted, running, unheard, listed, deletions, charts>>

\* The cache gets the output, and the caller takes the mark off.
AnswerHeard(b) ==
  /\ hears[b] # NoCell
  /\ hears' = [hears EXCEPT ![b] = NoCell]
  /\ outputs' = outputs \cup {hears[b]}
  /\ running' = running \ {hears[b]}
  /\ silenced' = silenced \ {hears[b]}
  /\ UNCHANGED <<mounted, unheard, listed, deletions, charts>>

AnswerUnheard(c) ==
  /\ unheard[c] > 0
  /\ unheard' = [unheard EXCEPT ![c] = @ - 1]
  /\ outputs' = outputs \cup {c}
  /\ UNCHANGED <<mounted, running, hears, listed, deletions, charts, silenced>>

\* By the button or by the shortcut, which look at the same mark.
ClearOutput(c) ==
  /\ c \in Shown /\ "clear" \in ToolbarOf(c)
  /\ outputs' = outputs \ {c}
  /\ UNCHANGED <<mounted, running, hears, unheard, listed, deletions, charts, silenced>>

-----------------------------------------------------------------------------
(* The form of a chart.                                                    *)

\* Another source is run at once.
ChooseSource(h, s) ==
  /\ h \in Shown \cap ChartCells /\ ~ReadOnly(h)
  /\ s \in listed \cap SqlCells /\ s # source[h]
  /\ source' = [source EXCEPT ![h] = s]
  /\ Run(s, Caller("source", h, "stored"))
  /\ UNCHANGED <<mounted, outputs, listed, deletions, chosen>>

\* The form has to name a source.  Stored with another source the chart runs again; the
\* time until the answer comes is left out.
SaveForm(h) ==
  /\ h \in Shown \cap ChartCells /\ source[h] # NoCell
  /\ chosen' = [chosen EXCEPT ![h] = source[h]]
  /\ IF source[h] # chosen[h]
     THEN Run(h, Caller("load", h, "stored"))
     ELSE UNCHANGED <<running, hears, unheard, silenced>>
  /\ UNCHANGED <<mounted, outputs, listed, deletions, source>>

-----------------------------------------------------------------------------
(* Deleting a cell.                                                        *)

\* Asked for below the notebook or by the shortcut, and confirmed.  isPending holds the
\* button of the dialog back, for the requests of this visit.
DeleteCell(c) ==
  /\ c \in Shown /\ \A d \in deletions : ~d.heard
  /\ [cell |-> c, heard |-> FALSE] \notin deletions
  /\ Cardinality(deletions) < MaxDeletions
  /\ deletions' = deletions \cup {[cell |-> c, heard |-> TRUE]}
  /\ UNCHANGED <<mounted, running, outputs, hears, unheard, listed, charts, silenced>>

\* useDeleteCell drops the output and has the list fetched again, which takes the cell's
\* component off the page; the dialog that waits also drops the mark.
CellDeleted(d) ==
  /\ d \in deletions /\ d.cell \in listed
  /\ deletions' = deletions \ {d}
  /\ listed' = listed \ {d.cell}
  /\ outputs' = outputs \ {d.cell}
  /\ Gone(CallersOf({d.cell}))
  /\ running' = IF d.heard THEN running \ {d.cell} ELSE running
  /\ UNCHANGED <<mounted, charts>>

\* Also of a cell that was deleted before.
CellNotDeleted(d) ==
  /\ d \in deletions
  /\ deletions' = deletions \ {d}
  /\ UNCHANGED <<mounted, running, outputs, hears, unheard, listed, charts, silenced>>

-----------------------------------------------------------------------------
RunsNext ==
  \/ OpenNotebook \/ LeaveNotebook
  \/ \E c \in Cells, text \in Texts : PressPlay(c, text) \/ ShortcutRun(c, text)
  \/ \E b \in Callers : AnswerHeard(b)
  \/ \E c \in Cells : AnswerUnheard(c) \/ ClearOutput(c) \/ DeleteCell(c)
  \/ \E h \in ChartCells : RunForm(h) \/ SaveForm(h)
  \/ \E h \in ChartCells, s \in SqlCells : ChooseSource(h, s)
  \/ \E d \in deletions : CellDeleted(d) \/ CellNotDeleted(d)

RunsSpec == RunsInit /\ [][RunsNext]_runsVars

-----------------------------------------------------------------------------
(* Properties.                                                             *)

RunsTypeOK ==
  /\ mounted \in BOOLEAN
  /\ running \subseteq Cells /\ outputs \subseteq Cells
  /\ hears \in [Callers -> Cells \cup {NoCell}]
  /\ unheard \in [Cells -> 0 .. MaxUnderWay]
  /\ listed \subseteq Cells
  /\ deletions \subseteq [cell : Cells, heard : BOOLEAN]
  /\ source \in [ChartCells -> SqlCells \cup {NoCell}]
  /\ chosen \in [ChartCells -> SqlCells \cup {NoCell}]
  /\ silenced \subseteq Cells

\* A cell that is shown as running, with no way to run or clear it from its toolbar, has a
\* request under way whose caller will take the mark off.  The exception is a cell whose
\* caller went first: the notebook was left, the cell or its chart deleted, or the same
\* shortcut or chart ran another cell.  Such a cell stays marked until it is run again.
RunningHasCaller ==
  \A c \in Cells :
    OutputShown(c) \in {"skeleton", "dimmed"} => Heard(c) \/ c \in silenced

=============================================================================
