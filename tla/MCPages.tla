------------------------------ MODULE MCPages ------------------------------
(***************************************************************************)
(* Instances for TLC of the modules of single pages and panels of the      *)
(* application.  They have no state in common: one of them, place, is on   *)
(* show throughout a behaviour, and the others stand still.                *)
(***************************************************************************)
EXTENDS Session, ListPage, NotebookRuns, RowEditing, ChartForm, ChartDrawing

CONSTANTS aRequest, aQuery, anotherQuery, aChart

VARIABLE place
pagesVars == <<place, sessionVars, listVars, runsVars, editingVars, formVars, drawingVars>>

OneRequest == {aRequest}
ListRows == [conversations |-> 3, canvases |-> 9]
OneAndTwo == {1, 2}
TwoQueries == {aQuery, anotherQuery}
OneChart == {aChart}
Interchangeable == Permutations(TwoQueries)
ColumnLikeAnAlias == {"a", "a_sum"}

PagesInit ==
  /\ place \in {"session", "list", "runs", "editing", "form", "drawing"}
  /\ SessionInit /\ (place # "session" => active = {} /\ cookie = 0)
  /\ ListInit /\ (place # "list" => list = "conversations")
  /\ RunsInit /\ (place # "runs" => \A c \in ChartCells : chosen[c] = NoCell)
  /\ RowInit /\ (place # "editing" => kind = "cell")
  /\ FormInit /\ (place # "form" => content = NoContent)
  /\ DrawingInit /\ (place # "drawing" => storedChart = NoChart)

Still(name, vars) == place # name => UNCHANGED vars

PagesNext ==
  /\ UNCHANGED place
  /\ Still("session", sessionVars) /\ Still("list", listVars) /\ Still("runs", runsVars)
  /\ Still("editing", editingVars) /\ Still("form", formVars) /\ Still("drawing", drawingVars)
  /\ \/ place = "session" /\ SessionNext
     \/ place = "list" /\ ListNext
     \/ place = "runs" /\ RunsNext
     \/ place = "editing" /\ RowNext
     \/ place = "form" /\ FormNext
     \/ place = "drawing" /\ DrawingNext

PagesSpec == PagesInit /\ [][PagesNext]_pagesVars

\* Every variable of every page has its type.
PagesTypeOK ==
  SessionTypeOK /\ ListTypeOK /\ RunsTypeOK /\ RowTypeOK /\ FormTypeOK /\ DrawingTypeOK
=============================================================================
