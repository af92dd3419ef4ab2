------------------------------ MODULE Notebook ------------------------------
(***************************************************************************)
(* The cells of one canvas: their places in the notebook and the charts    *)
(* among them that the dashboard shows.                                    *)
(*                                                                         *)
(* Requests overlap.  Creating a cell checks the limit, then picks a place *)
(* by counting, then inserts, in three database calls.  Moving a cell      *)
(* reads it, reads the list, and writes new places in a transaction.  A    *)
(* client edits the dashboard on a copy and later saves the whole layout.  *)
(* Deleting a cell or the canvas, and applying a plan of the canvas agent, *)
(* are one transaction each, taken as one step.                            *)
(*                                                                         *)
(* Left out: names and contents (so also which chart draws which query: a  *)
(* plan removes any set of cells) and where on the dashboard a chart lies  *)
(* (module DashboardGrid).                                                 *)
(***************************************************************************)
EXTENDS Integers, FiniteSets

CONSTANTS
  Cell,         \* ids, each given to one cell at most
  Handler,      \* requests in flight at the same time
  MaxCells,     \* MAX_CELLS_PER_NOTEBOOK
  MaxCharts,    \* MAX_CHARTS_PER_DASHBOARD
  GivenOrders   \* places a client may ask for when it creates a cell

ASSUME NotebookAssumption ==
  /\ IsFiniteSet(Cell)
  /\ MaxCells \in Nat \ {0}
  /\ MaxCharts \in Nat \ {0}
  /\ GivenOrders \subseteq Int
  /\ "nobody" \notin Handler

Movement == {"UP", "DOWN", "TOP", "BOTTOM"}

VARIABLES
  alive,      \* the canvas, its notebook and its dashboard exist
  cells,      \* display_order of the cells that exist
  unused,     \* ids not yet given
  layout,     \* cells the dashboard shows
  task,       \* what each request is doing
  stale,      \* history: cells changed since the request's first read
  disturbed,  \* history: a deletion, a place of the client's choice or an overtaken write
              \*   since a reorder last renumbered the cells undisturbed
  overtaken,  \* history: an overtaken request inserted a cell
  ghosts      \* history: missing cells that a client saved into the layout

vars == <<alive, cells, unused, layout, task, stale, disturbed, overtaken, ghosts>>

Existing == DOMAIN cells
Count == Cardinality(Existing)

\* Places, of the set P, for some of the cells of S.
IsPlacing(f, S, P) == DOMAIN f \subseteq S /\ f \in [DOMAIN f -> P]

\* What a request may be doing.
Idle == [op |-> "idle"]
IsTask(t) ==
  \/ t \in {Idle, [op |-> "counting"]}
  \/ t \in [op : {"inserting"}, place : Int, given : BOOLEAN]
  \/ t \in [op : {"moving"}, cell : Cell, move : Movement, place : Int]
  \/ t \in [op : {"editing"}, known : SUBSET Cell]
  \/ t = [op |-> "writing", plan |-> t.plan] /\ IsPlacing(t.plan, Cell, Nat \ {0})

Init ==
  /\ alive = TRUE
  /\ cells = [c \in {} |-> 0]
  /\ unused = Cell
  /\ layout = {}
  /\ task = [h \in Handler |-> Idle]
  /\ stale = [h \in Handler |-> FALSE]
  /\ disturbed = FALSE /\ overtaken = FALSE
  /\ ghosts = {}

-----------------------------------------------------------------------------
\* The cells have changed: every other request in flight has read something older.
\* by = the request that changed them, or "nobody" of them.
Overtakes(by) ==
  stale' = [h \in Handler |-> h # by /\ (stale[h] \/ task[h].op # "idle")]

\* A request takes its next step, or ends.
Step(h, t) == task' = [task EXCEPT ![h] = t]
End(h) == Step(h, Idle) /\ stale' = [stale EXCEPT ![h] = FALSE]

\* Two functions on different cells, put together.
With(f, g) == [c \in DOMAIN f \cup DOMAIN g |-> IF c \in DOMAIN g THEN g[c] ELSE f[c]]
Without(f, S) == [c \in DOMAIN f \ S |-> f[c]]

-----------------------------------------------------------------------------
(* execute_create_cell.                                                    *)

\* Mutant of CreateCheck: the check lets one cell too many in.
CreateCheckOffByOne(h) ==
  /\ task[h] = Idle
  /\ alive /\ Count <= MaxCells
  /\ Step(h, [op |-> "counting"])
  /\ UNCHANGED <<alive, cells, unused, layout, stale, disturbed, overtaken, ghosts>>

\* The notebook exists and is not full.
CreateCheck(h) ==
  /\ task[h] = Idle
  /\ alive /\ Count < MaxCells
  /\ Step(h, [op |-> "counting"])
  /\ UNCHANGED <<alive, cells, unused, layout, stale, disturbed, overtaken, ghosts>>

\* Mutant of NextPlace: places counted from zero.
NextPlaceFromZero == Count

NextPlace == Count + 1

\* The place the client asked for, or the number of cells plus one.
CreatePlace(h) ==
  /\ task[h].op = "counting"
  /\ \/ Step(h, [op |-> "inserting", place |-> NextPlace, given |-> FALSE])
     \/ \E n \in GivenOrders : Step(h, [op |-> "inserting", place |-> n, given |-> TRUE])
  /\ UNCHANGED <<alive, cells, unused, layout, stale, disturbed, overtaken, ghosts>>

\* No constraint ties a cell to its notebook: the insert succeeds without it.
CreateInsert(h) ==
  /\ task[h].op = "inserting"
  /\ \E c \in unused :
       /\ cells' = With(cells, [x \in {c} |-> task[h].place])
       /\ unused' = unused \ {c}
  /\ Step(h, Idle) /\ Overtakes(h)
  /\ disturbed' = (disturbed \/ stale[h] \/ task[h].given)
  /\ overtaken' = (overtaken \/ stale[h])
  /\ UNCHANGED <<alive, layout, ghosts>>

-----------------------------------------------------------------------------
(* reorder_cell.                                                           *)

\* execute_get_cell; NOT_FOUND changes nothing.
ReorderFind(h) ==
  /\ task[h] = Idle
  /\ \E c \in Existing, m \in Movement :
       Step(h, [op |-> "moving", cell |-> c, move |-> m, place |-> cells[c]])
  /\ UNCHANGED <<alive, cells, unused, layout, stale, disturbed, overtaken, ghosts>>

\* The place a move leads to in a list of n.
Target(place, n, move) ==
  CASE move = "UP" -> IF place > 1 THEN place - 1 ELSE place
    [] move = "DOWN" -> IF place < n THEN place + 1 ELSE place
    [] move = "TOP" -> 1
    [] OTHER -> n

\* Where position i ends up when the element at from is removed and inserted again at to.
Shifted(from, to, i) ==
  IF i = from THEN to
  ELSE IF from < i /\ i <= to THEN i - 1
  ELSE IF to <= i /\ i < from THEN i + 1
  ELSE i

\* The ways to list cells by display_order: cells that share one come in any order.
Listings ==
  {r \in [Existing -> 1 .. Count] :
     \A c, d \in Existing : c # d => r[c] # r[d] /\ (cells[c] < cells[d] => r[c] < r[d])}

\* Mutant of NewPlaces: only the cells that changed their position are renumbered.
NewPlacesOfMoved(r, from, to) ==
  LET Moved == {c \in Existing : Shifted(from, to, r[c]) # r[c]}
  IN  [c \in Moved |-> Shifted(from, to, r[c])]

\* What the transaction will write: the cells whose place differs from their position.
NewPlaces(r, from, to) ==
  LET Moved == {c \in Existing : Shifted(from, to, r[c]) # cells[c]}
  IN  [c \in Moved |-> Shifted(from, to, r[c])]

\* The list is read and rearranged.  The position of the cell is not looked up in it: the
\* place read with the cell serves as its index.
ReorderList(h) ==
  /\ task[h].op = "moving"
  /\ task[h].place \in 1 .. Count
  /\ \E r \in Listings :
       LET to == Target(task[h].place, Count, task[h].move)
       IN  Step(h, [op |-> "writing", plan |-> NewPlaces(r, task[h].place, to)])
  /\ UNCHANGED <<alive, cells, unused, layout, stale, disturbed, overtaken, ghosts>>

\* "Cell display_order out of bounds".
ReorderRefused(h) ==
  /\ task[h].op = "moving"
  /\ task[h].place \notin 1 .. Count
  /\ End(h)
  /\ UNCHANGED <<alive, cells, unused, layout, disturbed, overtaken, ghosts>>

\* The transaction commits.
ReorderWrite(h) ==
  /\ task[h].op = "writing"
  /\ DOMAIN task[h].plan \subseteq Existing
  /\ cells' = With(cells, task[h].plan)
  /\ Step(h, Idle)
  /\ Overtakes(h)
  /\ disturbed' = stale[h]
  /\ UNCHANGED <<alive, unused, layout, overtaken, ghosts>>

\* One of the cells to write has vanished: the transaction is rolled back.
ReorderRolledBack(h) ==
  /\ task[h].op = "writing"
  /\ ~ DOMAIN task[h].plan \subseteq Existing
  /\ End(h)
  /\ UNCHANGED <<alive, cells, unused, layout, disturbed, overtaken, ghosts>>

-----------------------------------------------------------------------------
(* The dashboard as a client edits it.                                     *)

\* GET: the layout, and the charts that could be added to it.
EditOpen(h) ==
  /\ task[h] = Idle
  /\ alive
  /\ Step(h, [op |-> "editing", known |-> layout \cup Existing])
  /\ UNCHANGED <<alive, cells, unused, layout, stale, disturbed, overtaken, ghosts>>

\* execute_update_dashboard: the layout is replaced; what it names is not looked up.
EditSave(h) ==
  /\ task[h].op = "editing"
  /\ \E L \in SUBSET task[h].known :
       IF alive /\ Cardinality(L) <= MaxCharts
       THEN layout' = L /\ ghosts' = ghosts \cup (L \ Existing)
       ELSE UNCHANGED <<layout, ghosts>>
  /\ End(h)
  /\ UNCHANGED <<alive, cells, unused, disturbed, overtaken>>

-----------------------------------------------------------------------------
(* Transactions.                                                           *)

\* Mutant of DeleteCell: the dashboard is left as it is.
DeleteCellLeavesLayout ==
  /\ alive
  /\ \E c \in Existing : cells' = Without(cells, {c}) /\ UNCHANGED layout
  /\ Overtakes("nobody")
  /\ disturbed' = TRUE
  /\ UNCHANGED <<alive, unused, task, overtaken, ghosts>>

\* delete_cell.  The cells after it keep their places.
DeleteCell ==
  /\ alive
  /\ \E c \in Existing : cells' = Without(cells, {c}) /\ layout' = layout \ {c}
  /\ Overtakes("nobody")
  /\ disturbed' = TRUE
  /\ UNCHANGED <<alive, unused, task, overtaken, ghosts>>

\* n is the first place apply_ops gives to a cell it creates: one after the highest, from zero.
IsFirstOrder(n) ==
  IF Existing = {} THEN n = 0
  ELSE n \in {cells[c] + 1 : c \in Existing} /\ \A c \in Existing : cells[c] < n

\* apply_ops and append_dashboard_charts_transaction: a plan removes some cells, creates
\* others at consecutive places, and shows some of these on the dashboard.  Of the
\* removals, some come before the creations (early).  Above a limit all is rolled back.
ApplyPlan(Removed, Created, Shown) ==
  LET k == Cardinality(Created)
      charts == (layout \ Removed) \cup Shown
  IN
  /\ alive
  /\ Removed \subseteq Existing /\ Created \subseteq unused /\ Shown \subseteq Created
  /\ Removed \cup Created # {}
  /\ \E early \in SUBSET Removed : k = 0 \/ Count - Cardinality(early) + k <= MaxCells
  /\ Shown = {} \/ Cardinality(charts) <= MaxCharts
  /\ \E first \in {0} \cup {cells[c] + 1 : c \in Existing} :
       /\ IsFirstOrder(first)
       /\ \E place \in [Created -> first .. first + k - 1] :
            /\ \A c, d \in Created : c # d => place[c] # place[d]
            /\ cells' = With(Without(cells, Removed), place)
  /\ unused' = unused \ Created
  /\ layout' = charts
  /\ Overtakes("nobody")
  /\ disturbed' = (disturbed \/ Removed # {})
  /\ UNCHANGED <<alive, task, overtaken, ghosts>>

\* delete_canvas: cells, notebook, dashboard and canvas.
DeleteCanvas ==
  /\ alive
  /\ alive' = FALSE
  /\ cells' = [c \in {} |-> 0]
  /\ layout' = {}
  /\ Overtakes("nobody")
  /\ disturbed' = TRUE
  /\ UNCHANGED <<unused, task, overtaken, ghosts>>

\* The client goes away, or the server stops: the request is dropped where it waits.
Abandon(h) ==
  /\ task[h] # Idle
  /\ End(h)
  /\ UNCHANGED <<alive, cells, unused, layout, disturbed, overtaken, ghosts>>

-----------------------------------------------------------------------------
Create(h) == CreateCheck(h) \/ CreatePlace(h) \/ CreateInsert(h)
Reorder(h) ==
  ReorderFind(h) \/ ReorderList(h) \/ ReorderRefused(h) \/ ReorderWrite(h)
    \/ ReorderRolledBack(h)
Edit(h) == EditOpen(h) \/ EditSave(h)

Next ==
  \/ \E h \in Handler : Create(h) \/ Reorder(h) \/ Edit(h) \/ Abandon(h)
  \/ DeleteCell
  \/ \E R \in SUBSET Existing, C \in SUBSET unused : \E S \in SUBSET C : ApplyPlan(R, C, S)
  \/ DeleteCanvas

Spec == Init /\ [][Next]_vars

-----------------------------------------------------------------------------
(* Properties.                                                             *)

TypeOK ==
  /\ alive \in BOOLEAN
  /\ IsPlacing(cells, Cell \ unused, Int)
  /\ unused \subseteq Cell
  /\ layout \subseteq Cell
  /\ task = [h \in Handler |-> task[h]] /\ \A h \in Handler : IsTask(task[h])
  /\ stale \in [Handler -> BOOLEAN]
  /\ disturbed \in BOOLEAN /\ overtaken \in BOOLEAN
  /\ ghosts \subseteq Cell

\* Two cells share a place only after a deletion, a place chosen by the client or a write by
\* a request that another one overtook; a reorder that nobody disturbs sets it right.  So the
\* two ways of numbering new cells (the number of cells plus one, and one after the highest)
\* agree with each other.
PlacesAreDistinct ==
  ~disturbed => \A c, d \in Existing : c # d => cells[c] # cells[d]

\* The notebook holds more cells than the limit, or cells without a notebook exist, only
\* because a request inserted its cell after another had changed what it checked.
LimitExceededByOverlapOnly == Count > MaxCells => overtaken
OrphansByOverlapOnly == ~alive /\ Existing # {} => overtaken

\* The dashboard shows a cell that does not exist only because a client saved it there from a
\* copy that was older than the deletion; and a deleted canvas leaves no layout.
DanglingByStaleSaveOnly ==
  /\ layout \ Existing \subseteq ghosts
  /\ ~alive => layout = {}

\* A reorder that nobody disturbed up to its transaction will leave the cells numbered from
\* one without gaps, whatever their places were before.
ReorderRenumbers ==
  \A h \in Handler :
    task[h].op = "writing" /\ ~stale[h] =>
      /\ DOMAIN task[h].plan \subseteq Existing
      /\ {With(cells, task[h].plan)[c] : c \in Existing} = 1 .. Count

\* The position of a cell in a notebook with these places.
Position(places, c) == Cardinality({d \in DOMAIN places : places[d] < places[c]}) + 1

\* A request to move a cell up or down, to the top or the bottom, while nobody else is about,
\* writes places that move that cell as asked.
MovesTheCell ==
  [][\A h \in Handler :
       task[h].op = "moving" /\ task'[h].op = "writing" =>
         LET c == task[h].cell
         IN  Position(With(cells, task'[h].plan), c)
               = Target(Position(cells, c), Count, task[h].move)]_vars
=============================================================================
