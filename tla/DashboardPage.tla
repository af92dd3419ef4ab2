--------------------------- MODULE DashboardPage ---------------------------
(***************************************************************************)
(* The dashboard view of a canvas: looking at the layout, changing it and  *)
(* saving it.                                                              *)
(*                                                                         *)
(* The layout on show lies in a store of the application, not of the page, *)
(* beside the mode.  The page saves in the store what the query cache has   *)
(* whenever that changes; the Edit and Cancel buttons have the dashboard   *)
(* fetched first and go on when the answer comes, on whatever page the     *)
(* user is by then; Save goes back to viewing at once.                     *)
(*                                                                         *)
(* A layout is a number and the canvas whose charts it places; number 0    *)
(* places none.  A dashboard may also have no layout stored: the page then *)
(* shows none, but the buttons leave on show what is there.  Left out:     *)
(* where the charts lie, which DashboardGrid models, the list of charts to *)
(* drag from, something dropped that is not a chart, and the way from one  *)
(* canvas to another through the command menu, without a page in between.  *)
(***************************************************************************)
EXTENDS Naturals, Sequences, FiniteSets

CONSTANTS
  Canvases, Away,
  Missing,        \* nothing is known of a dashboard
  NoLayout,       \* a dashboard without a layout: its row has null
  Idle, Asked,    \* no fetch, and one that has read nothing yet
  MaxLayouts,     \* bound: layouts made by anybody
  MaxClicks,      \* bound: clicks on Edit or Cancel that wait for the answer of one dashboard
  MaxSavesOut     \* bound: saves under way

ASSUME DashboardPageAssumption ==
  Away \notin Canvases /\ MaxLayouts \in Nat \ {0} /\ MaxClicks \in Nat /\ MaxSavesOut \in Nat

VARIABLES
  view,           \* the canvas whose dashboard is on show
  mode, grid,     \* dashboardSlice: the mode and the layout
  layouts,        \* dashboardQuery.data: what the cache has for each canvas
  fetch,          \* the fetch of each dashboard: Idle, Asked, or what it read
  waiting,        \* the clicks that wait for the fetch of a canvas, in order
  saves,          \* updateDashboard requests that are not answered
  onDashboard,    \* the dashboards' rows
  made,           \* how many layouts were made
  mine, news,     \* history: the user's last layout, and whether the cache changed since
  kept,           \* history: every layout a dashboard ever had stored; none is an empty one
  mishap          \* history: whether a save was "dropped", for want of a notebook or a dashboard,
                  \* or a click on one dashboard "strayed" to another
dashboardVars == <<view, mode, grid, layouts, fetch, waiting, saves, onDashboard, made,
                   mine, news, kept, mishap>>

slice == <<mode, grid>>
cache == <<layouts, fetch>>
dashboardRows == <<onDashboard, made, kept>>
history == <<mine, news, mishap>>

Layouts == [of : Canvases, v : 0 .. MaxLayouts]

Stored == Layouts \cup {NoLayout}

ASSUME NoLayoutIsNone ==
  /\ NoLayout \notin Layouts /\ Missing \notin Stored
  /\ Idle \notin Stored /\ Asked \notin Stored /\ Idle # Asked

Blank(c) == [of |-> c, v |-> 0]
Newer(c) == [of |-> c, v |-> made + 1]

\* The effect of Dashboard on what the query of canvas c has: none is shown as an empty layout.
OnShow(c, stored) == IF stored \in Layouts THEN stored ELSE Blank(c)

\* What comes on show, or sees the window's focus return, joins a fetch under way.
Joined(c) == [fetch EXCEPT ![c] = IF @ = Idle THEN Asked ELSE @]

\* refetch and invalidateQueries: a fetch under way begins anew, but for the first one.
Refetched(c) ==
  [fetch EXCEPT ![c] = IF layouts[c] = Missing /\ @ # Idle THEN @ ELSE Asked]

DashboardInit ==
  /\ view = Away /\ mode = "VIEWING" /\ grid \in {Blank(c) : c \in Canvases}
  /\ layouts = [c \in Canvases |-> Missing] /\ fetch = [c \in Canvases |-> Idle]
  /\ waiting = [c \in Canvases |-> <<>>]
  /\ saves = {}
  /\ made = 1
  /\ \E new \in SUBSET Canvases :
       onDashboard = [c \in Canvases |-> IF c \in new THEN NoLayout ELSE [of |-> c, v |-> 1]]
  /\ kept = [c \in Canvases |-> {OnShow(c, onDashboard[c])}]
  /\ mine = Missing /\ news = FALSE /\ mishap = "none"

-----------------------------------------------------------------------------
(* Coming and going.                                                       *)

\* Mutant of Open: the layout is replaced when the cache changes, and not when a dashboard
\* comes on show.
OpenKeepsLayout(c) ==
  /\ view = Away /\ view' = c
  /\ grid' = grid
  /\ fetch' \in IF layouts[c] = Missing THEN {Joined(c)} ELSE {fetch, Joined(c)}
  /\ mine' = Missing /\ news' = FALSE
  /\ UNCHANGED <<mode, layouts, waiting, saves, dashboardRows, mishap>>

\* What is cached is fetched again when it is old or was invalidated.
Open(c) ==
  /\ view = Away /\ view' = c
  /\ grid' = OnShow(c, layouts[c])
  /\ fetch' \in IF layouts[c] = Missing THEN {Joined(c)} ELSE {fetch, Joined(c)}
  /\ mine' = Missing /\ news' = FALSE
  /\ UNCHANGED <<mode, layouts, waiting, saves, dashboardRows, mishap>>

\* To the notebook of the canvas or another page: nobody hears how the saves end.
Leave ==
  /\ view # Away /\ view' = Away
  /\ mode' = "VIEWING"
  /\ saves' = {[p EXCEPT !.heard = FALSE] : p \in saves}
  /\ UNCHANGED <<grid, cache, waiting, dashboardRows, history>>

-----------------------------------------------------------------------------
(* Fetching.                                                               *)

\* The window has the focus again; the canvas, its buttons and its dashboard ask for the same.
FetchDashboard(c) ==
  /\ view \in {c, Away} /\ fetch[c] = Idle /\ fetch' = Joined(c)
  /\ UNCHANGED <<view, slice, layouts, waiting, saves, dashboardRows, history>>

DashboardRead(c) ==
  /\ fetch[c] = Asked /\ fetch' = [fetch EXCEPT ![c] = onDashboard[c]]
  /\ UNCHANGED <<view, slice, layouts, waiting, saves, dashboardRows, history>>

\* What the page shows after an answer: the effect runs when it has changed what is cached.
AfterEffect(c, d) == IF view = c /\ d[c] # layouts[c] THEN OnShow(c, d[c]) ELSE grid

\* The clicks that waited for canvas c go on, in order: the layout the cache has of it by now
\* goes to the store, and the mode is that of the last click.  resetFromBackendData does nothing
\* for a dashboard that has none: the layout on show stays, one that was never saved too.
GoOn(c, d) ==
  /\ waiting' = [waiting EXCEPT ![c] = <<>>]
  /\ grid' = IF d[c] \in Layouts THEN d[c] ELSE AfterEffect(c, d)
  /\ mode' = waiting[c][Len(waiting[c])]
  /\ IF d[c] \in Layouts \/ d[c] # layouts[c] THEN mine' = Missing /\ news' = FALSE
     ELSE UNCHANGED <<mine, news>>
  /\ mishap' = IF view \in {c, Away} THEN mishap ELSE "strayed"

\* Mutant of Fetched: an answer goes to the store whether or not it is news.
FetchedAnyway(c) ==
  /\ fetch[c] \in Stored
  /\ layouts' = [layouts EXCEPT ![c] = fetch[c]] /\ fetch' = [fetch EXCEPT ![c] = Idle]
  /\ IF waiting[c] # <<>> THEN GoOn(c, layouts')
     ELSE /\ grid' = IF view = c THEN OnShow(c, fetch[c]) ELSE grid
          /\ news' = (news \/ (view = c /\ fetch[c] # layouts[c]))
          /\ UNCHANGED <<mode, waiting, mine, mishap>>
  /\ UNCHANGED <<view, saves, dashboardRows>>

\* An equal answer leaves the cached object as it is, and the effect does not run.
Fetched(c) ==
  /\ fetch[c] \in Stored
  /\ layouts' = [layouts EXCEPT ![c] = fetch[c]] /\ fetch' = [fetch EXCEPT ![c] = Idle]
  /\ IF waiting[c] # <<>> THEN GoOn(c, layouts')
     ELSE /\ grid' = AfterEffect(c, layouts')
          /\ news' = (news \/ (view = c /\ fetch[c] # layouts[c]))
          /\ UNCHANGED <<mode, waiting, mine, mishap>>
  /\ UNCHANGED <<view, saves, dashboardRows>>

\* refetch never rejects: the clicks go on with what was cached.
FetchFails(c) ==
  /\ fetch[c] # Idle /\ fetch' = [fetch EXCEPT ![c] = Idle]
  /\ IF waiting[c] # <<>> THEN GoOn(c, layouts)
     ELSE UNCHANGED <<slice, waiting, mine, news, mishap>>
  /\ UNCHANGED <<view, layouts, saves, dashboardRows>>

-----------------------------------------------------------------------------
(* Editing.                                                                *)

\* toggleEditingWithLatestLayout and cancelEditingWithLatestLayout, up to the answer.
Click(c, next) ==
  /\ view = c /\ mode # next /\ Len(waiting[c]) < MaxClicks
  /\ waiting' = [waiting EXCEPT ![c] = Append(@, next)]
  /\ fetch' = Refetched(c)
  /\ UNCHANGED <<view, slice, layouts, saves, dashboardRows, history>>

\* A chart is dragged, resized, added or removed.
ChangeLayout ==
  /\ view # Away /\ mode = "EDITING" /\ made < MaxLayouts
  /\ made' = made + 1 /\ grid' = Newer(grid.of) /\ mine' = grid' /\ news' = FALSE
  /\ UNCHANGED <<view, mode, cache, waiting, saves, onDashboard, kept, mishap>>

\* useDashboardSave; known says whether the notebooks of the canvas were read by now.  A
\* request that follows another takes over its caller's attention.  The same layout is not
\* saved twice at once.
SaveLayout(c, known) ==
  /\ view = c /\ mode = "EDITING" /\ mode' = "VIEWING"
  /\ Cardinality(saves) < MaxSavesOut /\ \A p \in saves : p.layout # grid
  /\ IF layouts[c] # Missing /\ known
     THEN /\ saves' = {[p EXCEPT !.heard = FALSE] : p \in saves}
                       \cup {[canvas |-> c, layout |-> grid, written |-> FALSE, heard |-> TRUE]}
          /\ mishap' = mishap
     ELSE saves' = saves /\ mishap' = "dropped"
  /\ UNCHANGED <<view, grid, cache, waiting, dashboardRows, mine, news>>

SaveWritten(p) ==
  /\ p \in saves /\ ~p.written
  /\ saves' = (saves \ {p}) \cup {[p EXCEPT !.written = TRUE]}
  /\ onDashboard' = [onDashboard EXCEPT ![p.canvas] = p.layout]
  /\ kept' = [kept EXCEPT ![p.canvas] = @ \cup {p.layout}]
  /\ UNCHANGED <<view, slice, cache, waiting, made, history>>

\* Every dashboard is invalidated; the one on show is fetched at once.
SaveAnswered(p) ==
  /\ p \in saves /\ p.written /\ saves' = saves \ {p}
  /\ fetch' = IF view # Away THEN Refetched(view) ELSE fetch
  /\ UNCHANGED <<view, slice, layouts, waiting, dashboardRows, history>>

\* Mutant of SaveFails: the page goes on viewing.
SaveFailsQuietly(p) ==
  /\ p \in saves /\ saves' = saves \ {p}
  /\ UNCHANGED <<view, slice, cache, waiting, dashboardRows, history>>

\* onError belongs to the last save of this visit.
SaveFails(p) ==
  /\ p \in saves /\ saves' = saves \ {p}
  /\ mode' = IF p.heard THEN "EDITING" ELSE mode
  /\ UNCHANGED <<view, grid, cache, waiting, dashboardRows, history>>

\* Another client, or an agent that generates the canvas, writes the dashboard; or its last chart
\* is deleted with its cell, which leaves it without a layout.
SavedElsewhere(c) ==
  /\ made < MaxLayouts /\ made' = made + 1
  /\ \E other \in {Newer(c), NoLayout} \ {onDashboard[c]} :
       onDashboard' = [onDashboard EXCEPT ![c] = other]
  /\ kept' = [kept EXCEPT ![c] = @ \cup {OnShow(c, onDashboard'[c])}]
  /\ UNCHANGED <<view, slice, cache, waiting, saves, history>>

-----------------------------------------------------------------------------
\* The browser loads the application again: store, cache and callers are gone.
Reload ==
  /\ view' = Away /\ mode' = "VIEWING" /\ grid' \in {Blank(c) : c \in Canvases}
  /\ layouts' = [c \in Canvases |-> Missing] /\ fetch' = [c \in Canvases |-> Idle]
  /\ waiting' = [c \in Canvases |-> <<>>]
  /\ saves' = {[p EXCEPT !.heard = FALSE] : p \in saves}
  /\ mine' = Missing /\ news' = FALSE /\ mishap' = "none"
  /\ UNCHANGED dashboardRows

\* After a mishap the properties have no more to say of the page until it is loaded again.
DashboardNext ==
  \/ Reload
  \/ /\ mishap = "none"
     /\ \/ Leave \/ ChangeLayout
        \/ \E c \in Canvases :
             \/ Open(c) \/ FetchDashboard(c) \/ DashboardRead(c) \/ Fetched(c) \/ FetchFails(c)
             \/ Click(c, "EDITING") \/ Click(c, "VIEWING") \/ SavedElsewhere(c)
             \/ \E known \in BOOLEAN : SaveLayout(c, known)
        \/ \E p \in saves : SaveWritten(p) \/ SaveAnswered(p) \/ SaveFails(p)

DashboardSpec == DashboardInit /\ [][DashboardNext]_dashboardVars

-----------------------------------------------------------------------------
(* Properties.                                                             *)

DashboardPageTypeOK ==
  /\ view \in Canvases \cup {Away} /\ mode \in {"VIEWING", "EDITING"} /\ grid \in Layouts
  /\ layouts \in [Canvases -> Stored \cup {Missing}]
  /\ fetch \in [Canvases -> Stored \cup {Idle, Asked}]
  /\ \A c \in Canvases :
       waiting[c] \in Seq({"VIEWING", "EDITING"}) /\ Len(waiting[c]) <= MaxClicks
  /\ saves \subseteq [canvas : Canvases, layout : Layouts, written : BOOLEAN, heard : BOOLEAN]
  /\ onDashboard \in [Canvases -> Stored] /\ made \in 1 .. MaxLayouts
  /\ mine \in Layouts \cup {Missing} /\ news \in BOOLEAN
  /\ kept \in [Canvases -> SUBSET Layouts]
  /\ mishap \in {"none", "dropped", "strayed"}

\* A dashboard is saved with a layout of its own charts, unless a click on Edit or Cancel was
\* answered after the user had gone to another dashboard: there it replaces the layout, and
\* the next save stores the one canvas's charts on the other.
SavedWhereItBelongs == mishap = "strayed" \/ \A p \in saves : p.layout.of = p.canvas

\* While a dashboard is edited its layout is the one the user left it with, unless an
\* answer with another layout came since, which replaces the user's layout without a word.
EditsStayOnShow ==
  view # Away /\ mode = "EDITING" /\ mine # Missing =>
    grid = mine \/ news \/ mishap = "strayed"

\* A dashboard that is not edited and has nothing under way shows a layout that was stored at
\* some time, or none when it has none: what failed to be saved is under edit again.  The
\* exceptions are a save that is dropped because the notebook was not read yet, a dashboard that
\* was never read, which shows none, and an unsaved layout of the user's whose editing was
\* cancelled on a dashboard that has no layout to take its place.
RestingShowsStored ==
  view # Away /\ mode = "VIEWING" /\ fetch[view] = Idle /\ saves = {} =>
    \/ grid \in kept[view] \/ layouts[view] = Missing \/ mishap # "none"
    \/ layouts[view] = NoLayout /\ grid = mine

=============================================================================
