---------------------------- MODULE DashboardGrid ----------------------------
(***************************************************************************)
(* Where the charts of one dashboard lie on its grid.                      *)
(*                                                                         *)
(* A client saves the arrangement it shows; the canvas agent appends       *)
(* charts below it, row by row (DashboardGridPacker), in a transaction     *)
(* taken chart by chart here; deleting a cell takes its chart away.        *)
(* Positions and sizes are u16: `bottom` saturates, and the addition that  *)
(* starts a new row wraps in the release build.                            *)
(***************************************************************************)
EXTENDS Integers, FiniteSets

CONSTANTS
  Chart,               \* cells that may be charts
  Saved,               \* arrangements clients may save
  AskedWidths, AskedHeights,           \* sizes the agent asks for
  Columns,             \* GRID_COLUMN_COUNT
  MinWidth, DefaultWidth,              \* of a chart
  MinHeight, MaxHeight, DefaultHeight,
  MaxCharts,           \* MAX_CHARTS_PER_DASHBOARD
  U16Max               \* u16::MAX

Size == 0 .. U16Max
Rect == [x : Size, y : Size, w : Size, h : Size]
IsArrangement(a) == DOMAIN a \subseteq Chart /\ a \in [DOMAIN a -> Rect]

ASSUME GridAssumption ==
  /\ IsFiniteSet(Chart)
  /\ \A a \in Saved : IsArrangement(a)
  /\ AskedWidths \subseteq Nat /\ AskedHeights \subseteq Nat
  /\ Columns \in Nat /\ MinWidth \in 1 .. Columns /\ DefaultWidth \in Nat
  /\ MaxHeight \in Nat /\ MinHeight \in 1 .. MaxHeight /\ DefaultHeight \in Nat
  /\ MaxCharts \in Nat
  /\ U16Max \in Nat /\ 2 * Columns <= U16Max /\ MaxHeight <= U16Max

VARIABLES
  layout,     \* the rectangles of the stored layout
  draft,      \* the layout a transaction is working on
  placing,    \* such a transaction is under way
  packer,     \* its DashboardGridPacker
  tidy,       \* history: the arrangement the client saved last was tidy
  overflowed  \* history: some sum left the range of u16

vars == <<layout, draft, placing, packer, tidy, overflowed>>

Overlap(a, b) ==
  /\ a.x < b.x + b.w /\ b.x < a.x + a.w
  /\ a.y < b.y + b.h /\ b.y < a.y + a.h

\* Every chart lies within the columns, and no two lie on each other.
Tidy(a) ==
  /\ \A c \in DOMAIN a : a[c].x + a[c].w <= Columns
  /\ \A c, d \in DOMAIN a : c # d => ~Overlap(a[c], a[d])

Fresh == [x |-> 0, y |-> 0, rowHeight |-> 0]
Empty == [c \in {} |-> [x |-> 0, y |-> 0, w |-> 0, h |-> 0]]

Init ==
  /\ layout = Empty /\ draft = Empty
  /\ placing = FALSE /\ packer = Fresh
  /\ tidy = TRUE /\ overflowed = FALSE

Without(a, S) == [c \in DOMAIN a \ S |-> a[c]]
With(a, chart, rect) ==
  [c \in DOMAIN a \cup {chart} |-> IF c = chart THEN rect ELSE a[c]]

-----------------------------------------------------------------------------
\* execute_update_dashboard: any arrangement within the limit replaces the layout.
Save ==
  /\ ~placing
  /\ \E a \in Saved :
       /\ Cardinality(DOMAIN a) <= MaxCharts
       /\ layout' = a
       /\ tidy' = Tidy(a)
  /\ UNCHANGED <<draft, placing, packer, overflowed>>

\* remove_cell_from_layout_transaction.
RemoveCell ==
  /\ ~placing
  /\ \E c \in DOMAIN layout : layout' = Without(layout, {c})
  /\ UNCHANGED <<draft, placing, packer, tidy, overflowed>>

\* Mutant of Bottom: the top row of a chart, not the row below it.
BottomIsTop(r) == r.y

\* Layout::bottom, a saturating addition.
Bottom(r) == IF r.y + r.h > U16Max THEN U16Max ELSE r.y + r.h

\* n is the first row below all charts of a.
IsBelow(n, a) ==
  /\ \A c \in DOMAIN a : Bottom(a[c]) <= n
  /\ n = 0 \/ \E c \in DOMAIN a : Bottom(a[c]) = n

\* append_dashboard_charts_transaction starts: removed charts go, the packer starts below.
Begin ==
  /\ ~placing
  /\ \E R \in SUBSET DOMAIN layout :
       LET kept == Without(layout, R)
       IN  \E n \in {0} \cup {Bottom(kept[c]) : c \in DOMAIN kept} :
             /\ IsBelow(n, kept)
             /\ draft' = kept /\ placing' = TRUE
             /\ packer' = [Fresh EXCEPT !.y = n]
             /\ overflowed' =
                  (overflowed \/ \E c \in DOMAIN kept : kept[c].y + kept[c].h > U16Max)
  /\ UNCHANGED <<layout, tidy>>

Clamped(n, low, high) == IF n < low THEN low ELSE IF n > high THEN high ELSE n

\* Sizes a chart may end up with; the defaults stand in for sizes the agent left out.
Widths == {Clamped(n, MinWidth, Columns) : n \in AskedWidths \cup {DefaultWidth}}
Heights == {Clamped(n, MinHeight, MaxHeight) : n \in AskedHeights \cup {DefaultHeight}}

\* The chart does not fit in the row.
NewRow(p, w) == p.x + w > Columns

\* Where the packer stands when it places a chart of width w.
Row(p, w) ==
  IF NewRow(p, w)
  THEN [x |-> 0, y |-> (p.y + p.rowHeight) % (U16Max + 1), rowHeight |-> 0]
  ELSE p

\* DashboardGridPacker::place.
Place ==
  /\ placing
  /\ \E c \in Chart \ DOMAIN draft, w \in Widths, h \in Heights :
       LET p == Row(packer, w)
       IN  /\ draft' = With(draft, c, [x |-> p.x, y |-> p.y, w |-> w, h |-> h])
           /\ packer' = [x |-> p.x + w, y |-> p.y,
                         rowHeight |-> IF p.rowHeight < h THEN h ELSE p.rowHeight]
           /\ overflowed' =
                (overflowed \/ (NewRow(packer, w) /\ packer.y + packer.rowHeight > U16Max))
  /\ UNCHANGED <<layout, placing, tidy>>

\* Mutant of Commit: the limit is not looked at.
CommitUnchecked ==
  /\ placing
  /\ layout' = draft
  /\ draft' = Empty /\ placing' = FALSE /\ packer' = Fresh
  /\ UNCHANGED <<tidy, overflowed>>

\* The layout is stored, or the transaction is rolled back for being over the limit.
Commit ==
  /\ placing
  /\ layout' = IF Cardinality(DOMAIN draft) <= MaxCharts THEN draft ELSE layout
  /\ draft' = Empty /\ placing' = FALSE /\ packer' = Fresh
  /\ UNCHANGED <<tidy, overflowed>>

Next == Save \/ RemoveCell \/ Begin \/ Place \/ Commit

Spec == Init /\ [][Next]_vars

-----------------------------------------------------------------------------
(* Properties.                                                             *)

Packer == [x : 0 .. Columns, y : Size, rowHeight : 0 .. MaxHeight]

TypeOK ==
  /\ IsArrangement(layout) /\ Cardinality(DOMAIN layout) <= MaxCharts
  /\ IsArrangement(draft)
  /\ placing \in BOOLEAN /\ packer \in Packer
  /\ tidy \in BOOLEAN /\ overflowed \in BOOLEAN

\* As long as no sum leaves u16, charts that the agent adds never lie on other charts or
\* outside the columns: what the client left tidy stays tidy, in the stored layout and at
\* every moment of the transaction.
StaysTidy ==
  tidy /\ ~overflowed =>
    /\ Tidy(layout)
    /\ Tidy(draft)
=============================================================================
