--------------------------- MODULE DashboardProofs ---------------------------
(***************************************************************************)
(* Proofs about the parts of a dashboard: the grid of the service, and in  *)
(* the browser the tiles, the page and the summaries, for every size of    *)
(* the grid and any charts, canvases, layouts, prompts and requests.       *)
(*                                                                         *)
(* The packer of the grid remembers nothing of the charts it has placed    *)
(* but the end of its row and the height of its row.  The invariant        *)
(* InFrontOf says why this is enough: every chart is either above the row  *)
(* or in it, to the left of the place where the packer stands.             *)
(***************************************************************************)
EXTENDS MCDashboard, FiniteSetTheorems, SequenceTheorems, TLAPS

-----------------------------------------------------------------------------
(* The grid.                                                               *)

\* Chart r is out of the way of packer p: above its row, or in its row and passed.
Passed(r, p) ==
  \/ r.y + r.h <= p.y
  \/ r.y = p.y /\ r.x + r.w <= p.x /\ r.h <= p.rowHeight

InFrontOf == placing => \A c \in DOMAIN draft : Passed(draft[c], packer)

Inv ==
  /\ TypeOK
  /\ StaysTidy
  /\ ~overflowed => InFrontOf
  /\ ~placing => draft = Empty

-----------------------------------------------------------------------------
\* Nothing is tidy.
LEMMA EmptyIsTidy == IsArrangement(Empty) /\ DOMAIN Empty = {} /\ Tidy(Empty)
BY DEF IsArrangement, Empty, Tidy

\* Taking charts away leaves the others where they are.
LEMMA WithoutKeeps ==
  ASSUME NEW a, NEW S, IsArrangement(a)
  PROVE  /\ IsArrangement(Without(a, S))
         /\ DOMAIN Without(a, S) = DOMAIN a \ S
         /\ \A c \in DOMAIN a \ S : Without(a, S)[c] = a[c]
         /\ Tidy(a) => Tidy(Without(a, S))
BY DEF IsArrangement, Without, Tidy

\* An arrangement within the limit is no longer than the one it was taken from.
LEMMA CountKept ==
  ASSUME NEW a, NEW S, IsArrangement(a), Cardinality(DOMAIN a) <= MaxCharts
  PROVE  Cardinality(DOMAIN a \ S) <= MaxCharts
<1>1. IsFiniteSet(DOMAIN a)
  BY GridAssumption, FS_Subset DEF IsArrangement
<1>2. IsFiniteSet(DOMAIN a \ S) /\ Cardinality(DOMAIN a \ S) <= Cardinality(DOMAIN a)
  BY <1>1, FS_Subset
<1> QED
  BY <1>1, <1>2, GridAssumption, FS_CardinalityType

\* So does adding one.
LEMMA WithAdds ==
  ASSUME NEW a, NEW c \in Chart \ DOMAIN a, NEW r \in Rect, IsArrangement(a)
  PROVE  /\ IsArrangement(With(a, c, r))
         /\ DOMAIN With(a, c, r) = DOMAIN a \cup {c}
         /\ With(a, c, r)[c] = r
         /\ \A d \in DOMAIN a : With(a, c, r)[d] = a[d]
BY DEF IsArrangement, With

\* The sizes of new charts are within their limits.
LEMMA SizesFit ==
  /\ \A w \in Widths : w \in MinWidth .. Columns /\ w \in 1 .. Columns
  /\ \A h \in Heights : h \in MinHeight .. MaxHeight /\ h \in 1 .. MaxHeight
BY GridAssumption DEF Widths, Heights, Clamped

\* The packer moves on to a place in the grid, and whatever it had passed it still has.
LEMMA RowIsFree ==
  ASSUME NEW p \in Packer, NEW w \in 1 .. Columns
  PROVE  /\ Row(p, w) \in Packer
         /\ Row(p, w).x + w <= Columns
         /\ ~(NewRow(p, w) /\ p.y + p.rowHeight > U16Max)
              => \A r \in Rect : Passed(r, p) => Passed(r, Row(p, w))
<1> USE GridAssumption
<1>1. p.x \in 0 .. Columns /\ p.y \in 0 .. U16Max /\ p.rowHeight \in 0 .. MaxHeight
  BY DEF Packer, Size
<1>2. CASE NewRow(p, w)
  <2> DEFINE q == (p.y + p.rowHeight) % (U16Max + 1)
  <2>1. q \in 0 .. U16Max
    BY <1>1
  <2>2. p.y + p.rowHeight <= U16Max => q = p.y + p.rowHeight
    BY <1>1
  <2> HIDE DEF q
  <2>3. Row(p, w) = [x |-> 0, y |-> q, rowHeight |-> 0]
    BY <1>2 DEF Row, q
  <2>4. Row(p, w) \in Packer
    BY <2>1, <2>3 DEF Packer, Size
  <2>5. ASSUME p.y + p.rowHeight <= U16Max, NEW r \in Rect, Passed(r, p)
        PROVE  Passed(r, Row(p, w))
    <3>1. r.y \in Nat /\ r.h \in Nat /\ r.y + r.h <= p.y + p.rowHeight
      BY <1>1, <2>5 DEF Passed, Rect, Size
    <3> QED
      BY <2>2, <2>3, <2>5, <3>1 DEF Passed
  <2> QED
    BY <1>1, <1>2, <2>3, <2>4, <2>5
<1>3. CASE ~NewRow(p, w)
  BY <1>1, <1>3 DEF Row, NewRow
<1> QED
  BY <1>2, <1>3

\* A chart placed where the packer stands lies on none that the packer has passed; then the
\* packer has passed them all.
LEMMA PlacedIsClear ==
  ASSUME NEW p \in Packer, NEW w \in 1 .. Columns, NEW h \in 1 .. MaxHeight,
         NEW q, q = [x |-> p.x + w, y |-> p.y,
                     rowHeight |-> IF p.rowHeight < h THEN h ELSE p.rowHeight],
         NEW r, r = [x |-> p.x, y |-> p.y, w |-> w, h |-> h],
         NEW d \in Rect, Passed(d, p)
  PROVE  ~Overlap(d, r) /\ ~Overlap(r, d) /\ Passed(d, q) /\ Passed(r, q)
<1>1. p.x \in 0 .. Columns /\ p.y \in 0 .. U16Max /\ p.rowHeight \in 0 .. MaxHeight
  BY DEF Packer, Size
<1>2. d.x \in Nat /\ d.y \in Nat /\ d.w \in Nat /\ d.h \in Nat
  BY GridAssumption DEF Rect, Size
<1> QED
  BY <1>1, <1>2, GridAssumption DEF Passed, Overlap

-----------------------------------------------------------------------------
\* Nothing is placed at first.
LEMMA InitInv == Init => Inv
<1> SUFFICES ASSUME Init PROVE Inv
  OBVIOUS
<1>1. Fresh \in Packer
  BY GridAssumption DEF Fresh, Packer, Size
<1>2. Cardinality(DOMAIN Empty) <= MaxCharts
  BY EmptyIsTidy, FS_EmptySet, GridAssumption
<1>3. TypeOK
  BY <1>1, <1>2, EmptyIsTidy DEF Init, TypeOK
<1>4. Tidy(layout) /\ Tidy(draft) /\ ~placing /\ draft = Empty
  BY EmptyIsTidy DEF Init
<1> QED
  BY <1>3, <1>4 DEF Inv, StaysTidy, InFrontOf

\* The browser stores an arrangement that keeps to the limit, tidy or not.
LEMMA SaveStep ==
  ASSUME Inv, Save
  PROVE  Inv'
<1>1. PICK a \in Saved : /\ Cardinality(DOMAIN a) <= MaxCharts
                         /\ layout' = a /\ tidy' = Tidy(a)
  BY DEF Save
<1>2. UNCHANGED <<draft, placing, packer, overflowed>> /\ ~placing
  BY DEF Save
<1>3. TypeOK'
  BY <1>1, <1>2, GridAssumption DEF Inv, TypeOK, Tidy
<1>4. draft = Empty /\ Tidy(draft')
  BY <1>2, EmptyIsTidy DEF Inv
<1>5. StaysTidy' /\ InFrontOf'
  BY <1>1, <1>2, <1>4 DEF StaysTidy, InFrontOf
<1> QED
  BY <1>2, <1>3, <1>4, <1>5 DEF Inv

\* Removing charts keeps what is left where it is.
LEMMA RemoveStep ==
  ASSUME Inv, RemoveCell
  PROVE  Inv'
<1>1. PICK c \in DOMAIN layout : layout' = Without(layout, {c})
  BY DEF RemoveCell
<1>2. UNCHANGED <<draft, placing, packer, tidy, overflowed>> /\ ~placing
  BY DEF RemoveCell
<1>3. IsArrangement(layout') /\ Cardinality(DOMAIN layout') <= MaxCharts
  <2>1. IsArrangement(layout) /\ Cardinality(DOMAIN layout) <= MaxCharts
    BY DEF Inv, TypeOK
  <2>2. IsArrangement(layout') /\ DOMAIN layout' = DOMAIN layout \ {c}
    BY <1>1, <2>1, WithoutKeeps
  <2>3. Cardinality(DOMAIN layout \ {c}) <= MaxCharts
    BY <2>1, CountKept
  <2> QED
    BY <2>2, <2>3
<1>4. Tidy(layout) => Tidy(layout')
  BY <1>1, WithoutKeeps DEF Inv, TypeOK
<1>5. TypeOK'
  BY <1>2, <1>3 DEF Inv, TypeOK
<1>6. StaysTidy' /\ InFrontOf'
  BY <1>2, <1>4 DEF Inv, StaysTidy, InFrontOf
<1> QED
  BY <1>2, <1>5, <1>6 DEF Inv

\* The packer starts below everything that is kept.
LEMMA BeginStep ==
  ASSUME Inv, Begin
  PROVE  Inv'
<1>1. PICK R \in SUBSET DOMAIN layout :
        LET rest == Without(layout, R)
        IN  \E n \in {0} \cup {Bottom(rest[c]) : c \in DOMAIN rest} :
              /\ IsBelow(n, rest)
              /\ draft' = rest /\ placing' = TRUE
              /\ packer' = [Fresh EXCEPT !.y = n]
              /\ overflowed' =
                   (overflowed \/ \E c \in DOMAIN rest : rest[c].y + rest[c].h > U16Max)
  BY Zenon DEF Begin
<1> DEFINE rest == Without(layout, R)
<1>2. IsArrangement(rest) /\ (Tidy(layout) => Tidy(rest))
  BY WithoutKeeps DEF Inv, TypeOK
<1> HIDE DEF rest
<1>3. PICK n \in {0} \cup {Bottom(rest[c]) : c \in DOMAIN rest} :
        /\ IsBelow(n, rest)
        /\ draft' = rest /\ placing' = TRUE
        /\ packer' = [Fresh EXCEPT !.y = n]
        /\ overflowed' =
             (overflowed \/ \E c \in DOMAIN rest : rest[c].y + rest[c].h > U16Max)
  BY <1>1, Zenon DEF rest
<1>4. \A c \in DOMAIN rest : rest[c] \in Rect
  BY <1>2 DEF IsArrangement
<1>5. n \in 0 .. U16Max
  BY <1>4, GridAssumption DEF Rect, Size, Bottom
<1>6. packer' = [x |-> 0, y |-> n, rowHeight |-> 0]
  BY <1>3 DEF Fresh
<1>7. packer' \in Packer
  BY <1>5, <1>6, GridAssumption DEF Packer, Size
<1>8. UNCHANGED <<layout, tidy>>
  BY DEF Begin
<1>9. overflowed' \in BOOLEAN /\ (~overflowed' => ~overflowed)
  BY <1>3 DEF Inv, TypeOK
<1>10. TypeOK'
  BY <1>2, <1>3, <1>7, <1>8, <1>9 DEF Inv, TypeOK
<1>11. StaysTidy'
  BY <1>2, <1>3, <1>8, <1>9 DEF Inv, StaysTidy
<1>12. ~overflowed' => InFrontOf'
  <2> SUFFICES ASSUME ~overflowed', NEW c \in DOMAIN rest
               PROVE  Passed(rest[c], packer')
    BY <1>3 DEF InFrontOf
  <2>1. ~(rest[c].y + rest[c].h > U16Max)
    BY <1>3
  <2>2. Bottom(rest[c]) <= n
    BY <1>3 DEF IsBelow
  <2> QED
    BY <1>6, <2>1, <2>2 DEF Bottom, Passed
<1> QED
  BY <1>3, <1>10, <1>11, <1>12 DEF Inv

\* A chart is placed where the packer stands, which is free, and the packer passes it.
LEMMA PlaceStep ==
  ASSUME Inv, Place
  PROVE  Inv'
<1>1. PICK c \in Chart \ DOMAIN draft, w \in Widths, h \in Heights :
        LET p == Row(packer, w)
        IN  /\ draft' = With(draft, c, [x |-> p.x, y |-> p.y, w |-> w, h |-> h])
            /\ packer' = [x |-> p.x + w, y |-> p.y,
                          rowHeight |-> IF p.rowHeight < h THEN h ELSE p.rowHeight]
            /\ overflowed' =
                 (overflowed \/ (NewRow(packer, w) /\ packer.y + packer.rowHeight > U16Max))
  BY Zenon DEF Place
<1> DEFINE p == Row(packer, w)
           r == [x |-> p.x, y |-> p.y, w |-> w, h |-> h]
           q == [x |-> p.x + w, y |-> p.y,
                 rowHeight |-> IF p.rowHeight < h THEN h ELSE p.rowHeight]
<1>2. draft' = With(draft, c, r) /\ packer' = q
  BY <1>1
<1>3. overflowed' =
        (overflowed \/ (NewRow(packer, w) /\ packer.y + packer.rowHeight > U16Max))
  BY <1>1
<1>4. UNCHANGED <<layout, placing, tidy>> /\ placing
  BY DEF Place
<1>5. w \in 1 .. Columns /\ h \in 1 .. MaxHeight
  BY SizesFit
<1>6. packer \in Packer /\ IsArrangement(draft)
  BY DEF Inv, TypeOK
<1>7. p \in Packer /\ p.x + w <= Columns
  BY <1>5, <1>6, RowIsFree
<1>8. r \in Rect /\ q \in Packer
  BY <1>5, <1>7, GridAssumption DEF Packer, Rect, Size
<1>9. ~overflowed' =>
        /\ ~overflowed
        /\ \A d \in Rect : Passed(d, packer) => Passed(d, p)
  BY <1>3, <1>5, <1>6, RowIsFree
<1>10. \A d \in Rect : Passed(d, p) =>
         ~Overlap(d, r) /\ ~Overlap(r, d) /\ Passed(d, q) /\ Passed(r, q)
  BY <1>5, <1>7, PlacedIsClear
<1>11. r.x + r.w <= Columns /\ Passed(r, q)
  BY <1>5, <1>7 DEF Packer, Size, Passed
<1> HIDE DEF p, r, q
<1>12. /\ IsArrangement(draft')
       /\ DOMAIN draft' = DOMAIN draft \cup {c}
       /\ draft'[c] = r
       /\ \A d \in DOMAIN draft : draft'[d] = draft[d] /\ draft[d] \in Rect
  <2>1. \A d \in DOMAIN draft : draft[d] \in Rect
    BY <1>6 DEF IsArrangement
  <2>2. /\ IsArrangement(With(draft, c, r))
        /\ DOMAIN With(draft, c, r) = DOMAIN draft \cup {c}
        /\ With(draft, c, r)[c] = r
        /\ \A d \in DOMAIN draft : With(draft, c, r)[d] = draft[d]
    BY <1>6, <1>8, WithAdds
  <2> QED
    BY <1>2, <2>1, <2>2
<1>13. TypeOK'
  BY <1>2, <1>3, <1>4, <1>8, <1>12 DEF Inv, TypeOK
<1>14. ~overflowed' =>
         \A d \in DOMAIN draft : Passed(draft[d], p)
  BY <1>4, <1>9, <1>12 DEF Inv, InFrontOf
<1>15. ~overflowed' => InFrontOf'
  BY <1>2, <1>10, <1>11, <1>12, <1>14 DEF InFrontOf
<1>16. StaysTidy'
  <2> SUFFICES ASSUME tidy', ~overflowed'
               PROVE  Tidy(layout') /\ Tidy(draft')
    BY DEF StaysTidy
  <2>1. Tidy(layout) /\ Tidy(draft)
    BY <1>4, <1>9 DEF Inv, StaysTidy
  <2>2. \A d \in DOMAIN draft : ~Overlap(draft[d], r) /\ ~Overlap(r, draft[d])
    BY <1>10, <1>12, <1>14
  <2>3. Tidy(draft')
    BY <1>11, <1>12, <2>1, <2>2 DEF Tidy
  <2> QED
    BY <1>4, <2>1, <2>3
<1> QED
  BY <1>4, <1>13, <1>15, <1>16 DEF Inv

\* The draft becomes the layout, or the transaction is given up.
LEMMA CommitStep ==
  ASSUME Inv, Commit
  PROVE  Inv'
<1>1. /\ layout' = IF Cardinality(DOMAIN draft) <= MaxCharts THEN draft ELSE layout
      /\ draft' = Empty /\ ~placing' /\ packer' = Fresh
      /\ UNCHANGED <<tidy, overflowed>>
  BY DEF Commit
<1>2. IsArrangement(layout') /\ Cardinality(DOMAIN layout') <= MaxCharts
  <2>1. /\ IsArrangement(layout) /\ Cardinality(DOMAIN layout) <= MaxCharts
        /\ IsArrangement(draft)
    BY DEF Inv, TypeOK
  <2>2. CASE Cardinality(DOMAIN draft) <= MaxCharts
    BY <1>1, <2>1, <2>2
  <2>3. CASE ~(Cardinality(DOMAIN draft) <= MaxCharts)
    BY <1>1, <2>1, <2>3
  <2> QED
    BY <2>2, <2>3
<1>3. Fresh \in Packer
  BY GridAssumption DEF Fresh, Packer, Size
<1>4. placing' \in BOOLEAN
  BY DEF Commit
<1>5. TypeOK'
  BY <1>1, <1>2, <1>3, <1>4, EmptyIsTidy DEF Inv, TypeOK
<1>6. StaysTidy' /\ InFrontOf'
  BY <1>1, EmptyIsTidy DEF Inv, StaysTidy, InFrontOf
<1> QED
  BY <1>1, <1>5, <1>6 DEF Inv

\* So every step keeps the invariant.
LEMMA InvStep ==
  ASSUME Inv, [Next]_vars
  PROVE  Inv'
<1>1. CASE UNCHANGED vars
  BY <1>1 DEF vars, Inv, TypeOK, StaysTidy, InFrontOf, IsArrangement, Tidy
<1> QED
  BY <1>1, SaveStep, RemoveStep, BeginStep, PlaceStep, CommitStep DEF Next

\* It always holds.
LEMMA Invariance == Spec => []Inv
BY InitInv, InvStep, PTL DEF Spec

\* The stored layout keeps to the limit, and every position fits in u16.
THEOREM TypeCorrect == Spec => []TypeOK
BY Invariance, PTL DEF Inv

\* Charts the agent adds never lie on others or outside the columns, whatever their sizes.
THEOREM TidyTheorem == Spec => []StaysTidy
BY Invariance, PTL DEF Inv

-----------------------------------------------------------------------------
(* The tiles: a chart that is marked as running will be heard of, but for  *)
(* those refreshed together.                                               *)

\* A tile's hook waits for its own chart or for nothing; and what the proof needs of types.
WhoWaits ==
  /\ visible \in BOOLEAN
  /\ marked \subseteq Tiles
  /\ awaits \in [Hooks -> Tiles \cup {Nothing}]
  /\ \A t \in Tiles : awaits[t] \in {t, Nothing}

\* Nothing waits at first.
LEMMA InitWhoWaits == TilesInit => WhoWaits /\ BusyTileIsHeardOf
BY DEF TilesInit, WhoWaits, BusyTileIsHeardOf, Hooks

\* A hook sends requests for its own tile only.
LEMMA NextWhoWaits == WhoWaits /\ [TilesNext]_tilesVars => WhoWaits'
<1> SUFFICES ASSUME WhoWaits, [TilesNext]_tilesVars PROVE WhoWaits'
  OBVIOUS
<1> USE DashboardTilesAssumption DEF WhoWaits, Hooks
<1>1. CASE ShowTiles BY <1>1 DEF ShowTiles
<1>2. CASE HideTiles BY <1>2 DEF HideTiles
<1>3. ASSUME NEW t \in Tiles, RefreshTile(t) PROVE WhoWaits' BY <1>3 DEF RefreshTile
<1>4. ASSUME NEW t \in Tiles, RefreshAll(t) PROVE WhoWaits' BY <1>4 DEF RefreshAll
<1>5. ASSUME NEW t \in Tiles, NobodyHears(t) PROVE WhoWaits' BY <1>5 DEF NobodyHears
<1>6. ASSUME NEW k \in Hooks, HookHears(k) PROVE WhoWaits' BY <1>6 DEF HookHears
<1>7. CASE UNCHANGED tilesVars BY <1>7 DEF tilesVars
<1> QED BY <1>1, <1>2, <1>3, <1>4, <1>5, <1>6, <1>7 DEF TilesNext

\* A request that a hook sends replaces at most what the same hook waits for, and what it
\* waits for is marked only if it was sent before; so each step is looked at alone.
LEMMA NextHeardOf ==
  WhoWaits /\ BusyTileIsHeardOf /\ [TilesNext]_tilesVars => BusyTileIsHeardOf'
<1> SUFFICES ASSUME WhoWaits, BusyTileIsHeardOf, [TilesNext]_tilesVars, visible',
                    NEW x \in marked', x \notin overtaken'
             PROVE  \E k \in Hooks : awaits'[k] = x
  BY DEF BusyTileIsHeardOf
<1> USE DEF WhoWaits, BusyTileIsHeardOf
<1>1. CASE ShowTiles
  <2>1. x \in Tiles BY <1>1 DEF ShowTiles
  <2>2. x \in Hooks /\ awaits'[x] = x BY <1>1, <2>1 DEF ShowTiles, Hooks
  <2> QED BY <2>2
<1>2. CASE HideTiles BY <1>2 DEF HideTiles
<1>3. ASSUME NEW t \in Tiles, RefreshTile(t) PROVE \E k \in Hooks : awaits'[k] = x
  <2>1. CASE x = t
    <3>1. t \in Hooks BY DEF Hooks
    <3>2. awaits'[t] = x BY <1>3, <2>1, <3>1 DEF RefreshTile
    <3> QED BY <3>1, <3>2
  <2>2. CASE x # t
    \* The hook of t waited for t at most, so what waits for x is another and still does.
    <3>1. x \in marked /\ x \notin overtaken /\ visible BY <1>3, <2>2 DEF RefreshTile
    <3>2. PICK k \in Hooks : awaits[k] = x BY <3>1
    <3>3. CASE k # t BY <1>3, <3>2, <3>3 DEF RefreshTile
    <3>4. CASE k = t BY <3>1, <3>2, <3>4, <2>2, DashboardTilesAssumption
    <3> QED BY <3>3, <3>4
  <2> QED BY <2>1, <2>2
<1>4. ASSUME NEW t \in Tiles, RefreshAll(t) PROVE \E k \in Hooks : awaits'[k] = x
  <2>1. x = t BY <1>4 DEF RefreshAll
  <2>2. AllTiles \in Hooks BY DEF Hooks
  <2>3. awaits'[AllTiles] = t BY <1>4, <2>2 DEF RefreshAll
  <2> QED BY <2>1, <2>2, <2>3
<1>5. ASSUME NEW t \in Tiles, NobodyHears(t) PROVE \E k \in Hooks : awaits'[k] = x
  BY <1>5 DEF NobodyHears
<1>6. ASSUME NEW j \in Hooks, HookHears(j) PROVE \E k \in Hooks : awaits'[k] = x
  <2>1. x \in marked /\ x # awaits[j] /\ x \notin overtaken /\ visible
    BY <1>6 DEF HookHears
  <2>2. PICK k \in Hooks : awaits[k] = x BY <2>1
  <2>3. awaits'[k] = x BY <1>6, <2>1, <2>2 DEF HookHears
  <2> QED BY <2>3
<1>7. CASE UNCHANGED tilesVars BY <1>7 DEF tilesVars
<1> QED BY <1>1, <1>2, <1>3, <1>4, <1>5, <1>6, <1>7 DEF TilesNext

\* A chart on show that is marked as running will be unmarked, unless it was refreshed with
\* all others and was not the last of them.
THEOREM BusyTilesAreHeardOf == TilesSpec => []BusyTileIsHeardOf
<1>1. WhoWaits /\ BusyTileIsHeardOf /\ [TilesNext]_tilesVars => (WhoWaits /\ BusyTileIsHeardOf)'
  BY NextWhoWaits, NextHeardOf
<1>2. TilesSpec => [](WhoWaits /\ BusyTileIsHeardOf)
  BY InitWhoWaits, <1>1, PTL DEF TilesSpec
<1> QED BY <1>2, PTL

-----------------------------------------------------------------------------
(* The page.                                                               *)

Saves == [canvas : Canvases, layout : Layouts, written : BOOLEAN, heard : BOOLEAN]

\* What a fetch becomes when it is asked for again.
LEMMA RefetchedIs ==
  ASSUME NEW c \in Canvases, fetch \in [Canvases -> Stored \cup {Idle, Asked}]
  PROVE  /\ Refetched(c) \in [Canvases -> Stored \cup {Idle, Asked}]
         /\ \A k \in Canvases : Refetched(c)[k] \in Stored => Refetched(c)[k] = fetch[k]
         /\ Refetched(c)[c] # Idle
         /\ \A k \in Canvases : Refetched(c)[k] = Idle => fetch[k] = Idle
  BY NoLayoutIsNone DEF Refetched

LEMMA JoinedIs ==
  ASSUME NEW c \in Canvases, fetch \in [Canvases -> Stored \cup {Idle, Asked}]
  PROVE  /\ Joined(c) \in [Canvases -> Stored \cup {Idle, Asked}]
         /\ \A k \in Canvases : Joined(c)[k] \in Stored => Joined(c)[k] = fetch[k]
  BY NoLayoutIsNone DEF Joined

\* A layout that is new.
LEMMA NewLayouts ==
  ASSUME NEW c \in Canvases, made \in 1 .. MaxLayouts
  PROVE  /\ Blank(c) \in Layouts /\ Blank(c).of = c
         /\ Newer(c).of = c
         /\ made < MaxLayouts => Newer(c) \in Layouts /\ made + 1 \in 1 .. MaxLayouts
  BY DashboardPageAssumption DEF Blank, Newer, Layouts

\* What is stored, or nothing, is shown as a layout of the canvas.
LEMMA ShownIs ==
  ASSUME NEW c \in Canvases, NEW l
  PROVE  /\ OnShow(c, l) \in Layouts
         /\ l \in Layouts => OnShow(c, l) = l
         /\ l \notin Layouts => OnShow(c, l) = Blank(c) /\ OnShow(c, l).of = c
  BY DashboardPageAssumption DEF OnShow, Blank, Layouts

\* What goes to the store comes from the cache.
LEMMA GoneOn ==
  ASSUME DashboardPageTypeOK, NEW c \in Canvases, waiting[c] # <<>>,
         NEW d \in [Canvases -> Stored \cup {Missing}], GoOn(c, d)
  PROVE  /\ mode' \in {"VIEWING", "EDITING"} /\ grid' \in Layouts
         /\ \A k \in Canvases :
              waiting'[k] \in Seq({"VIEWING", "EDITING"}) /\ Len(waiting'[k]) <= MaxClicks
         /\ mine' \in {mine, Missing} /\ news' \in {news, FALSE} /\ mishap' \in {mishap, "strayed"}
<1>1. grid' \in Layouts
  BY ShownIs DEF GoOn, AfterEffect, DashboardPageTypeOK
<1>2. mine' \in {mine, Missing} /\ news' \in {news, FALSE} /\ mishap' \in {mishap, "strayed"}
  BY DEF GoOn
<1>3. mode' \in {"VIEWING", "EDITING"}
  BY ElementOfSeq, LenProperties, EmptySeq DEF DashboardPageTypeOK, GoOn
<1>4. \A k \in Canvases :
        waiting'[k] \in Seq({"VIEWING", "EDITING"}) /\ Len(waiting'[k]) <= MaxClicks
  BY DashboardPageAssumption, EmptySeq DEF DashboardPageTypeOK, GoOn
<1> QED
  BY <1>1, <1>2, <1>3, <1>4

\* Coming, going and fetching keep the types.
LEMMA VisitsKeepTypes ==
  ASSUME DashboardPageTypeOK,
         \/ Reload \/ Leave
         \/ \E c \in Canvases :
              Open(c) \/ FetchDashboard(c) \/ DashboardRead(c) \/ Fetched(c) \/ FetchFails(c)
  PROVE  DashboardPageTypeOK'
<1> USE DEF slice, cache, dashboardRows, history
<1>0. /\ fetch \in [Canvases -> Stored \cup {Idle, Asked}]
      /\ layouts \in [Canvases -> Stored \cup {Missing}]
      /\ onDashboard \in [Canvases -> Stored] /\ made \in 1 .. MaxLayouts /\ saves \subseteq Saves
  BY DEF DashboardPageTypeOK, Saves
<1>1. {[p EXCEPT !.heard = FALSE] : p \in saves} \subseteq Saves
  BY <1>0 DEF Saves
<1>2. \A c \in Canvases : Blank(c) \in Layouts
  BY <1>0, NewLayouts
<1>3. CASE Reload
  <2>1. <<>> \in Seq({"VIEWING", "EDITING"}) /\ Len(<<>>) <= MaxClicks
    BY DashboardPageAssumption, EmptySeq
  <2>2. \A c \in Canvases :
          waiting'[c] \in Seq({"VIEWING", "EDITING"}) /\ Len(waiting'[c]) <= MaxClicks
    BY <1>3, <2>1 DEF Reload
  <2>3. /\ grid' \in Layouts /\ saves' \subseteq Saves
        /\ layouts' \in [Canvases -> Stored \cup {Missing}]
        /\ fetch' \in [Canvases -> Stored \cup {Idle, Asked}]
    BY <1>1, <1>2, <1>3 DEF Reload
  <2> QED
    BY <1>3, <2>2, <2>3 DEF Reload, DashboardPageTypeOK, Saves
<1>4. CASE Leave
  BY <1>1, <1>4 DEF Leave, DashboardPageTypeOK, Saves
<1>5. ASSUME NEW c \in Canvases, Open(c)
      PROVE  DashboardPageTypeOK'
  <2>1. grid' \in Layouts
    BY <1>5, ShownIs DEF Open
  <2>2. fetch' \in [Canvases -> Stored \cup {Idle, Asked}]
    BY <1>0, <1>5, JoinedIs DEF Open
  <2> QED
    BY <1>5, <2>1, <2>2 DEF Open, DashboardPageTypeOK
<1>6. ASSUME NEW c \in Canvases, FetchDashboard(c) \/ DashboardRead(c)
      PROVE  DashboardPageTypeOK'
  <2>1. fetch' \in [Canvases -> Stored \cup {Idle, Asked}]
    BY <1>0, <1>6, JoinedIs DEF FetchDashboard, DashboardRead
  <2> QED
    BY <1>6, <2>1 DEF FetchDashboard, DashboardRead, DashboardPageTypeOK
<1>7. ASSUME NEW c \in Canvases, Fetched(c)
      PROVE  DashboardPageTypeOK'
  <2>1. /\ fetch' \in [Canvases -> Stored \cup {Idle, Asked}]
        /\ layouts' \in [Canvases -> Stored \cup {Missing}]
    BY <1>0, <1>7 DEF Fetched
  <2>2. CASE waiting[c] # <<>>
    <3>1. GoOn(c, layouts')
      BY <1>7, <2>2 DEF Fetched
    <3>2. /\ mode' \in {"VIEWING", "EDITING"} /\ grid' \in Layouts
          /\ \A k \in Canvases :
               waiting'[k] \in Seq({"VIEWING", "EDITING"}) /\ Len(waiting'[k]) <= MaxClicks
          /\ mine' \in {mine, Missing} /\ news' \in {news, FALSE}
          /\ mishap' \in {mishap, "strayed"}
      BY <2>1, <2>2, <3>1, GoneOn
    <3> QED
      BY <1>7, <2>1, <3>2 DEF Fetched, DashboardPageTypeOK
  <2>3. CASE waiting[c] = <<>>
    <3>1. grid' \in Layouts /\ news' \in BOOLEAN /\ UNCHANGED <<mode, waiting, mine, mishap>>
      BY <1>7, <2>3, ShownIs DEF Fetched, AfterEffect, DashboardPageTypeOK
    <3> QED
      BY <1>7, <2>1, <3>1 DEF Fetched, DashboardPageTypeOK
  <2> QED
    BY <2>2, <2>3
<1>8. ASSUME NEW c \in Canvases, FetchFails(c)
      PROVE  DashboardPageTypeOK'
  <2>1. fetch' \in [Canvases -> Stored \cup {Idle, Asked}]
    BY <1>0, <1>8 DEF FetchFails
  <2>2. CASE waiting[c] # <<>>
    <3>1. GoOn(c, layouts)
      BY <1>8, <2>2 DEF FetchFails
    <3>2. /\ mode' \in {"VIEWING", "EDITING"} /\ grid' \in Layouts
          /\ \A k \in Canvases :
               waiting'[k] \in Seq({"VIEWING", "EDITING"}) /\ Len(waiting'[k]) <= MaxClicks
          /\ mine' \in {mine, Missing} /\ news' \in {news, FALSE}
          /\ mishap' \in {mishap, "strayed"}
      BY <1>0, <2>2, <3>1, GoneOn
    <3> QED
      BY <1>8, <2>1, <3>2 DEF FetchFails, DashboardPageTypeOK
  <2>3. CASE waiting[c] = <<>>
    BY <1>8, <2>1, <2>3 DEF FetchFails, DashboardPageTypeOK
  <2> QED
    BY <2>2, <2>3
<1> QED
  BY <1>3, <1>4, <1>5, <1>6, <1>7, <1>8

\* So do editing and saving.
LEMMA EditsKeepTypes ==
  ASSUME DashboardPageTypeOK,
         \/ ChangeLayout
         \/ \E c \in Canvases :
              \/ Click(c, "EDITING") \/ Click(c, "VIEWING") \/ SavedElsewhere(c)
              \/ \E known \in BOOLEAN : SaveLayout(c, known)
         \/ \E p \in saves : SaveWritten(p) \/ SaveAnswered(p) \/ SaveFails(p)
  PROVE  DashboardPageTypeOK'
<1> USE DEF slice, cache, dashboardRows, history
<1>0. /\ fetch \in [Canvases -> Stored \cup {Idle, Asked}] /\ grid \in Layouts
      /\ onDashboard \in [Canvases -> Stored] /\ made \in 1 .. MaxLayouts /\ saves \subseteq Saves
      /\ kept \in [Canvases -> SUBSET Layouts] /\ view \in Canvases \cup {Away}
  BY DEF DashboardPageTypeOK, Saves
<1>1. {[p EXCEPT !.heard = FALSE] : p \in saves} \subseteq Saves
  BY <1>0 DEF Saves
<1>2. CASE ChangeLayout
  <2>1. grid.of \in Canvases
    BY <1>0 DEF Layouts
  <2>2. Newer(grid.of) \in Layouts /\ made' \in 1 .. MaxLayouts
    BY <1>0, <1>2, <2>1, NewLayouts DEF ChangeLayout
  <2> QED
    BY <1>2, <2>2 DEF ChangeLayout, DashboardPageTypeOK
<1>3. ASSUME NEW c \in Canvases, NEW m \in {"VIEWING", "EDITING"}, Click(c, m)
      PROVE  DashboardPageTypeOK'
  <2>1. fetch' \in [Canvases -> Stored \cup {Idle, Asked}]
    BY <1>0, <1>3, RefetchedIs DEF Click
  <2>2. ASSUME NEW k \in Canvases
        PROVE  waiting'[k] \in Seq({"VIEWING", "EDITING"}) /\ Len(waiting'[k]) <= MaxClicks
    <3>1. waiting[k] \in Seq({"VIEWING", "EDITING"}) /\ Len(waiting[k]) <= MaxClicks
      BY DEF DashboardPageTypeOK
    <3>2. waiting'[k] = waiting[k] \/ (k = c /\ waiting'[k] = Append(waiting[k], m))
      BY <1>3 DEF Click
    <3>3. Append(waiting[k], m) \in Seq({"VIEWING", "EDITING"})
          /\ Len(Append(waiting[k], m)) = Len(waiting[k]) + 1
      BY <3>1, AppendProperties
    <3>4. k = c => Len(waiting[k]) < MaxClicks /\ Len(waiting[k]) \in Nat
      BY <1>3, <3>1, LenProperties DEF Click
    <3>5. CASE waiting'[k] = waiting[k]
      BY <3>1, <3>5
    <3>6. CASE k = c /\ waiting'[k] = Append(waiting[k], m)
      <4>1. Len(waiting'[k]) \in Nat /\ Len(waiting'[k]) = Len(waiting[k]) + 1
        BY <3>3, <3>4, <3>6
      <4>2. Len(waiting'[k]) <= MaxClicks
        <5> DEFINE before == Len(waiting[k])
                   after == Len(waiting'[k])
        <5>1. before \in Nat /\ before < MaxClicks /\ after = before + 1 /\ MaxClicks \in Nat
          BY <3>4, <3>6, <4>1, DashboardPageAssumption
        <5> HIDE DEF before, after
        <5>2. after <= MaxClicks
          BY <5>1
        <5> QED
          BY <5>2 DEF after
      <4> QED
        BY <3>3, <3>6, <4>2
    <3> QED
      BY <3>2, <3>5, <3>6
  <2> QED
    BY <1>3, <2>1, <2>2 DEF Click, DashboardPageTypeOK
<1>4. ASSUME NEW c \in Canvases, SavedElsewhere(c)
      PROVE  DashboardPageTypeOK'
  <2>1. Newer(c) \in Layouts /\ made' \in 1 .. MaxLayouts
    BY <1>0, <1>4, NewLayouts DEF SavedElsewhere
  <2>2. onDashboard' \in [Canvases -> Stored]
    BY <1>0, <1>4, <2>1 DEF SavedElsewhere, Stored
  <2>3. kept' \in [Canvases -> SUBSET Layouts]
    BY <1>0, <1>4, ShownIs DEF SavedElsewhere
  <2> QED
    BY <1>4, <2>1, <2>2, <2>3 DEF SavedElsewhere, DashboardPageTypeOK
<1>5. ASSUME NEW c \in Canvases, NEW known \in BOOLEAN, SaveLayout(c, known)
      PROVE  DashboardPageTypeOK'
  <2>1. [canvas |-> c, layout |-> grid, written |-> FALSE, heard |-> TRUE] \in Saves
    BY <1>0 DEF Saves
  <2>2. saves' \subseteq Saves /\ mishap' \in {mishap, "dropped"}
    BY <1>0, <1>1, <1>5, <2>1 DEF SaveLayout
  <2> QED
    BY <1>5, <2>2 DEF SaveLayout, DashboardPageTypeOK, Saves
<1>6. ASSUME NEW p \in saves, SaveWritten(p)
      PROVE  DashboardPageTypeOK'
  <2>1. p \in Saves /\ p.canvas \in Canvases /\ p.layout \in Layouts
    BY <1>0 DEF Saves
  <2>2. [p EXCEPT !.written = TRUE] \in Saves
    BY <2>1 DEF Saves
  <2>3. saves' \subseteq Saves
    BY <1>0, <1>6, <2>2 DEF SaveWritten
  <2>4. onDashboard' \in [Canvases -> Stored] /\ kept' \in [Canvases -> SUBSET Layouts]
    BY <1>0, <1>6, <2>1 DEF SaveWritten, Stored
  <2> QED
    BY <1>6, <2>3, <2>4 DEF SaveWritten, DashboardPageTypeOK, Saves
<1>7. ASSUME NEW p \in saves, SaveAnswered(p) \/ SaveFails(p)
      PROVE  DashboardPageTypeOK'
  <2>1. fetch' \in [Canvases -> Stored \cup {Idle, Asked}]
    BY <1>0, <1>7, RefetchedIs DEF SaveAnswered, SaveFails
  <2>2. saves' \subseteq Saves /\ mode' \in {"VIEWING", "EDITING"}
    BY <1>0, <1>7 DEF SaveAnswered, SaveFails, DashboardPageTypeOK
  <2> QED
    BY <1>7, <2>1, <2>2 DEF SaveAnswered, SaveFails, DashboardPageTypeOK, Saves
<1> QED
  BY <1>2, <1>3, <1>4, <1>5, <1>6, <1>7

\* Every variable of the page has its type.
LEMMA DashboardPageTypes == DashboardSpec => []DashboardPageTypeOK
<1>1. DashboardInit => DashboardPageTypeOK
  <2> SUFFICES ASSUME DashboardInit
               PROVE  DashboardPageTypeOK
    OBVIOUS
  <2>1. 1 \in 1 .. MaxLayouts /\ 0 \in 0 .. MaxLayouts /\ made = 1
    BY DashboardPageAssumption DEF DashboardInit
  <2>2. \A c \in Canvases : Blank(c) \in Layouts /\ [of |-> c, v |-> 1] \in Layouts
    BY <2>1, DashboardPageAssumption DEF Blank, Layouts
  <2>3. <<>> \in Seq({"VIEWING", "EDITING"}) /\ Len(<<>>) <= MaxClicks
    BY DashboardPageAssumption, EmptySeq
  <2>4. \A c \in Canvases :
          waiting[c] \in Seq({"VIEWING", "EDITING"}) /\ Len(waiting[c]) <= MaxClicks
    BY <2>3 DEF DashboardInit
  <2>5. onDashboard \in [Canvases -> Stored] /\ kept \in [Canvases -> SUBSET Layouts]
    BY <2>2, ShownIs DEF DashboardInit, Stored
  <2> QED
    BY <2>1, <2>2, <2>4, <2>5 DEF DashboardInit, DashboardPageTypeOK
<1>2. DashboardPageTypeOK /\ [DashboardNext]_dashboardVars => DashboardPageTypeOK'
  <2> SUFFICES ASSUME DashboardPageTypeOK, [DashboardNext]_dashboardVars
               PROVE  DashboardPageTypeOK'
    OBVIOUS
  <2>1. CASE DashboardNext
    BY <2>1, VisitsKeepTypes, EditsKeepTypes DEF DashboardNext
  <2>2. CASE UNCHANGED dashboardVars
    BY <2>2 DEF dashboardVars, DashboardPageTypeOK
  <2> QED
    BY <2>1, <2>2
<1> QED
  BY <1>1, <1>2, PTL DEF DashboardSpec

\* What the cache has, what was read and what is stored of a canvas was stored there at some time,
\* or is shown as an empty layout when none was; and its charts are the canvas's own.
StoredHere ==
  /\ \A c \in Canvases :
       /\ layouts[c] # Missing => OnShow(c, layouts[c]) \in kept[c]
       /\ fetch[c] \in Stored => OnShow(c, fetch[c]) \in kept[c]
       /\ OnShow(c, onDashboard[c]) \in kept[c]
       /\ \A l \in kept[c] : l.of = c
  /\ \A p \in saves : p.layout.of = p.canvas /\ (p.written => p.layout \in kept[p.canvas])

\* The layout on show: whose it is, who made it, and what becomes of it.  What was not stored
\* is the user's, and is under edit, being saved, or on a dashboard that has no layout.
LayoutOnShow ==
  view # Away /\ mishap # "strayed" =>
    /\ grid.of = view
    /\ mine # Missing => grid = mine \/ news
    /\ grid \in kept[view] \/ layouts[view] = Missing \/ grid = mine
    /\ mode = "VIEWING" /\ mishap = "none" =>
         \/ grid \in kept[view] \/ layouts[view] = Missing
         \/ layouts[view] = NoLayout /\ grid = mine
         \/ \E p \in saves : p.heard /\ p.layout = grid /\ p.canvas = view

PageKept == DashboardPageTypeOK /\ StoredHere /\ LayoutOnShow

\* Nobody hears of a save any more: it is the same save.
LEMMA Unheard ==
  ASSUME saves \subseteq Saves, NEW q \in {[p EXCEPT !.heard = FALSE] : p \in saves}
  PROVE  \E p \in saves : q.layout = p.layout /\ q.canvas = p.canvas /\ q.written = p.written
<1>1. PICK p \in saves : q = [p EXCEPT !.heard = FALSE]
  OBVIOUS
<1>2. p \in Saves
  OBVIOUS
<1>3. q.layout = p.layout /\ q.canvas = p.canvas /\ q.written = p.written
  BY <1>1, <1>2 DEF Saves
<1> QED
  BY <1>3

\* A page that comes or goes shows what was stored.
LEMMA VisitsKeepPage ==
  ASSUME PageKept, Reload \/ Leave \/ \E c \in Canvases : Open(c)
  PROVE  StoredHere' /\ LayoutOnShow'
<1> USE DEF slice, cache, dashboardRows, history
<1>0. saves \subseteq Saves /\ fetch \in [Canvases -> Stored \cup {Idle, Asked}]
  BY DEF PageKept, DashboardPageTypeOK, Saves
<1>1. \A q \in {[p EXCEPT !.heard = FALSE] : p \in saves} :
       \E p \in saves : q.layout = p.layout /\ q.canvas = p.canvas /\ q.written = p.written
  BY <1>0, Unheard
<1>2. CASE Reload
  <2>1. \A c \in Canvases : layouts'[c] = Missing /\ fetch'[c] = Idle
    BY <1>2 DEF Reload
  <2>2. StoredHere'
    <3>1. \A c \in Canvases :
            /\ layouts'[c] # Missing => OnShow(c, layouts'[c]) \in kept'[c]
            /\ fetch'[c] \in Stored => OnShow(c, fetch'[c]) \in kept'[c]
            /\ OnShow(c, onDashboard'[c]) \in kept'[c]
            /\ \A l \in kept'[c] : l.of = c
      BY <1>2, <2>1, NoLayoutIsNone DEF Reload, PageKept, StoredHere
    <3>2. \A q \in saves' : q.layout.of = q.canvas /\ (q.written => q.layout \in kept'[q.canvas])
      BY <1>1, <1>2 DEF Reload, PageKept, StoredHere
    <3> QED
      BY <3>1, <3>2 DEF StoredHere
  <2> QED
    BY <1>2, <2>2 DEF Reload, LayoutOnShow
<1>3. CASE Leave
  <2>1. StoredHere'
    <3>1. \A q \in saves' : q.layout.of = q.canvas /\ (q.written => q.layout \in kept'[q.canvas])
      BY <1>1, <1>3 DEF Leave, PageKept, StoredHere
    <3> QED
      BY <1>3, <3>1 DEF Leave, PageKept, StoredHere
  <2> QED
    BY <1>3, <2>1 DEF Leave, LayoutOnShow
<1>4. ASSUME NEW c \in Canvases, Open(c)
      PROVE  StoredHere' /\ LayoutOnShow'
  <2>1. \A k \in Canvases : fetch'[k] \in Stored => fetch'[k] = fetch[k]
    BY <1>0, <1>4, JoinedIs DEF Open
  <2>2. StoredHere'
    BY <1>4, <2>1 DEF Open, PageKept, StoredHere
  <2>3. /\ grid' = OnShow(c, layouts[c]) /\ view' = c /\ mine' = Missing
        /\ UNCHANGED <<layouts, kept>>
    BY <1>4 DEF Open
  <2>4. grid'.of = c /\ (layouts[c] = Missing \/ grid' \in kept[c])
    <3>1. layouts[c] # Missing => grid' \in kept[c] /\ grid'.of = c
      BY <2>3 DEF PageKept, StoredHere
    <3>2. layouts[c] = Missing => layouts[c] \notin Layouts
      BY NoLayoutIsNone DEF Stored
    <3> QED
      BY <2>3, <3>1, <3>2, ShownIs
  <2> QED
    BY <2>2, <2>3, <2>4 DEF LayoutOnShow
<1> QED
  BY <1>2, <1>3, <1>4

\* What is known of the layout on show, while something is.
ShowsIt(g, m, n) ==
  /\ g.of = view
  /\ m # Missing => g = m \/ n
  /\ g \in kept[view] \/ layouts[view] = Missing \/ g = m
  /\ mode = "VIEWING" =>
       \/ g \in kept[view] \/ layouts[view] = Missing
       \/ layouts[view] = NoLayout /\ g = m
       \/ \E p \in saves : p.heard /\ p.layout = g /\ p.canvas = view

\* The clicks that waited go on with a stored layout, or leave the one on show where there is none.
LEMMA WhereItGoesOn ==
  ASSUME PageKept, mishap = "none", NEW c \in Canvases,
         NEW d \in [Canvases -> Stored \cup {Missing}], layouts' = d, GoOn(c, d),
         d[c] # Missing => OnShow(c, d[c]) \in kept[c] /\ OnShow(c, d[c]).of = c,
         UNCHANGED <<view, saves, kept>>
  PROVE  LayoutOnShow'
<1> SUFFICES ASSUME view = c, c # Away
             PROVE  LayoutOnShow'
  BY DEF GoOn, LayoutOnShow
<1>1. ShowsIt(grid, mine, news)
  BY DEF PageKept, LayoutOnShow, ShowsIt
<1>2. CASE d[c] \in Layouts
  <2>1. grid' = d[c] /\ mine' = Missing
    BY <1>2 DEF GoOn
  <2>2. grid' \in kept[c] /\ grid'.of = c
    BY <1>2, <2>1, ShownIs, NoLayoutIsNone DEF Stored
  <2> QED
    BY <2>1, <2>2 DEF LayoutOnShow
<1>3. CASE d[c] \notin Layouts /\ d[c] # layouts[c]
  <2>1. grid' = OnShow(c, d[c]) /\ mine' = Missing
    BY <1>3 DEF GoOn, AfterEffect
  <2>2. grid'.of = c
    BY <1>3, <2>1, ShownIs
  <2> QED
    BY <2>1, <2>2 DEF LayoutOnShow
<1>4. CASE d[c] \notin Layouts /\ d[c] = layouts[c]
  <2>1. UNCHANGED <<grid, mine, news>>
    BY <1>4 DEF GoOn, AfterEffect
  <2>2. layouts[c] \in {NoLayout, Missing}
    BY <1>4 DEF Stored
  <2> QED
    BY <1>1, <1>4, <2>1, <2>2 DEF LayoutOnShow, ShowsIt
<1> QED
  BY <1>2, <1>3, <1>4

\* What is fetched was stored, and goes to the store when it is news or was waited for.
LEMMA FetchesKeepPage ==
  ASSUME PageKept, mishap = "none", NEW c \in Canvases,
         FetchDashboard(c) \/ DashboardRead(c) \/ Fetched(c) \/ FetchFails(c)
  PROVE  StoredHere' /\ LayoutOnShow'
<1> USE DEF slice, cache, dashboardRows, history
<1>0. /\ fetch \in [Canvases -> Stored \cup {Idle, Asked}]
      /\ layouts \in [Canvases -> Stored \cup {Missing}] /\ view \in Canvases \cup {Away}
      /\ onDashboard \in [Canvases -> Stored]
  BY DEF PageKept, DashboardPageTypeOK
<1>1. CASE FetchDashboard(c)
  <2>1. \A k \in Canvases : fetch'[k] \in Stored => fetch'[k] = fetch[k]
    BY <1>0, <1>1, JoinedIs DEF FetchDashboard
  <2>2. StoredHere'
    BY <1>1, <2>1 DEF FetchDashboard, PageKept, StoredHere
  <2> QED
    BY <1>1, <2>2 DEF FetchDashboard, PageKept, LayoutOnShow
<1>2. CASE DashboardRead(c)
  <2>1. \A k \in Canvases : fetch'[k] = fetch[k] \/ fetch'[k] = onDashboard[k]
    BY <1>0, <1>2 DEF DashboardRead
  <2>2. StoredHere'
    BY <1>2, <2>1 DEF DashboardRead, PageKept, StoredHere
  <2> QED
    BY <1>2, <2>2 DEF DashboardRead, PageKept, LayoutOnShow
<1>3. CASE Fetched(c)
  <2> DEFINE shown == OnShow(c, fetch[c])
  <2>1. /\ fetch[c] \in Stored /\ fetch[c] # Missing /\ fetch'[c] = Idle
        /\ layouts' = [layouts EXCEPT ![c] = fetch[c]] /\ layouts'[c] = fetch[c]
        /\ \A k \in Canvases \ {c} : layouts'[k] = layouts[k] /\ fetch'[k] = fetch[k]
        /\ UNCHANGED <<view, saves, onDashboard, kept>>
    BY <1>0, <1>3, NoLayoutIsNone DEF Fetched
  <2>2. shown \in kept[c] /\ shown.of = c
    BY <2>1 DEF PageKept, StoredHere
  <2>3. StoredHere'
    BY <2>1, <2>2, NoLayoutIsNone DEF PageKept, StoredHere
  <2>4. CASE waiting[c] # <<>>
    <3>1. GoOn(c, layouts') /\ layouts' \in [Canvases -> Stored \cup {Missing}]
      BY <1>0, <1>3, <2>4 DEF Fetched
    <3> QED
      BY <2>1, <2>2, <2>3, <3>1, WhereItGoesOn
  <2>5. CASE waiting[c] = <<>>
    <3>1. /\ grid' = IF view = c /\ fetch[c] # layouts[c] THEN shown ELSE grid
          /\ news' = (news \/ (view = c /\ fetch[c] # layouts[c]))
          /\ UNCHANGED <<mode, mine, mishap>>
      BY <1>3, <2>1, <2>5 DEF Fetched, AfterEffect
    <3> HIDE DEF shown
    <3> SUFFICES ASSUME view # Away
                 PROVE  LayoutOnShow'
      BY <2>1, <2>3 DEF LayoutOnShow
    <3>2. ShowsIt(grid, mine, news)
      BY DEF PageKept, LayoutOnShow, ShowsIt
    <3>3. CASE view = c /\ fetch[c] # layouts[c]
      BY <2>1, <2>2, <3>1, <3>3 DEF LayoutOnShow
    <3>4. CASE view = c /\ fetch[c] = layouts[c]
      BY <2>1, <3>1, <3>2, <3>4 DEF LayoutOnShow, ShowsIt
    <3>5. CASE view # c
      <4>1. layouts'[view] = layouts[view]
        BY <1>0, <2>1, <3>5
      <4> QED
        BY <2>1, <3>1, <3>2, <3>5, <4>1 DEF LayoutOnShow, ShowsIt
    <3> QED
      BY <3>3, <3>4, <3>5
  <2> QED
    BY <2>3, <2>4, <2>5
<1>4. CASE FetchFails(c)
  <2>1. /\ fetch'[c] = Idle /\ \A k \in Canvases \ {c} : fetch'[k] = fetch[k]
        /\ UNCHANGED <<view, layouts, saves, onDashboard, kept>>
    BY <1>0, <1>4 DEF FetchFails
  <2>2. StoredHere'
    BY <2>1, NoLayoutIsNone DEF PageKept, StoredHere
  <2>3. CASE waiting[c] # <<>>
    <3>1. GoOn(c, layouts)
      BY <1>4, <2>3 DEF FetchFails
    <3>2. layouts[c] # Missing => OnShow(c, layouts[c]) \in kept[c] /\ OnShow(c, layouts[c]).of = c
      BY DEF PageKept, StoredHere
    <3> QED
      BY <1>0, <2>1, <2>2, <3>1, <3>2, WhereItGoesOn
  <2>4. CASE waiting[c] = <<>>
    BY <1>4, <2>1, <2>2, <2>4 DEF FetchFails, PageKept, LayoutOnShow
  <2> QED
    BY <2>3, <2>4
<1> QED
  BY <1>1, <1>2, <1>3, <1>4

\* Editing: what the user makes is on show, and what is saved is heard of.
LEMMA EditsKeepPage ==
  ASSUME PageKept, mishap = "none",
         \/ ChangeLayout
         \/ \E c \in Canvases :
              \/ Click(c, "EDITING") \/ Click(c, "VIEWING") \/ SavedElsewhere(c)
              \/ \E known \in BOOLEAN : SaveLayout(c, known)
  PROVE  StoredHere' /\ LayoutOnShow'
<1> USE DEF slice, cache, dashboardRows, history
<1>0. /\ fetch \in [Canvases -> Stored \cup {Idle, Asked}] /\ saves \subseteq Saves
      /\ onDashboard \in [Canvases -> Stored] /\ kept \in [Canvases -> SUBSET Layouts]
      /\ view \in Canvases \cup {Away} /\ made \in 1 .. MaxLayouts
  BY DEF PageKept, DashboardPageTypeOK, Saves
<1>1. CASE ChangeLayout
  <2>1. grid'.of = grid.of /\ mine' = grid' /\ mode' = "EDITING" /\ view' = view
    BY <1>1 DEF ChangeLayout, Newer
  <2>2. StoredHere'
    BY <1>1 DEF ChangeLayout, PageKept, StoredHere
  <2> QED
    BY <1>1, <2>1, <2>2 DEF ChangeLayout, PageKept, LayoutOnShow
<1>2. ASSUME NEW c \in Canvases, NEW m, Click(c, m)
      PROVE  StoredHere' /\ LayoutOnShow'
  <2>1. \A k \in Canvases : fetch'[k] \in Stored => fetch'[k] = fetch[k]
    BY <1>0, <1>2, RefetchedIs DEF Click
  <2>2. StoredHere'
    BY <1>2, <2>1 DEF Click, PageKept, StoredHere
  <2> QED
    BY <1>2, <2>2 DEF Click, PageKept, LayoutOnShow
<1>3. ASSUME NEW c \in Canvases, SavedElsewhere(c)
      PROVE  StoredHere' /\ LayoutOnShow'
  <2>1. Newer(c).of = c
    BY <1>0, NewLayouts
  <2>2. /\ kept'[c] = kept[c] \cup {OnShow(c, onDashboard'[c])}
        /\ onDashboard'[c] \in {Newer(c), NoLayout}
        /\ \A k \in Canvases \ {c} : onDashboard'[k] = onDashboard[k] /\ kept'[k] = kept[k]
        /\ UNCHANGED <<view, mode, grid, layouts, fetch, waiting, saves, mine, news, mishap>>
    BY <1>0, <1>3 DEF SavedElsewhere
  <2>3. \A k \in Canvases : kept[k] \subseteq kept'[k]
    BY <2>2
  <2>4. \A p \in saves : p.canvas \in Canvases
    BY <1>0 DEF Saves
  <2>5. OnShow(c, onDashboard'[c]).of = c
    BY <2>1, <2>2, ShownIs, NoLayoutIsNone
  <2>6. StoredHere'
    BY <2>2, <2>3, <2>4, <2>5 DEF PageKept, StoredHere
  <2> QED
    BY <1>0, <2>2, <2>3, <2>6 DEF PageKept, LayoutOnShow
<1>4. ASSUME NEW c \in Canvases, NEW known \in BOOLEAN, SaveLayout(c, known)
      PROVE  StoredHere' /\ LayoutOnShow'
  <2> DEFINE saved == [canvas |-> c, layout |-> grid, written |-> FALSE, heard |-> TRUE]
  <2>1. /\ view = c /\ view # Away /\ grid.of = c /\ (mine # Missing => grid = mine \/ news)
        /\ grid \in kept[view] \/ layouts[view] = Missing \/ grid = mine
        /\ UNCHANGED <<view, grid, layouts, fetch, onDashboard, kept, mine, news>>
    BY <1>4, DashboardPageAssumption DEF SaveLayout, PageKept, LayoutOnShow
  <2>2. \/ /\ saves' = {[p EXCEPT !.heard = FALSE] : p \in saves} \cup {saved}
           /\ mishap' = "none"
        \/ saves' = saves /\ mishap' = "dropped"
    BY <1>4 DEF SaveLayout
  <2>3. /\ saved.canvas = c /\ saved.layout = grid /\ ~saved.written /\ saved.heard
    OBVIOUS
  <2>4. \A q \in {[p EXCEPT !.heard = FALSE] : p \in saves} :
         \E p \in saves : q.layout = p.layout /\ q.canvas = p.canvas /\ q.written = p.written
    BY <1>0, Unheard
  <2> HIDE DEF saved
  <2>5. \A p \in saves' :
          \/ p = saved
          \/ \E q \in saves : p.layout = q.layout /\ p.canvas = q.canvas /\ p.written = q.written
    BY <2>2, <2>4
  <2>6. StoredHere'
    BY <2>1, <2>3, <2>5 DEF PageKept, StoredHere
  <2>7. LayoutOnShow'
    BY <2>1, <2>2, <2>3 DEF LayoutOnShow
  <2> QED
    BY <2>6, <2>7
<1> QED
  BY <1>1, <1>2, <1>3, <1>4

\* Saving: what is answered was stored, and what fails is under edit again.
LEMMA SavesKeepPage ==
  ASSUME PageKept, mishap = "none", NEW p \in saves,
         SaveWritten(p) \/ SaveAnswered(p) \/ SaveFails(p)
  PROVE  StoredHere' /\ LayoutOnShow'
<1> USE DEF slice, cache, dashboardRows, history
<1>0. /\ fetch \in [Canvases -> Stored \cup {Idle, Asked}] /\ saves \subseteq Saves
      /\ onDashboard \in [Canvases -> Stored] /\ kept \in [Canvases -> SUBSET Layouts]
      /\ view \in Canvases \cup {Away} /\ p \in Saves
  BY DEF PageKept, DashboardPageTypeOK, Saves
<1>1. /\ p.canvas \in Canvases /\ p.layout.of = p.canvas
      /\ p.written => p.layout \in kept[p.canvas]
  BY <1>0 DEF Saves, PageKept, StoredHere
<1>2. view # Away => ShowsIt(grid, mine, news)
  BY DEF PageKept, LayoutOnShow, ShowsIt
<1>3. CASE SaveWritten(p)
  <2> DEFINE done == [p EXCEPT !.written = TRUE]
  <2>1. /\ done.layout = p.layout /\ done.canvas = p.canvas /\ done.heard = p.heard
    BY <1>0 DEF Saves
  <2> HIDE DEF done
  <2>2. /\ saves' = (saves \ {p}) \cup {done}
        /\ UNCHANGED <<view, mode, grid, layouts, fetch, mine, news, mishap>>
        /\ \A k \in Canvases :
             /\ kept[k] \subseteq kept'[k] /\ \A l \in kept'[k] : l \in kept[k] \/ (k = p.canvas /\ l = p.layout)
             /\ onDashboard'[k] = onDashboard[k] \/ (k = p.canvas /\ onDashboard'[k] = p.layout)
        /\ p.layout \in kept'[p.canvas] /\ OnShow(p.canvas, p.layout) = p.layout
    BY <1>0, <1>1, <1>3, ShownIs DEF SaveWritten, Saves, done
  <2>3. \A q \in saves : q.canvas \in Canvases
    BY <1>0 DEF Saves
  <2>4. StoredHere'
    <3>1. \A c \in Canvases :
            /\ layouts'[c] # Missing => OnShow(c, layouts'[c]) \in kept'[c]
            /\ fetch'[c] \in Stored => OnShow(c, fetch'[c]) \in kept'[c]
            /\ OnShow(c, onDashboard'[c]) \in kept'[c]
            /\ \A l \in kept'[c] : l.of = c
      BY <1>1, <2>2 DEF PageKept, StoredHere
    <3>2. \A q \in saves' : q.layout.of = q.canvas /\ (q.written => q.layout \in kept'[q.canvas])
      BY <1>1, <2>1, <2>2, <2>3 DEF PageKept, StoredHere
    <3> QED
      BY <3>1, <3>2 DEF StoredHere
  <2>5. LayoutOnShow'
    <3> SUFFICES ASSUME view # Away
                 PROVE  LayoutOnShow'
      BY <2>2 DEF LayoutOnShow
    <3>1. \A q \in saves : q.heard /\ q.layout = grid /\ q.canvas = view =>
            \E r \in saves' : r.heard /\ r.layout = grid /\ r.canvas = view
      BY <2>1, <2>2
    <3> QED
      BY <1>0, <1>2, <2>2, <3>1 DEF LayoutOnShow, ShowsIt
  <2> QED
    BY <2>4, <2>5
<1>4. CASE SaveAnswered(p)
  <2>1. \A k \in Canvases : fetch'[k] \in Stored => fetch'[k] = fetch[k]
    BY <1>0, <1>4, RefetchedIs DEF SaveAnswered
  <2>2. /\ saves' = saves \ {p} /\ p.written
        /\ UNCHANGED <<view, mode, grid, layouts, onDashboard, kept, mine, news, mishap>>
    BY <1>4 DEF SaveAnswered
  <2>3. StoredHere'
    BY <2>1, <2>2 DEF PageKept, StoredHere
  <2> QED
    BY <1>1, <1>2, <2>2, <2>3 DEF LayoutOnShow, ShowsIt
<1>5. CASE SaveFails(p)
  <2>1. /\ saves' = saves \ {p} /\ mode' = IF p.heard THEN "EDITING" ELSE mode
        /\ UNCHANGED <<view, grid, layouts, fetch, onDashboard, kept, mine, news, mishap>>
    BY <1>5 DEF SaveFails
  <2>2. StoredHere'
    BY <2>1 DEF PageKept, StoredHere
  <2> QED
    BY <1>2, <2>1, <2>2 DEF LayoutOnShow, ShowsIt
<1> QED
  BY <1>3, <1>4, <1>5

\* What the properties of the page follow from always holds.
LEMMA PageKeptHolds == DashboardSpec => []PageKept
<1>1. DashboardInit => StoredHere /\ LayoutOnShow
  <2> SUFFICES ASSUME DashboardInit
               PROVE  StoredHere /\ LayoutOnShow
    OBVIOUS
  <2>1. \A c \in Canvases :
          /\ layouts[c] = Missing /\ fetch[c] = Idle
          /\ kept[c] = {OnShow(c, onDashboard[c])}
          /\ onDashboard[c] = NoLayout \/ onDashboard[c].of = c
    BY DEF DashboardInit
  <2>3. \A c \in Canvases : OnShow(c, onDashboard[c]).of = c
    BY <2>1, ShownIs, NoLayoutIsNone
  <2>2. view = Away /\ saves = {}
    BY DEF DashboardInit
  <2> QED
    BY <2>1, <2>2, <2>3, NoLayoutIsNone DEF StoredHere, LayoutOnShow
<1>2. PageKept /\ [DashboardNext]_dashboardVars => StoredHere' /\ LayoutOnShow'
  <2> SUFFICES ASSUME PageKept, [DashboardNext]_dashboardVars
               PROVE  StoredHere' /\ LayoutOnShow'
    OBVIOUS
  <2>1. CASE DashboardNext
    BY <2>1, VisitsKeepPage, FetchesKeepPage, EditsKeepPage, SavesKeepPage DEF DashboardNext
  <2>2. CASE UNCHANGED dashboardVars
    BY <2>2 DEF dashboardVars, PageKept, StoredHere, LayoutOnShow
  <2> QED
    BY <2>1, <2>2
<1>3. PageKept <=> DashboardPageTypeOK /\ StoredHere /\ LayoutOnShow
  BY DEF PageKept
<1> QED
  BY <1>1, <1>2, <1>3, DashboardPageTypes, PTL DEF DashboardSpec

\* No save stores the layout of one canvas on another, for any canvases, layouts and requests.
THEOREM SavesBelong == DashboardSpec => []SavedWhereItBelongs
<1>1. PageKept => SavedWhereItBelongs
  BY DEF PageKept, StoredHere, SavedWhereItBelongs
<1> QED
  BY <1>1, PageKeptHolds, PTL

\* What the user made of the layout stays on show until there is news.
THEOREM LayoutStays == DashboardSpec => []EditsStayOnShow
<1>1. PageKept => EditsStayOnShow
  BY DEF PageKept, LayoutOnShow, EditsStayOnShow
<1> QED
  BY <1>1, PageKeptHolds, PTL

\* A page at rest shows what was stored, a dashboard without a layout none or the user's own:
\* a save that failed is under edit again.
THEOREM RestShowsStored == DashboardSpec => []RestingShowsStored
<1>1. PageKept => RestingShowsStored
  BY DEF PageKept, LayoutOnShow, RestingShowsStored
<1> QED
  BY <1>1, PageKeptHolds, PTL

-----------------------------------------------------------------------------
(* The summaries: polls leave what is typed alone, and a panel at rest     *)
(* shows what the service has.                                             *)

\* While nobody else writes the prompt of the summary the dialog is about, the last answer,
\* a fetch that has read, and the service have the same one, and no request for another is
\* under way.
NoOtherPrompt ==
  prompting # NoDialog /\ prompting.alone =>
    /\ answer # NotRead
    /\ answer[prompting.of].prompt = summaries[prompting.of].prompt
    /\ asking \in Snapshots => asking[prompting.of].prompt = summaries[prompting.of].prompt
    /\ \A q \in calls : q.kind = "prompt" => prompting.of \notin q.of

Requests == [kind : {"one", "all", "prompt"}, of : SUBSET Summarized,
             prompt : 0 .. MaxPrompts, taken : BOOLEAN, heard : BOOLEAN]
Dialogs == [of : Summarized, value : 0 .. MaxPrompts, typed : 0 .. MaxPrompts, alone : BOOLEAN]

-----------------------------------------------------------------------------
(* The types.                                                              *)

\* The prompt an answer shows for a summary is one that was written.
LEMMA PromptOfAnswer ==
  ASSUME NEW e \in Summarized, PanelTypeOK
  PROVE  PromptIn(answer, e) \in 0 .. MaxPrompts
  BY SummaryPanelAssumption DEF PanelTypeOK, PromptIn, Snapshots

\* What the user does in the dialog keeps the types.
LEMMA DialogStepsKeepTypes ==
  ASSUME PanelTypeOK,
         \/ \E e \in Summarized : OpenDialog(e)
         \/ TypePrompt \/ SaveDialog \/ CancelDialog
  PROVE  PanelTypeOK'
<1>1. ASSUME NEW e \in Summarized, OpenDialog(e) PROVE PanelTypeOK'
  <2>1. PromptIn(answer, e) \in 0 .. MaxPrompts
    BY PromptOfAnswer
  <2>2. 0 \in 0 .. MaxPrompts
    BY SummaryPanelAssumption
  <2>3. prompting' \in Dialogs
    BY <1>1, <2>1, <2>2, Zenon DEF OpenDialog, Dialogs
  <2> QED
    BY <1>1, <2>3 DEF OpenDialog, PanelTypeOK, Dialogs
<1>2. CASE TypePrompt
  <2>1. prompting \in Dialogs
    BY <1>2 DEF TypePrompt, PanelTypeOK, Dialogs
  <2>2. prompts' \in 0 .. MaxPrompts
    BY <1>2, SummaryPanelAssumption DEF TypePrompt, PanelTypeOK
  <2>3. prompting' \in Dialogs
    BY <1>2, <2>1, <2>2 DEF TypePrompt, Dialogs
  <2> QED
    BY <1>2, <2>2, <2>3 DEF TypePrompt, PanelTypeOK, Dialogs
<1>3. CASE SaveDialog
  <2>1. prompting \in Dialogs
    BY <1>3 DEF SaveDialog, PanelTypeOK, Dialogs
  <2>2. [kind |-> "prompt", of |-> {prompting.of}, prompt |-> prompting.value,
         taken |-> FALSE, heard |-> TRUE] \in Requests
    BY <2>1 DEF Dialogs, Requests
  <2>3. calls' \subseteq Requests
    BY <1>3, <2>2 DEF SaveDialog, Call, PanelTypeOK, Requests
  <2> QED
    BY <1>3, <2>3 DEF SaveDialog, PanelTypeOK, Requests
<1>4. CASE CancelDialog
  BY <1>4 DEF CancelDialog, PanelTypeOK
<1> QED
  BY <1>1, <1>2, <1>3, <1>4

\* So do the requests and the service.
LEMMA RequestStepsKeepTypes ==
  ASSUME PanelTypeOK,
         \/ PressGenerateAll
         \/ \E e \in Summarized :
              PressGenerate(e) \/ GenerationDone(e) \/ GeneratedElsewhere(e) \/ PromptElsewhere(e)
         \/ \E q \in calls : ServiceTakes(q) \/ CallEnds(q)
  PROVE  PanelTypeOK'
<1> DEFINE Rows == [status : {"none", "GENERATING", "done"}, prompt : 0 .. MaxPrompts]
<1>z. 0 \in 0 .. MaxPrompts
  BY SummaryPanelAssumption
<1>0. summaries \in [Summarized -> Rows]
  BY DEF PanelTypeOK, Snapshots
<1>1. CASE PressGenerateAll
  <2>1. [kind |-> "all", of |-> SummaryCharts, prompt |-> 0,
         taken |-> FALSE, heard |-> TRUE] \in Requests
    BY <1>z, SummaryPanelAssumption DEF Requests
  <2>2. calls' \subseteq Requests
    BY <1>1, <2>1 DEF PressGenerateAll, Call, PanelTypeOK, Requests
  <2> QED
    BY <1>1, <2>2 DEF PressGenerateAll, PanelTypeOK, Requests
<1>2. ASSUME NEW e \in Summarized, PressGenerate(e) PROVE PanelTypeOK'
  <2>1. [kind |-> "one", of |-> {e}, prompt |-> 0, taken |-> FALSE, heard |-> TRUE] \in Requests
    BY <1>z DEF Requests
  <2>2. calls' \subseteq Requests
    BY <1>2, <2>1 DEF PressGenerate, Call, PanelTypeOK, Requests
  <2> QED
    BY <1>2, <2>2 DEF PressGenerate, PanelTypeOK, Requests
<1>3. ASSUME NEW e \in Summarized, GenerationDone(e) PROVE PanelTypeOK'
  <2>1. summaries' \in [Summarized -> Rows]
    BY <1>0, <1>3 DEF GenerationDone
  <2> QED
    BY <1>3, <2>1 DEF GenerationDone, PanelTypeOK, Snapshots
<1>4. ASSUME NEW e \in Summarized, GeneratedElsewhere(e) PROVE PanelTypeOK'
  <2>1. summaries' \in [Summarized -> Rows]
    BY <1>0, <1>4 DEF GeneratedElsewhere
  <2> QED
    BY <1>4, <2>1 DEF GeneratedElsewhere, PanelTypeOK, Snapshots
<1>5. ASSUME NEW e \in Summarized, PromptElsewhere(e) PROVE PanelTypeOK'
  <2>1. prompts' \in 0 .. MaxPrompts
    BY <1>5, SummaryPanelAssumption DEF PromptElsewhere, PanelTypeOK
  <2>2. summaries' \in [Summarized -> Rows]
    BY <1>0, <1>5, <2>1 DEF PromptElsewhere
  <2>3. prompting' \in Dialogs \cup {NoDialog}
    BY <1>5 DEF PromptElsewhere, PanelTypeOK, Dialogs
  <2> QED
    BY <1>5, <2>1, <2>2, <2>3 DEF PromptElsewhere, PanelTypeOK, Snapshots, Dialogs
<1>6. ASSUME NEW q \in calls, ServiceTakes(q) PROVE PanelTypeOK'
  <2>1. q \in Requests
    BY DEF PanelTypeOK, Requests
  <2>2. [q EXCEPT !.taken = TRUE] \in Requests
    BY <2>1 DEF Requests
  <2>3. calls' \subseteq Requests
    BY <1>6, <2>2 DEF ServiceTakes, PanelTypeOK, Requests
  <2>4. ASSUME NEW e \in Summarized
        PROVE  (CASE e \notin q.of -> summaries[e]
                  [] e \in q.of /\ q.kind = "prompt" -> [summaries[e] EXCEPT !.prompt = q.prompt]
                  [] e \in q.of /\ q.kind # "prompt" -> [summaries[e] EXCEPT !.status = "GENERATING"])
                 \in Rows
    BY <1>0, <2>1 DEF Requests
  <2>5. summaries' \in [Summarized -> Rows]
    BY <1>6, <2>4 DEF ServiceTakes
  <2> QED
    BY <1>6, <2>3, <2>5 DEF ServiceTakes, PanelTypeOK, Snapshots, Requests
<1>7. ASSUME NEW q \in calls, CallEnds(q) PROVE PanelTypeOK'
  BY <1>7 DEF CallEnds, Invalidated, PanelTypeOK
<1> QED
  BY <1>1, <1>2, <1>3, <1>4, <1>5, <1>6, <1>7

\* So does the query.
LEMMA QueryStepsKeepTypes ==
  ASSUME PanelTypeOK,
         ShowPanel \/ HidePanel \/ Poll \/ SummariesRead \/ SummariesArrive \/ SummariesFail
  PROVE  PanelTypeOK'
<1>1. CASE ShowPanel
  BY <1>1 DEF ShowPanel, PanelTypeOK
<1>2. CASE HidePanel
  <2>1. \A q \in calls : [q EXCEPT !.heard = FALSE] \in Requests
    BY DEF PanelTypeOK, Requests
  <2>2. calls' \subseteq Requests
    BY <1>2, <2>1 DEF HidePanel
  <2> QED
    BY <1>2, <2>2 DEF HidePanel, PanelTypeOK, Requests
<1>3. CASE Poll
  BY <1>3 DEF Poll, PanelTypeOK
<1>4. CASE SummariesRead
  BY <1>4 DEF SummariesRead, PanelTypeOK
<1>5. CASE SummariesArrive
  <2>1. \A e \in Summarized : asking[e].prompt \in 0 .. MaxPrompts
    BY <1>5 DEF SummariesArrive, Snapshots
  <2>2. prompting' \in Dialogs \cup {NoDialog}
    BY <1>5, <2>1 DEF SummariesArrive, PanelTypeOK, Dialogs
  <2> QED
    BY <1>5, <2>2 DEF SummariesArrive, PanelTypeOK, Dialogs
<1>6. CASE SummariesFail
  BY <1>6 DEF SummariesFail, PanelTypeOK
<1> QED
  BY <1>1, <1>2, <1>3, <1>4, <1>5, <1>6

\* Every variable of the panel has its type.
LEMMA PanelTypes == PanelSpec => []PanelTypeOK
<1>1. PanelInit => PanelTypeOK
  <2> SUFFICES ASSUME PanelInit PROVE PanelTypeOK
    OBVIOUS
  <2>0. 0 \in 0 .. MaxPrompts
    BY SummaryPanelAssumption
  <2>1. [status |-> "none", prompt |-> 0]
          \in [status : {"none", "GENERATING", "done"}, prompt : 0 .. MaxPrompts]
    BY <2>0
  <2>2. summaries \in Snapshots
    BY <2>1 DEF PanelInit, Snapshots
  <2> QED
    BY <2>0, <2>2 DEF PanelInit, PanelTypeOK
<1>2. PanelTypeOK /\ [PanelNext]_panelVars => PanelTypeOK'
  <2> SUFFICES ASSUME PanelTypeOK, [PanelNext]_panelVars PROVE PanelTypeOK'
    OBVIOUS
  <2>1. CASE PanelNext
    BY <2>1, DialogStepsKeepTypes, RequestStepsKeepTypes, QueryStepsKeepTypes DEF PanelNext
  <2>2. CASE UNCHANGED panelVars
    BY <2>2 DEF panelVars, PanelTypeOK
  <2> QED
    BY <2>1, <2>2
<1> QED
  BY <1>1, <1>2, PTL DEF PanelSpec

-----------------------------------------------------------------------------
(* The prompt.                                                             *)

PromptKept == NoOtherPrompt /\ TypedPromptIsKept

\* The dialog's own steps keep the invariant: opening it establishes it.
LEMMA DialogStepsKeepPrompt ==
  ASSUME PanelTypeOK, PromptKept,
         \/ \E e \in Summarized : OpenDialog(e)
         \/ TypePrompt \/ SaveDialog \/ CancelDialog
  PROVE  PromptKept'
<1>1. ASSUME NEW e \in Summarized, OpenDialog(e) PROVE PromptKept'
  <2> DEFINE alone == /\ answer # NotRead /\ PromptIn(answer, e) = summaries[e].prompt
                      /\ asking \in Snapshots => PromptIn(asking, e) = summaries[e].prompt
                      /\ \A q \in calls : q.kind = "prompt" => e \notin q.of
  <2>a. prompting'.of = e /\ (prompting'.alone <=> alone)
    BY <1>1, Zenon DEF OpenDialog
  <2>b. alone => /\ answer # NotRead /\ answer[e].prompt = summaries[e].prompt
                 /\ asking \in Snapshots => asking[e].prompt = summaries[e].prompt
    BY NoAnswerIsNoSnapshot DEF PromptIn
  <2>1. NoOtherPrompt'
    BY <1>1, <2>a, <2>b DEF OpenDialog, NoOtherPrompt
  <2>2. TypedPromptIsKept'
    BY <1>1 DEF OpenDialog, TypedPromptIsKept
  <2> QED
    BY <2>1, <2>2 DEF PromptKept
<1>2. CASE TypePrompt
  <2>1. prompting \in Dialogs
    BY <1>2 DEF TypePrompt, PanelTypeOK, Dialogs
  <2>2. /\ prompting'.of = prompting.of /\ prompting'.alone = prompting.alone
        /\ prompting'.value = prompting'.typed
    BY <1>2, <2>1 DEF TypePrompt, Dialogs
  <2> QED
    BY <1>2, <2>2 DEF TypePrompt, PromptKept, NoOtherPrompt, TypedPromptIsKept
<1>3. CASE SaveDialog
  BY <1>3 DEF SaveDialog, PromptKept, NoOtherPrompt, TypedPromptIsKept
<1>4. CASE CancelDialog
  BY <1>4 DEF CancelDialog, PromptKept, NoOtherPrompt, TypedPromptIsKept
<1> QED
  BY <1>1, <1>2, <1>3, <1>4

\* A new request that is not for a prompt, and the end of one, keep it.
LEMMA CallsKeepPrompt ==
  ASSUME PanelTypeOK, PromptKept,
         \/ PressGenerateAll
         \/ \E e \in Summarized : PressGenerate(e)
         \/ \E q \in calls : CallEnds(q)
  PROVE  PromptKept'
<1>1. CASE PressGenerateAll
  <2>1. \A q \in calls' : q.kind = "prompt" => q \in calls
    BY <1>1 DEF PressGenerateAll, Call
  <2> QED
    BY <1>1, <2>1 DEF PressGenerateAll, PromptKept, NoOtherPrompt, TypedPromptIsKept
<1>2. ASSUME NEW e \in Summarized, PressGenerate(e) PROVE PromptKept'
  <2>1. \A q \in calls' : q.kind = "prompt" => q \in calls
    BY <1>2 DEF PressGenerate, Call
  <2> QED
    BY <1>2, <2>1 DEF PressGenerate, PromptKept, NoOtherPrompt, TypedPromptIsKept
<1>3. ASSUME NEW q \in calls, CallEnds(q) PROVE PromptKept'
  BY <1>3, NoAnswerIsNoSnapshot
     DEF CallEnds, Invalidated, PromptKept, NoOtherPrompt, TypedPromptIsKept
<1> QED
  BY <1>1, <1>2, <1>3

\* The service, and other clients: only a request of this page for the same prompt, and there
\* is none, or another client could change the prompt.
LEMMA ServiceKeepsPrompt ==
  ASSUME PanelTypeOK, PromptKept,
         \/ \E e \in Summarized : GenerationDone(e) \/ GeneratedElsewhere(e) \/ PromptElsewhere(e)
         \/ \E q \in calls : ServiceTakes(q)
  PROVE  PromptKept'
<1> DEFINE SamePrompts == \A e \in Summarized : summaries'[e].prompt = summaries[e].prompt
<1>0. summaries \in [Summarized -> [status : {"none", "GENERATING", "done"},
                                    prompt : 0 .. MaxPrompts]]
  BY DEF PanelTypeOK, Snapshots
<1>d. prompting # NoDialog => prompting \in Dialogs
  BY DEF PanelTypeOK, Dialogs
<1>1. ASSUME NEW e \in Summarized, GenerationDone(e) PROVE PromptKept'
  <2>1. SamePrompts
    BY <1>0, <1>1 DEF GenerationDone
  <2> QED
    BY <1>1, <1>d, <2>1
       DEF GenerationDone, PromptKept, NoOtherPrompt, TypedPromptIsKept, Dialogs
<1>2. ASSUME NEW e \in Summarized, GeneratedElsewhere(e) PROVE PromptKept'
  <2>1. SamePrompts
    BY <1>0, <1>2 DEF GeneratedElsewhere
  <2> QED
    BY <1>2, <1>d, <2>1
       DEF GeneratedElsewhere, PromptKept, NoOtherPrompt, TypedPromptIsKept, Dialogs
<1>3. ASSUME NEW e \in Summarized, PromptElsewhere(e) PROVE PromptKept'
  <2>1. prompting' # NoDialog => prompting'.alone = FALSE
    BY <1>3, <1>d DEF PromptElsewhere, Dialogs
  <2> QED
    BY <2>1 DEF PromptKept, NoOtherPrompt, TypedPromptIsKept
<1>4. ASSUME NEW q \in calls, ServiceTakes(q) PROVE PromptKept'
  <2> SUFFICES ASSUME prompting # NoDialog, prompting.alone PROVE PromptKept'
    BY <1>4 DEF ServiceTakes, PromptKept, NoOtherPrompt, TypedPromptIsKept
  <2>1. prompting.of \in Summarized
    BY <1>d DEF Dialogs
  <2>2. q.kind = "prompt" => prompting.of \notin q.of
    BY DEF PromptKept, NoOtherPrompt
  <2>3. summaries'[prompting.of].prompt = summaries[prompting.of].prompt
    BY <1>0, <1>4, <2>1, <2>2 DEF ServiceTakes
  <2>4. q \in Requests
    BY DEF PanelTypeOK, Requests
  <2>5. [q EXCEPT !.taken = TRUE].kind = q.kind /\ [q EXCEPT !.taken = TRUE].of = q.of
    BY <2>4 DEF Requests
  <2>6. \A r \in calls' : r.kind = "prompt" => prompting.of \notin r.of
    BY <1>4, <2>2, <2>5 DEF ServiceTakes, PromptKept, NoOtherPrompt
  <2> QED
    BY <1>4, <2>3, <2>6 DEF ServiceTakes, PromptKept, NoOtherPrompt, TypedPromptIsKept
<1> QED
  BY <1>1, <1>2, <1>3, <1>4

\* The query: an answer has the prompt the dialog was opened on.
LEMMA QueryKeepsPrompt ==
  ASSUME PanelTypeOK, PromptKept,
         ShowPanel \/ HidePanel \/ Poll \/ SummariesRead \/ SummariesArrive \/ SummariesFail
  PROVE  PromptKept'
<1>1. CASE ShowPanel
  BY <1>1, NoAnswerIsNoSnapshot
     DEF ShowPanel, PromptKept, NoOtherPrompt, TypedPromptIsKept
<1>2. CASE HidePanel
  BY <1>2 DEF HidePanel, PromptKept, NoOtherPrompt, TypedPromptIsKept
<1>3. CASE Poll
  BY <1>3, NoAnswerIsNoSnapshot DEF Poll, PromptKept, NoOtherPrompt, TypedPromptIsKept
<1>4. CASE SummariesRead
  BY <1>4 DEF SummariesRead, PromptKept, NoOtherPrompt, TypedPromptIsKept
<1>5. CASE SummariesArrive
  <2>1. CASE prompting # NoDialog /\ prompting.alone
    <3>1. asking[prompting.of].prompt = PromptIn(answer, prompting.of)
      BY <1>5, <2>1 DEF SummariesArrive, PromptKept, NoOtherPrompt, PromptIn
    <3>2. prompting' = prompting
      BY <1>5, <3>1 DEF SummariesArrive
    <3> QED
      BY <1>5, <2>1, <3>2, NoAnswerIsNoSnapshot
         DEF SummariesArrive, PromptKept, NoOtherPrompt, TypedPromptIsKept
  <2>2. CASE ~(prompting # NoDialog /\ prompting.alone)
    <3>1. prompting # NoDialog => prompting \in Dialogs
      BY DEF PanelTypeOK, Dialogs
    <3>2. prompting' # NoDialog => ~prompting'.alone
      BY <1>5, <2>2, <3>1 DEF SummariesArrive, Dialogs
    <3> QED
      BY <3>2 DEF PromptKept, NoOtherPrompt, TypedPromptIsKept
  <2> QED
    BY <2>1, <2>2
<1>6. CASE SummariesFail
  BY <1>6, NoAnswerIsNoSnapshot
     DEF SummariesFail, PromptKept, NoOtherPrompt, TypedPromptIsKept
<1> QED
  BY <1>1, <1>2, <1>3, <1>4, <1>5, <1>6

\* What is typed into the dialog for a prompt is not replaced by an answer of the poll, whatever
\* the dashboard and however many requests are under way, while no other client writes the
\* prompt (SummaryPromptDialog's effect on initialPrompt).
THEOREM TypedPromptStays == PanelSpec => []TypedPromptIsKept
<1>1. PanelInit => PromptKept
  BY DEF PanelInit, PromptKept, NoOtherPrompt, TypedPromptIsKept
<1>2. PanelTypeOK /\ PromptKept /\ [PanelNext]_panelVars => PromptKept'
  <2> SUFFICES ASSUME PanelTypeOK, PromptKept, [PanelNext]_panelVars PROVE PromptKept'
    OBVIOUS
  <2>1. CASE PanelNext
    BY <2>1, DialogStepsKeepPrompt, CallsKeepPrompt, ServiceKeepsPrompt, QueryKeepsPrompt
       DEF PanelNext
  <2>2. CASE UNCHANGED panelVars
    BY <2>2 DEF panelVars, PromptKept, NoOtherPrompt, TypedPromptIsKept
  <2> QED
    BY <2>1, <2>2
<1>3. PromptKept => TypedPromptIsKept
  BY DEF PromptKept
<1> QED
  BY <1>1, <1>2, <1>3, PanelTypes, PTL DEF PanelSpec

-----------------------------------------------------------------------------
(* A panel at rest.                                                        *)

\* A request the service has taken and nobody was told the end of changed the summary of e.
Changing(e, kinds) == \E q \in calls : q.taken /\ q.kind \in kinds /\ e \in q.of

\* Snapshot s lacks nothing but what such requests did, and the end of a generation it shows.
UpToDate(s) ==
  \A e \in Summarized :
    /\ s[e].prompt = summaries[e].prompt \/ Changing(e, {"prompt"})
    /\ \/ s[e].status = summaries[e].status \/ s[e].status = "GENERATING"
       \/ Changing(e, {"one", "all"})

\* Unless something was missed, what was read is up to date; so is what is shown, if it is not
\* to be read again.
PanelFollows ==
  ~missed =>
    /\ asking \in Snapshots => UpToDate(asking)
    /\ answer # NotRead /\ asking = QueryIdle /\ ~invalid => UpToDate(answer)
    /\ open /\ invalid => asking # QueryIdle

\* What was up to date stays so while the service changes nothing and the requests stay.
LEMMA QuietServiceKeepsUpToDate ==
  ASSUME summaries' = summaries,
         \A q \in calls : \E r \in calls' : r.taken = q.taken /\ r.kind = q.kind /\ r.of = q.of,
         asking' \in Snapshots => asking' = asking, answer' = answer,
         asking' = QueryIdle => asking = QueryIdle, invalid' = invalid, missed' = missed,
         open' => open \/ ~invalid \/ asking' # QueryIdle,
         PanelFollows
  PROVE  PanelFollows'
<1>1. \A e \in Summarized : \A kinds : Changing(e, kinds) => Changing(e, kinds)'
  BY DEF Changing
<1>2. UpToDate(asking) /\ asking' = asking => UpToDate(asking)'
  BY <1>1 DEF UpToDate
<1>3. UpToDate(answer) => UpToDate(answer)'
  BY <1>1 DEF UpToDate
<1> QED
  BY <1>2, <1>3 DEF PanelFollows

\* Looking at the panel, and asking for more.
LEMMA UserKeepsFollowing ==
  ASSUME PanelTypeOK, PanelFollows,
         \/ ShowPanel \/ HidePanel \/ Poll \/ PressGenerateAll \/ TypePrompt \/ SaveDialog
         \/ CancelDialog \/ \E e \in Summarized : PressGenerate(e) \/ OpenDialog(e)
  PROVE  PanelFollows'
<1>1. CASE HidePanel
  <2>1. ASSUME NEW q \in calls
        PROVE  \E r \in calls' : r.taken = q.taken /\ r.kind = q.kind /\ r.of = q.of
    <3>1. [q EXCEPT !.heard = FALSE] \in calls'
      BY <1>1 DEF HidePanel
    <3>2. q \in Requests
      BY DEF PanelTypeOK, Requests
    <3>3. /\ [q EXCEPT !.heard = FALSE].taken = q.taken /\ [q EXCEPT !.heard = FALSE].kind = q.kind
          /\ [q EXCEPT !.heard = FALSE].of = q.of
      BY <3>2 DEF Requests
    <3> QED
      BY <3>1, <3>3
  <2> QED
    BY <1>1, <2>1, QuietServiceKeepsUpToDate DEF HidePanel
<1>2. CASE ShowPanel
  BY <1>2, QuietServiceKeepsUpToDate, NoAnswerIsNoSnapshot DEF ShowPanel
<1>3. CASE Poll
  BY <1>3, QuietServiceKeepsUpToDate, NoAnswerIsNoSnapshot DEF Poll
<1>4. CASE TypePrompt \/ CancelDialog \/ \E e \in Summarized : OpenDialog(e)
  BY <1>4, QuietServiceKeepsUpToDate DEF TypePrompt, CancelDialog, OpenDialog
<1>5. CASE PressGenerateAll \/ SaveDialog \/ \E e \in Summarized : PressGenerate(e)
  <2>1. calls \subseteq calls' /\ UNCHANGED <<open, summaries, answer, asking, invalid, missed>>
    BY <1>5 DEF PressGenerateAll, SaveDialog, PressGenerate, Call
  <2> QED
    BY <2>1, QuietServiceKeepsUpToDate
<1> QED
  BY <1>1, <1>2, <1>3, <1>4, <1>5

\* Reading, and what was read.
LEMMA ReadingKeepsFollowing ==
  ASSUME PanelTypeOK, PanelFollows, SummariesRead \/ SummariesArrive \/ SummariesFail
  PROVE  PanelFollows'
<1>1. CASE SummariesRead
  <2>1. asking' = summaries /\ asking' # QueryIdle /\ UpToDate(asking)'
    BY <1>1, NoAnswerIsNoSnapshot DEF SummariesRead, PanelTypeOK, UpToDate
  <2> QED
    BY <2>1 DEF PanelFollows
<1>2. CASE SummariesArrive
  <2>1. /\ UNCHANGED <<open, summaries, calls, missed>> /\ asking \in Snapshots
        /\ answer' = asking /\ asking' = QueryIdle /\ invalid' = FALSE
    BY <1>2 DEF SummariesArrive
  <2>2. UpToDate(asking) => UpToDate(answer)'
    BY <2>1 DEF UpToDate, Changing
  <2> QED
    BY <2>1, <2>2, NoAnswerIsNoSnapshot DEF PanelFollows
<1>3. CASE SummariesFail
  BY <1>3 DEF SummariesFail, PanelFollows
<1> QED
  BY <1>1, <1>2, <1>3

\* The service, and the end of a request.
LEMMA ServiceKeepsFollowing ==
  ASSUME PanelTypeOK, PanelFollows,
         \/ \E e \in Summarized : GenerationDone(e) \/ GeneratedElsewhere(e) \/ PromptElsewhere(e)
         \/ \E q \in calls : ServiceTakes(q) \/ CallEnds(q)
  PROVE  PanelFollows'
<1>0. summaries \in [Summarized -> [status : {"none", "GENERATING", "done"},
                                    prompt : 0 .. MaxPrompts]]
  BY DEF PanelTypeOK, Snapshots
<1>1. ASSUME NEW e \in Summarized, GenerationDone(e)
      PROVE  PanelFollows'
  <2>1. /\ \A k \in Summarized :
             /\ summaries'[k].prompt = summaries[k].prompt
             /\ summaries'[k].status = summaries[k].status \/ summaries[k].status = "GENERATING"
        /\ UNCHANGED <<open, answer, asking, invalid, calls, missed>>
    BY <1>0, <1>1 DEF GenerationDone
  <2>2. \A k \in Summarized : \A kinds : Changing(k, kinds)' <=> Changing(k, kinds)
    BY <2>1 DEF Changing
  <2>3. /\ UpToDate(asking) => UpToDate(asking)'
        /\ UpToDate(answer) => UpToDate(answer)'
    BY <2>1, <2>2 DEF UpToDate
  <2> QED
    BY <2>1, <2>3 DEF PanelFollows
<1>2. ASSUME NEW e \in Summarized, GeneratedElsewhere(e) \/ PromptElsewhere(e)
      PROVE  PanelFollows'
  BY <1>2 DEF GeneratedElsewhere, PromptElsewhere, PanelFollows
<1>3. ASSUME NEW q \in calls, ServiceTakes(q)
      PROVE  PanelFollows'
  <2> DEFINE taken == [q EXCEPT !.taken = TRUE]
  <2>1. q \in Requests /\ ~q.taken
    BY <1>3 DEF ServiceTakes, PanelTypeOK, Requests
  <2>2. taken.taken /\ taken.kind = q.kind /\ taken.of = q.of
    BY <2>1 DEF Requests
  <2> HIDE DEF taken
  <2>3. /\ calls' = (calls \ {q}) \cup {taken}
        /\ UNCHANGED <<open, answer, asking, invalid, missed>>
    BY <1>3 DEF ServiceTakes, taken
  <2>4. \A k \in Summarized : \A kinds :
          /\ Changing(k, kinds) => Changing(k, kinds)'
          /\ k \in q.of /\ q.kind \in kinds => Changing(k, kinds)'
    BY <2>1, <2>2, <2>3 DEF Changing
  <2>5. ASSUME NEW k \in Summarized
        PROVE  /\ summaries'[k].prompt = summaries[k].prompt \/ Changing(k, {"prompt"})'
               /\ summaries'[k].status = summaries[k].status \/ Changing(k, {"one", "all"})'
    <3>1. CASE k \notin q.of
      BY <1>3, <3>1 DEF ServiceTakes
    <3>2. CASE k \in q.of /\ q.kind = "prompt"
      <4>1. summaries'[k] = [summaries[k] EXCEPT !.prompt = q.prompt]
        BY <1>3, <3>2 DEF ServiceTakes
      <4> QED
        BY <1>0, <2>4, <3>2, <4>1
    <3>3. CASE k \in q.of /\ q.kind # "prompt"
      <4>1. summaries'[k] = [summaries[k] EXCEPT !.status = "GENERATING"]
        BY <1>3, <3>3 DEF ServiceTakes
      <4>2. q.kind \in {"one", "all"}
        BY <2>1, <3>3 DEF Requests
      <4> QED
        BY <1>0, <2>4, <3>3, <4>1, <4>2
    <3> QED
      BY <3>1, <3>2, <3>3
  <2>6. /\ UpToDate(asking) => UpToDate(asking)'
        /\ UpToDate(answer) => UpToDate(answer)'
    BY <2>3, <2>4, <2>5 DEF UpToDate
  <2> QED
    BY <2>3, <2>6 DEF PanelFollows
<1>4. ASSUME NEW q \in calls, CallEnds(q)
      PROVE  PanelFollows'
  <2>1. /\ asking' = IF open THEN Invalidated ELSE asking
        /\ invalid' = (invalid \/ ~open)
        /\ missed' = (missed \/ (asking \in Snapshots /\ (~open \/ answer = NotRead)))
        /\ UNCHANGED <<open, summaries, answer>>
    BY <1>4 DEF CallEnds
  <2> QED
    BY <2>1, NoAnswerIsNoSnapshot DEF PanelFollows, Invalidated, PanelTypeOK
<1> QED
  BY <1>1, <1>2, <1>3, <1>4

\* Summaries shown with nothing to come are those the service has, for any dashboard and any
\* number of requests, unless the page could not know.
THEOREM QuietPanelFollows == PanelSpec => []QuietPanelIsCurrent
<1>1. PanelInit => PanelFollows
  BY NoAnswerIsNoSnapshot DEF PanelInit, PanelFollows
<1>2. PanelTypeOK /\ PanelFollows /\ [PanelNext]_panelVars => PanelFollows'
  <2> SUFFICES ASSUME PanelTypeOK, PanelFollows, [PanelNext]_panelVars
               PROVE  PanelFollows'
    OBVIOUS
  <2>1. CASE PanelNext
    BY <2>1, UserKeepsFollowing, ReadingKeepsFollowing, ServiceKeepsFollowing DEF PanelNext
  <2>2. CASE UNCHANGED panelVars
    BY <2>2, QuietServiceKeepsUpToDate DEF panelVars
  <2> QED
    BY <2>1, <2>2
<1>3. PanelTypeOK /\ PanelFollows => QuietPanelIsCurrent
  <2> SUFFICES ASSUME PanelTypeOK, PanelFollows, open, answer # NotRead, asking = QueryIdle,
                      calls = {}, GeneratingIn(answer) = {}, ~missed
               PROVE  answer = summaries
    BY DEF QuietPanelIsCurrent
  <2>1. UpToDate(answer) /\ answer \in Snapshots /\ summaries \in Snapshots
    BY DEF PanelFollows, PanelTypeOK
  <2>2. \A e \in Summarized : answer[e].prompt = summaries[e].prompt
                              /\ answer[e].status = summaries[e].status
    BY <2>1 DEF UpToDate, Changing, GeneratingIn
  <2>3. \A e \in Summarized : answer[e] = summaries[e]
    BY <2>1, <2>2 DEF Snapshots
  <2> QED
    BY <2>1, <2>3 DEF Snapshots
<1> QED
  BY <1>1, <1>2, <1>3, PanelTypes, PTL DEF PanelSpec

-----------------------------------------------------------------------------
(* The parts together.                                                     *)

\* Leaving the dashboard, a chart has two hooks at most that will not hear of it.
LEMMA TwoHooks ==
  ASSUME WhoWaits, NEW t \in Tiles
  PROVE  Cardinality({k \in Hooks : awaits[k] = t}) \in 0 .. 2
<1> DEFINE S == {k \in Hooks : awaits[k] = t}
<1>1. S \subseteq {t, AllTiles}
  BY DashboardTilesAssumption DEF WhoWaits, Hooks
<1>2. IsFiniteSet({t, AllTiles}) /\ Cardinality({t, AllTiles}) <= 2
      /\ Cardinality({t, AllTiles}) \in Nat
  <2>1. IsFiniteSet({t}) /\ Cardinality({t}) = 1
    BY FS_Singleton
  <2>2. {t, AllTiles} = {t} \cup {AllTiles}
    OBVIOUS
  <2>3. IsFiniteSet({t} \cup {AllTiles})
        /\ Cardinality({t} \cup {AllTiles}) =
             IF AllTiles \in {t} THEN Cardinality({t}) ELSE Cardinality({t}) + 1
    BY <2>1, FS_AddElement
  <2> QED
    BY <2>1, <2>2, <2>3
<1>3. IsFiniteSet(S) /\ Cardinality(S) <= Cardinality({t, AllTiles}) /\ Cardinality(S) \in Nat
  BY <1>1, <1>2, FS_Subset, FS_CardinalityType
<1> QED
  BY <1>2, <1>3

\* The tiles keep their types.
LEMMA TilesTypes == TilesSpec => []TilesTypeOK
<1>1. TilesInit => TilesTypeOK
  <2>1. 0 \in 0 .. MaxLost + 1
    BY DashboardTilesAssumption
  <2>2. TilesInit => lost \in [Tiles -> 0 .. MaxLost + 1]
    BY <2>1, Zenon DEF TilesInit
  <2> QED
    BY <2>2, Zenon DEF TilesInit, TilesTypeOK
<1>2. WhoWaits /\ TilesTypeOK /\ [TilesNext]_tilesVars => TilesTypeOK'
  <2> SUFFICES ASSUME WhoWaits, TilesTypeOK, [TilesNext]_tilesVars PROVE TilesTypeOK'
    OBVIOUS
  <2> USE DashboardTilesAssumption DEF TilesTypeOK
  <2>1. CASE ShowTiles
    BY <2>1 DEF ShowTiles
  <2>2. CASE HideTiles
    <3>1. \A t \in Tiles : lost[t] + Cardinality({k \in Hooks : awaits[k] = t}) \in 0 .. MaxLost + 1
      <4> SUFFICES ASSUME NEW t \in Tiles
                   PROVE  lost[t] + Cardinality({k \in Hooks : awaits[k] = t}) \in 0 .. MaxLost + 1
        OBVIOUS
      <4>1. Cardinality({k \in Hooks : awaits[k] = t}) \in 0 .. 2
        BY TwoHooks
      <4>2. lost[t] \in 0 .. MaxLost - 1
        BY <2>2 DEF HideTiles, MayBeLost
      <4> QED
        BY <4>1, <4>2
    <3> QED
      BY <2>2, <3>1 DEF HideTiles
  <2>3. ASSUME NEW t \in Tiles, RefreshTile(t)
        PROVE  TilesTypeOK'
    BY <2>3 DEF RefreshTile, Hooks
  <2>4. ASSUME NEW t \in Tiles, RefreshAll(t)
        PROVE  TilesTypeOK'
    BY <2>4 DEF RefreshAll, Hooks, MayBeLost
  <2>5. ASSUME NEW t \in Tiles, NobodyHears(t)
        PROVE  TilesTypeOK'
    BY <2>5 DEF NobodyHears
  <2>6. ASSUME NEW k \in Hooks, HookHears(k)
        PROVE  TilesTypeOK'
    BY <2>6 DEF HookHears
  <2>7. CASE UNCHANGED tilesVars
    BY <2>7 DEF tilesVars
  <2> QED
    BY <2>1, <2>2, <2>3, <2>4, <2>5, <2>6, <2>7 DEF TilesNext
<1>3. TilesSpec => []WhoWaits
  BY InitWhoWaits, NextWhoWaits, PTL DEF TilesSpec
<1> QED
  BY <1>1, <1>2, <1>3, PTL DEF TilesSpec

\* Every part of the composition takes steps of its own or none, and so has its types.
THEOREM PartsTypes == PartsSpec => []PartsTypeOK
<1>1. PartsInit => Init /\ DashboardInit /\ TilesInit /\ PanelInit
  BY DEF PartsInit
<1>2. [PartsNext]_dashboardPartsVars =>
        /\ [Next]_vars /\ [DashboardNext]_dashboardVars
        /\ [TilesNext]_tilesVars /\ [PanelNext]_panelVars
  BY DEF PartsNext, StillUnless, dashboardPartsVars
<1>3. PartsSpec => Spec /\ DashboardSpec /\ TilesSpec /\ PanelSpec
  BY <1>1, <1>2, PTL DEF PartsSpec, Spec, DashboardSpec, TilesSpec, PanelSpec
<1> QED
  BY <1>3, TypeCorrect, DashboardPageTypes, TilesTypes, PanelTypes, PTL DEF PartsTypeOK

=============================================================================
