--------------------------- MODULE NotebookProofs ---------------------------
(***************************************************************************)
(* Proofs about Notebook, for any set of requests and any limits.          *)
(*                                                                         *)
(* What a request read is still true while the request is not stale: that  *)
(* is the invariant Fresh, and from it follow the numbering of the cells,  *)
(* the limit and the absence of orphans.                                   *)
(***************************************************************************)
EXTENDS Notebook, FiniteSetTheorems, TLAPS

\* Nobody has touched the cells since request h first read them, so what it is about to do
\* still fits them.
FitsCells(h) ==
  /\ task[h].op \in {"counting", "inserting"} => alive /\ Count < MaxCells
  /\ task[h].op = "inserting" /\ ~task[h].given => task[h].place = Count + 1
  /\ task[h].op = "writing" =>
       /\ DOMAIN task[h].plan \subseteq Existing
       /\ {With(cells, task[h].plan)[c] : c \in Existing} = 1 .. Count

Fresh == \A h \in Handler : ~stale[h] => FitsCells(h)

\* No place is above the number of cells, unless the cells were disturbed.
PlacesAreLow == ~disturbed => \A c \in Existing : cells[c] <= Count

Inv ==
  /\ TypeOK
  /\ Fresh
  /\ PlacesAreLow /\ PlacesAreDistinct
  /\ LimitExceededByOverlapOnly
  /\ OrphansByOverlapOnly
  /\ DanglingByStaleSaveOnly

-----------------------------------------------------------------------------
(* The operators.                                                          *)

\* The cells that exist are finitely many.
LEMMA CountIsNatural ==
  ASSUME TypeOK
  PROVE  IsFiniteSet(Existing) /\ Count \in Nat
BY NotebookAssumption, FS_Subset, FS_CardinalityType DEF TypeOK, IsPlacing, Existing, Count

\* Putting two placings together gives a placing.
LEMMA WithIsPlacing ==
  ASSUME NEW f, NEW g, NEW S, NEW T, IsPlacing(f, S, Int), IsPlacing(g, T, Int)
  PROVE  /\ IsPlacing(With(f, g), S \cup T, Int)
         /\ DOMAIN With(f, g) = DOMAIN f \cup DOMAIN g
         /\ \A c \in DOMAIN g : With(f, g)[c] = g[c]
         /\ \A c \in DOMAIN f \ DOMAIN g : With(f, g)[c] = f[c]
BY DEF IsPlacing, With

LEMMA WithoutIsPlacing ==
  ASSUME NEW f, NEW S, NEW R, IsPlacing(f, S, Int)
  PROVE  /\ IsPlacing(Without(f, R), S, Int)
         /\ DOMAIN Without(f, R) = DOMAIN f \ R
         /\ \A c \in DOMAIN f \ R : Without(f, R)[c] = f[c]
BY DEF IsPlacing, Without

\* A move leads to a place of the list.
LEMMA TargetInList ==
  ASSUME NEW n \in Nat, NEW p \in 1 .. n, NEW m
  PROVE  Target(p, n, m) \in 1 .. n
BY DEF Target

\* Rearranging a list keeps its positions apart, and its length.
LEMMA ShiftedIsInjective ==
  ASSUME NEW n \in Nat, NEW from \in 1 .. n, NEW to \in 1 .. n
  PROVE  /\ \A i \in 1 .. n : Shifted(from, to, i) \in 1 .. n
         /\ \A i, j \in 1 .. n : i # j => Shifted(from, to, i) # Shifted(from, to, j)
BY DEF Shifted

\* A function without repetitions between sets of the same size takes every value, and one
\* that takes every value has no repetitions.
LEMMA OntoIffDistinct ==
  ASSUME NEW S, IsFiniteSet(S), NEW f \in [S -> 1 .. Cardinality(S)]
  PROVE  {f[c] : c \in S} = 1 .. Cardinality(S)
           <=> \A c, d \in S : c # d => f[c] # f[d]
<1> DEFINE T == 1 .. Cardinality(S)
<1>1. Cardinality(S) \in Nat
  BY FS_CardinalityType
<1>2. IsFiniteSet(T) /\ Cardinality(T) = Cardinality(S)
  BY <1>1, FS_Interval
<1>3. f \in Surjection(S, T) <=> {f[c] : c \in S} = T
  BY DEF Surjection
<1>4. f \in Injection(S, T) <=> \A c, d \in S : c # d => f[c] # f[d]
  BY DEF Injection, IsInjective
<1>5. f \in Injection(S, T) => f \in Surjection(S, T)
  BY <1>2, FS_Injection
<1>6. f \in Surjection(S, T) => f \in Injection(S, T)
  BY <1>2, FS_Surjection
<1> QED
  BY <1>3, <1>4, <1>5, <1>6

-----------------------------------------------------------------------------
(* Types.                                                                  *)

LEMMA InitTyped == Init => TypeOK
BY DEF Init, TypeOK, IsPlacing, IsTask

TaskTyped == task = [h \in Handler |-> task[h]] /\ \A h \in Handler : IsTask(task[h])

\* A request that moves on leaves the other requests what they were.
LEMMA StepTyped ==
  ASSUME TypeOK, NEW h \in Handler, NEW t, Step(h, t), IsTask(t)
  PROVE  /\ TaskTyped'
         /\ task'[h] = t
         /\ \A g \in Handler \ {h} : task'[g] = task[g]
<1>1. task' = [g \in Handler |-> IF g = h THEN t ELSE task[g]]
  BY DEF TypeOK, Step
<1>2. \A g \in Handler : IsTask(IF g = h THEN t ELSE task[g])
  BY DEF TypeOK
<1> QED
  BY <1>1, <1>2, Zenon DEF TaskTyped, IsTask

LEMMA IdleTyped == IsTask(Idle)
BY DEF IsTask

LEMMA EndTyped ==
  ASSUME TypeOK, NEW h \in Handler, End(h)
  PROVE  /\ TaskTyped' /\ stale' \in [Handler -> BOOLEAN]
         /\ task'[h] = Idle
         /\ \A g \in Handler \ {h} : task'[g] = task[g] /\ stale'[g] = stale[g]
BY StepTyped, IdleTyped DEF End, TypeOK

LEMMA OvertakesTyped ==
  ASSUME TypeOK, NEW h, Overtakes(h)
  PROVE  stale' \in [Handler -> BOOLEAN]
BY DEF TypeOK, Overtakes

\* What requests do keeps the types.
LEMMA RequestTyped ==
  ASSUME TypeOK, NEW h \in Handler, Create(h) \/ Reorder(h) \/ Edit(h) \/ Abandon(h)
  PROVE  TypeOK'
<1>1. CASE CreateCheck(h)
  <2>1. TaskTyped'
    BY <1>1, StepTyped DEF CreateCheck, IsTask
  <2> QED
    BY <1>1, <2>1 DEF CreateCheck, TypeOK, TaskTyped, IsPlacing
<1>2. CASE CreatePlace(h)
  <2>1. TaskTyped'
    <3>1. Count + 1 \in Int /\ GivenOrders \subseteq Int
      BY CountIsNatural, NotebookAssumption
    <3>2. ASSUME NEW n \in Int, NEW g \in BOOLEAN
          PROVE  IsTask([op |-> "inserting", place |-> n, given |-> g])
      BY DEF IsTask
    <3>3. CASE Step(h, [op |-> "inserting", place |-> NextPlace, given |-> FALSE])
      BY <3>1, <3>2, <3>3, StepTyped DEF NextPlace
    <3>4. CASE \E n \in GivenOrders : Step(h, [op |-> "inserting", place |-> n, given |-> TRUE])
      BY <3>1, <3>2, <3>4, StepTyped
    <3> QED
      BY <1>2, <3>3, <3>4 DEF CreatePlace
  <2> QED
    BY <1>2, <2>1 DEF CreatePlace, TypeOK, TaskTyped, IsPlacing
<1>3. CASE CreateInsert(h)
  <2>1. TaskTyped' /\ stale' \in [Handler -> BOOLEAN]
    BY <1>3, StepTyped, IdleTyped, OvertakesTyped DEF CreateInsert
  <2>2. IsTask(task[h]) /\ task[h].op = "inserting"
    BY <1>3 DEF TypeOK, CreateInsert
  <2>3. task[h].place \in Int /\ task[h].given \in BOOLEAN
    BY <2>2 DEF IsTask, Idle
  <2>4. PICK c \in unused : /\ cells' = With(cells, [x \in {c} |-> task[h].place])
                            /\ unused' = unused \ {c}
    BY <1>3 DEF CreateInsert
  <2>5. IsPlacing(cells', Cell \ unused', Int)
    <3>1. IsPlacing([x \in {c} |-> task[h].place], {c}, Int)
      BY <2>3 DEF IsPlacing
    <3>2. IsPlacing(cells, Cell \ unused, Int)
      BY DEF TypeOK
    <3>3. IsPlacing(cells', (Cell \ unused) \cup {c}, Int)
      BY <2>4, <3>1, <3>2, WithIsPlacing
    <3>4. (Cell \ unused) \cup {c} = Cell \ unused'
      BY <2>4 DEF TypeOK
    <3> QED
      BY <3>3, <3>4
  <2> QED
    BY <1>3, <2>1, <2>3, <2>4, <2>5 DEF CreateInsert, TypeOK, TaskTyped
<1>4. CASE ReorderFind(h)
  <2>1. PICK c \in Existing, m \in Movement :
          Step(h, [op |-> "moving", cell |-> c, move |-> m, place |-> cells[c]])
    BY <1>4 DEF ReorderFind
  <2>2. c \in Cell /\ cells[c] \in Int
    BY DEF TypeOK, IsPlacing, Existing
  <2>3. TaskTyped'
    BY <2>1, <2>2, StepTyped DEF IsTask
  <2> QED
    BY <1>4, <2>3 DEF ReorderFind, TypeOK, TaskTyped, IsPlacing
<1>5. CASE ReorderList(h)
  <2> DEFINE from == task[h].place
             to == Target(from, Count, task[h].move)
  <2>1. PICK r \in Listings : Step(h, [op |-> "writing", plan |-> NewPlaces(r, from, to)])
    BY <1>5, Zenon DEF ReorderList
  <2>2. Count \in Nat /\ from \in 1 .. Count
    BY <1>5, CountIsNatural DEF ReorderList
  <2>3. to \in 1 .. Count
    BY <2>2, TargetInList
  <2>4. r \in [Existing -> 1 .. Count]
    BY DEF Listings
  <2>5. \A c \in Existing : Shifted(from, to, r[c]) \in 1 .. Count
    BY <2>2, <2>3, <2>4, ShiftedIsInjective
  <2>6. IsPlacing(NewPlaces(r, from, to), Cell, Nat \ {0})
    <3> DEFINE new(c) == Shifted(from, to, r[c])
    <3>1. \A c \in Existing : new(c) \in Nat \ {0} /\ c \in Cell
      BY <2>2, <2>5 DEF TypeOK, IsPlacing, Existing
    <3> HIDE DEF from, to, new
    <3> QED
      BY <3>1 DEF IsPlacing, NewPlaces, new
  <2>7. IsTask([op |-> "writing", plan |-> NewPlaces(r, from, to)])
    BY <2>6 DEF IsTask
  <2>8. TaskTyped'
    BY <2>1, <2>7, StepTyped
  <2> QED
    BY <1>5, <2>8 DEF ReorderList, TypeOK, TaskTyped, IsPlacing
<1>6. CASE ReorderRefused(h) \/ ReorderRolledBack(h) \/ Abandon(h)
  <2>1. TaskTyped' /\ stale' \in [Handler -> BOOLEAN]
    BY <1>6, EndTyped DEF ReorderRefused, ReorderRolledBack, Abandon
  <2> QED
    BY <1>6, <2>1
    DEF ReorderRefused, ReorderRolledBack, Abandon, TypeOK, TaskTyped, IsPlacing
<1>7. CASE ReorderWrite(h)
  <2>1. TaskTyped' /\ stale' \in [Handler -> BOOLEAN]
    BY <1>7, StepTyped, IdleTyped, OvertakesTyped DEF ReorderWrite
  <2>2. IsTask(task[h]) /\ task[h].op = "writing"
    BY <1>7 DEF TypeOK, ReorderWrite
  <2>3. IsPlacing(task[h].plan, Cell, Nat \ {0})
    BY <2>2 DEF IsTask, Idle
  <2>4. IsPlacing(task[h].plan, Cell \ unused, Int)
    BY <1>7, <2>3 DEF IsPlacing, ReorderWrite, Existing, TypeOK
  <2>5. IsPlacing(cells', Cell \ unused, Int)
    <3>1. IsPlacing(cells, Cell \ unused, Int)
      BY DEF TypeOK
    <3>2. IsPlacing(cells', (Cell \ unused) \cup (Cell \ unused), Int)
      BY <1>7, <2>4, <3>1, WithIsPlacing DEF ReorderWrite
    <3> QED
      BY <3>2, (Cell \ unused) \cup (Cell \ unused) = Cell \ unused
  <2>6. disturbed' \in BOOLEAN
    BY <1>7 DEF ReorderWrite, TypeOK
  <2> QED
    BY <1>7, <2>1, <2>5, <2>6 DEF ReorderWrite, TypeOK, TaskTyped
<1>8. CASE EditOpen(h)
  <2>1. layout \cup Existing \in SUBSET Cell
    BY DEF TypeOK, IsPlacing, Existing
  <2>2. TaskTyped'
    BY <1>8, <2>1, StepTyped DEF EditOpen, IsTask
  <2> QED
    BY <1>8, <2>2 DEF EditOpen, TypeOK, TaskTyped, IsPlacing
<1>9. CASE EditSave(h)
  <2>1. TaskTyped' /\ stale' \in [Handler -> BOOLEAN]
    BY <1>9, EndTyped DEF EditSave
  <2>2. layout' \subseteq Cell /\ ghosts' \subseteq Cell
    <3>1. IsTask(task[h]) /\ task[h].op = "editing"
      BY <1>9 DEF TypeOK, EditSave
    <3>2. task[h].known \subseteq Cell
      BY <3>1 DEF IsTask, Idle
    <3> QED
      BY <1>9, <3>2 DEF EditSave, TypeOK
  <2> QED
    BY <1>9, <2>1, <2>2 DEF EditSave, TypeOK, TaskTyped, IsPlacing
<1> QED
  BY <1>1, <1>2, <1>3, <1>4, <1>5, <1>6, <1>7, <1>8, <1>9 DEF Create, Reorder, Edit

\* So do the transactions.
LEMMA TransactionTyped ==
  ASSUME TypeOK,
         \/ DeleteCell \/ DeleteCanvas
         \/ \E R \in SUBSET Existing, C \in SUBSET unused : \E S \in SUBSET C : ApplyPlan(R, C, S)
  PROVE  TypeOK'
<1> USE DEF TaskTyped
<1>1. CASE DeleteCell
  <2>1. PICK c \in Existing : cells' = Without(cells, {c}) /\ layout' = layout \ {c}
    BY <1>1 DEF DeleteCell
  <2>2. IsPlacing(cells', Cell \ unused, Int)
    BY <2>1, WithoutIsPlacing DEF TypeOK
  <2>3. stale' \in [Handler -> BOOLEAN]
    BY <1>1, OvertakesTyped DEF DeleteCell
  <2>4. TaskTyped'
    BY <1>1 DEF DeleteCell, TypeOK, IsTask, IsPlacing
  <2> QED
    BY <1>1, <2>1, <2>2, <2>3, <2>4 DEF DeleteCell, TypeOK
<1>2. CASE DeleteCanvas
  <2>1. stale' \in [Handler -> BOOLEAN]
    BY <1>2, OvertakesTyped DEF DeleteCanvas
  <2>2. IsPlacing(cells', Cell \ unused', Int)
    BY <1>2 DEF DeleteCanvas, IsPlacing
  <2>3. TaskTyped'
    BY <1>2 DEF DeleteCanvas, TypeOK, IsTask, IsPlacing
  <2> QED
    BY <1>2, <2>1, <2>2, <2>3 DEF DeleteCanvas, TypeOK
<1>3. ASSUME NEW R \in SUBSET Existing, NEW C \in SUBSET unused, NEW S \in SUBSET C,
             ApplyPlan(R, C, S)
      PROVE  TypeOK'
  <2>1. stale' \in [Handler -> BOOLEAN]
    BY <1>3, OvertakesTyped DEF ApplyPlan
  <2>2. IsPlacing(cells', Cell \ unused', Int)
    <3>1. PICK first \in {0} \cup {cells[c] + 1 : c \in Existing} :
            \E place \in [C -> first .. first + Cardinality(C) - 1] :
              cells' = With(Without(cells, R), place)
      BY <1>3, Zenon DEF ApplyPlan
    <3>2. PICK place \in [C -> first .. first + Cardinality(C) - 1] :
            cells' = With(Without(cells, R), place)
      BY <3>1
    <3>3. IsPlacing(place, C, Int)
      BY DEF IsPlacing
    <3>4. IsPlacing(Without(cells, R), Cell \ unused, Int)
      BY WithoutIsPlacing DEF TypeOK
    <3>5. IsPlacing(cells', (Cell \ unused) \cup C, Int)
      BY <3>2, <3>3, <3>4, WithIsPlacing
    <3>6. unused' = unused \ C
      BY <1>3 DEF ApplyPlan
    <3>7. (Cell \ unused) \cup C = Cell \ unused'
      BY <3>6 DEF TypeOK
    <3> QED
      BY <3>5, <3>7
  <2>3. unused' \subseteq Cell /\ layout' \subseteq Cell /\ disturbed' \in BOOLEAN
    BY <1>3 DEF ApplyPlan, TypeOK
  <2>4. TaskTyped'
    BY <1>3 DEF ApplyPlan, TypeOK, IsTask, IsPlacing
  <2> QED
    BY <1>3, <2>1, <2>2, <2>3, <2>4 DEF ApplyPlan, TypeOK
<1> QED
  BY <1>1, <1>2, <1>3

LEMMA TypeStep ==
  ASSUME TypeOK, [Next]_vars
  PROVE  TypeOK'
<1>1. CASE UNCHANGED vars
  BY <1>1 DEF vars, TypeOK, IsPlacing, IsTask
<1> QED
  BY <1>1, RequestTyped, TransactionTyped DEF Next

\* Every state of every run of the notebook is well typed: in particular a place written by a
\* reorder is at least one.
THEOREM TypeCorrect == Spec => []TypeOK
BY InitTyped, TypeStep, PTL DEF Spec

-----------------------------------------------------------------------------
(* The inductive invariant.                                                *)

LEMMA InitInv == Init => Inv
<1>1. Init => TypeOK
  BY InitTyped
<1>2. Init => Fresh
  BY DEF Init, Fresh, FitsCells, Idle
<1>3. Init => Existing = {} /\ Count = 0
  BY FS_EmptySet DEF Init, Existing, Count
<1> QED
  BY <1>1, <1>2, <1>3, NotebookAssumption
  DEF Inv, Init, PlacesAreLow, PlacesAreDistinct, LimitExceededByOverlapOnly,
      OrphansByOverlapOnly, DanglingByStaleSaveOnly

\* A request that changed the cells is done, and every other request is stale now.
LEMMA OvertakingIsFresh ==
  ASSUME TypeOK, NEW h \in Handler, Step(h, Idle), Overtakes(h)
  PROVE  Fresh'
<1>1. \A g \in Handler : task'[g] = IF g = h THEN Idle ELSE task[g]
  BY DEF TypeOK, Step
<1>2. \A g \in Handler : ~stale'[g] => g = h \/ task[g].op = "idle"
  BY DEF Overtakes
<1>3. \A g \in Handler : ~stale'[g] => task'[g].op = "idle"
  BY <1>1, <1>2 DEF Idle
<1> QED
  BY <1>3 DEF Fresh, FitsCells

LEMMA TransactionIsFresh ==
  ASSUME TypeOK, Overtakes("nobody"), UNCHANGED task
  PROVE  Fresh'
<1>1. \A g \in Handler : ~stale'[g] => task'[g].op = "idle"
  BY NotebookAssumption DEF Overtakes
<1> QED
  BY <1>1 DEF Fresh, FitsCells

\* A step that leaves the cells alone concerns the request that takes it only.
LEMMA OthersStayFresh ==
  ASSUME TypeOK, Fresh, NEW h \in Handler, NEW t, Step(h, t), UNCHANGED <<alive, cells>>,
         \A g \in Handler \ {h} : stale'[g] = stale[g],
         ~stale'[h] => FitsCells(h)'
  PROVE  Fresh'
<1>1. ASSUME NEW g \in Handler \ {h}, ~stale'[g]
      PROVE  FitsCells(g)'
  <2>1. task'[g] = task[g]
    BY DEF TypeOK, Step
  <2>2. FitsCells(g)
    BY <1>1 DEF Fresh
  <2> QED
    BY <2>1, <2>2 DEF FitsCells, Existing, Count
<1> QED
  BY <1>1 DEF Fresh

\* A step that changes none of the shared state keeps what the invariant says of it.
LEMMA SharedKept ==
  ASSUME Inv, UNCHANGED <<alive, cells, layout, disturbed, overtaken, ghosts>>
  PROVE  /\ PlacesAreLow' /\ PlacesAreDistinct'
         /\ LimitExceededByOverlapOnly' /\ OrphansByOverlapOnly' /\ DanglingByStaleSaveOnly'
BY DEF Inv, PlacesAreLow, PlacesAreDistinct, LimitExceededByOverlapOnly, OrphansByOverlapOnly,
       DanglingByStaleSaveOnly, Existing, Count

\* The list as rearranged, with the places that the reorder is about to write, is numbered
\* from one.
LEMMA ReorderPlan ==
  ASSUME TypeOK, NEW r \in Listings, NEW from \in 1 .. Count, NEW to \in 1 .. Count
  PROVE  LET plan == NewPlaces(r, from, to)
         IN  /\ DOMAIN plan \subseteq Existing
             /\ {With(cells, plan)[c] : c \in Existing} = 1 .. Count
<1> DEFINE plan == NewPlaces(r, from, to)
           f == [c \in Existing |-> Shifted(from, to, r[c])]
<1>1. IsFiniteSet(Existing) /\ Count \in Nat
  BY CountIsNatural
<1>2. r \in [Existing -> 1 .. Count] /\ \A c, d \in Existing : c # d => r[c] # r[d]
  BY DEF Listings
<1>3. f \in [Existing -> 1 .. Count] /\ \A c, d \in Existing : c # d => f[c] # f[d]
  BY <1>1, <1>2, ShiftedIsInjective
<1>4. {f[c] : c \in Existing} = 1 .. Count
  BY <1>1, <1>3, OntoIffDistinct DEF Count
<1>5. DOMAIN plan = {c \in Existing : f[c] # cells[c]} /\ \A c \in DOMAIN plan : plan[c] = f[c]
  BY DEF NewPlaces
<1>6. \A c \in Existing : With(cells, plan)[c] = f[c]
  <2> HIDE DEF plan, f
  <2> QED
    BY <1>5 DEF With, Existing
<1> QED
  BY <1>4, <1>5, <1>6

\* A request reads, moves on or gives up, and changes nothing shared but, perhaps, the layout.
LEMMA ReadingStep ==
  ASSUME Inv, NEW h \in Handler,
         \/ CreateCheck(h) \/ CreatePlace(h)
         \/ ReorderFind(h) \/ ReorderList(h) \/ ReorderRefused(h) \/ ReorderRolledBack(h)
         \/ EditOpen(h) \/ EditSave(h) \/ Abandon(h)
  PROVE  Fresh'
<1> USE DEF Inv
<1>1. CASE CreateCheck(h)
  <2>1. task'[h] = [op |-> "counting"]
    BY <1>1 DEF CreateCheck, Step, TypeOK
  <2> QED
    BY <1>1, <2>1, OthersStayFresh DEF CreateCheck, FitsCells, Existing, Count
<1>2. CASE CreatePlace(h)
  <2>1. PICK n, g : /\ Step(h, [op |-> "inserting", place |-> n, given |-> g])
                    /\ ~g => n = Count + 1
    BY <1>2 DEF CreatePlace, NextPlace
  <2>2. task'[h] = [op |-> "inserting", place |-> n, given |-> g]
    BY <2>1 DEF Step, TypeOK
  <2>3. ~stale[h] => alive /\ Count < MaxCells
    BY <1>2 DEF CreatePlace, Fresh, FitsCells
  <2>4. ~stale'[h] => FitsCells(h)'
    BY <1>2, <2>1, <2>2, <2>3 DEF CreatePlace, FitsCells, Existing, Count
  <2> QED
    BY <1>2, <2>1, <2>4, OthersStayFresh DEF CreatePlace
<1>3. CASE ReorderFind(h)
  <2>1. PICK t : Step(h, t) /\ t.op = "moving"
    BY <1>3 DEF ReorderFind
  <2>2. task'[h] = t
    BY <2>1 DEF Step, TypeOK
  <2> QED
    BY <1>3, <2>1, <2>2, OthersStayFresh DEF ReorderFind, FitsCells
<1>4. CASE ReorderList(h)
  <2> DEFINE from == task[h].place
             to == Target(from, Count, task[h].move)
  <2>1. PICK r \in Listings : Step(h, [op |-> "writing", plan |-> NewPlaces(r, from, to)])
    BY <1>4, Zenon DEF ReorderList
  <2>2. Count \in Nat /\ from \in 1 .. Count
    BY <1>4, CountIsNatural DEF ReorderList
  <2>3. to \in 1 .. Count
    BY <2>2, TargetInList
  <2> HIDE DEF from, to
  <2> DEFINE plan == NewPlaces(r, from, to)
  <2>4. /\ DOMAIN plan \subseteq Existing
        /\ {With(cells, plan)[c] : c \in Existing} = 1 .. Count
    BY <2>2, <2>3, ReorderPlan
  <2> HIDE DEF plan
  <2>5. task'[h] = [op |-> "writing", plan |-> plan]
    BY <2>1 DEF Step, TypeOK, plan
  <2>6. FitsCells(h)'
    <3>1. cells' = cells
      BY <1>4 DEF ReorderList
    <3> QED
      BY <2>4, <2>5, <3>1 DEF FitsCells, Existing, Count
  <2> QED
    BY <1>4, <2>1, <2>6, OthersStayFresh DEF ReorderList
<1>5. CASE EditOpen(h)
  <2>1. task'[h] = [op |-> "editing", known |-> layout \cup Existing]
    BY <1>5 DEF EditOpen, Step, TypeOK
  <2> QED
    BY <1>5, <2>1, OthersStayFresh DEF EditOpen, FitsCells
<1>6. CASE ReorderRefused(h) \/ ReorderRolledBack(h) \/ EditSave(h) \/ Abandon(h)
  <2>1. End(h) /\ UNCHANGED <<alive, cells>>
    BY <1>6 DEF ReorderRefused, ReorderRolledBack, EditSave, Abandon
  <2>2. task'[h] = Idle /\ \A g \in Handler \ {h} : stale'[g] = stale[g]
    BY <2>1, EndTyped
  <2>3. FitsCells(h)'
    BY <2>2 DEF FitsCells, Idle
  <2> QED
    BY <2>1, <2>2, <2>3, OthersStayFresh DEF End
<1> QED
  BY <1>1, <1>2, <1>3, <1>4, <1>5, <1>6

LEMMA RequestStep ==
  ASSUME Inv, NEW h \in Handler, Create(h) \/ Reorder(h) \/ Edit(h) \/ Abandon(h)
  PROVE  Inv'
<1>1. TypeOK'
  BY RequestTyped DEF Inv
<1>2. IsFiniteSet(Existing) /\ Count \in Nat
  BY CountIsNatural DEF Inv
<1>3. CASE \/ CreateCheck(h) \/ CreatePlace(h) \/ ReorderFind(h) \/ ReorderList(h)
           \/ ReorderRefused(h) \/ ReorderRolledBack(h) \/ EditOpen(h) \/ Abandon(h)
  <2>1. UNCHANGED <<alive, cells, layout, disturbed, overtaken, ghosts>>
    BY <1>3 DEF CreateCheck, CreatePlace, ReorderFind, ReorderList, ReorderRefused,
                ReorderRolledBack, EditOpen, Abandon
  <2> QED
    BY <1>1, <1>3, <2>1, ReadingStep, SharedKept DEF Inv
<1>4. CASE EditSave(h)
  <2>1. UNCHANGED <<alive, cells, disturbed, overtaken>>
    BY <1>4 DEF EditSave
  <2>2. DanglingByStaleSaveOnly'
    BY <1>4, <2>1 DEF EditSave, Inv, DanglingByStaleSaveOnly, Existing
  <2> QED
    BY <1>1, <1>4, <2>1, <2>2, ReadingStep
    DEF Inv, PlacesAreLow, PlacesAreDistinct, LimitExceededByOverlapOnly,
        OrphansByOverlapOnly, Existing, Count
<1>5. CASE CreateInsert(h)
  <2>1. PICK c \in unused : cells' = With(cells, [x \in {c} |-> task[h].place])
    BY <1>5 DEF CreateInsert
  <2>2. c \notin Existing /\ IsPlacing(cells, Cell \ unused, Int)
    BY DEF Inv, TypeOK, IsPlacing, Existing
  <2>3. /\ Existing' = Existing \cup {c}
        /\ cells'[c] = task[h].place
        /\ \A d \in Existing : cells'[d] = cells[d]
    BY <2>1, <2>2 DEF With, Existing
  <2>4. Count' = Count + 1
    BY <1>2, <2>2, <2>3, FS_AddElement DEF Count
  <2>5. ~stale[h] => /\ alive /\ Count < MaxCells
                     /\ ~task[h].given => task[h].place = Count + 1
    BY <1>5 DEF CreateInsert, Inv, Fresh, FitsCells
  <2>6. Fresh'
    BY <1>5, OvertakingIsFresh DEF CreateInsert, Inv
  <2>7. PlacesAreLow' /\ PlacesAreDistinct'
    <3>1. SUFFICES ASSUME ~disturbed'
                   PROVE  /\ \A d \in Existing' : cells'[d] <= Count'
                          /\ \A d, e \in Existing' : d # e => cells'[d] # cells'[e]
      BY DEF PlacesAreLow, PlacesAreDistinct
    <3>2. ~disturbed /\ cells'[c] = Count + 1
      BY <1>5, <2>3, <2>5, <3>1 DEF CreateInsert
    <3>3. \A d \in Existing : cells[d] <= Count /\ cells[d] \in Int
      BY <3>2 DEF Inv, PlacesAreLow, TypeOK, IsPlacing, Existing
    <3>4. \A d, e \in Existing : d # e => cells[d] # cells[e]
      BY <3>2 DEF Inv, PlacesAreDistinct
    <3> QED
      BY <1>2, <2>3, <2>4, <3>2, <3>3, <3>4
  <2>8. LimitExceededByOverlapOnly' /\ OrphansByOverlapOnly'
    <3>1. CASE stale[h]
      <4>1. overtaken'
        BY <1>5, <3>1 DEF CreateInsert, Inv, TypeOK
      <4> QED
        BY <4>1 DEF LimitExceededByOverlapOnly, OrphansByOverlapOnly
    <3>2. CASE ~stale[h]
      <4>1. alive' /\ MaxCells \in Nat
        BY <1>5, <2>5, <3>2, NotebookAssumption DEF CreateInsert
      <4>2. ~(Count' > MaxCells)
        BY <1>2, <2>4, <2>5, <3>2, <4>1
      <4> QED
        BY <4>1, <4>2 DEF LimitExceededByOverlapOnly, OrphansByOverlapOnly
    <3> QED
      BY <3>1, <3>2
  <2>9. DanglingByStaleSaveOnly'
    BY <1>5, <2>3 DEF CreateInsert, Inv, DanglingByStaleSaveOnly
  <2> QED
    BY <1>1, <2>6, <2>7, <2>8, <2>9 DEF Inv
<1>6. CASE ReorderWrite(h)
  <2> DEFINE plan == task[h].plan
  <2>1. Existing' = Existing /\ Count' = Count
    BY <1>6 DEF ReorderWrite, With, Existing, Count
  <2>2. Fresh'
    BY <1>6, OvertakingIsFresh DEF ReorderWrite, Inv
  <2>3. PlacesAreLow' /\ PlacesAreDistinct'
    <3>1. CASE stale[h]
      BY <1>6, <3>1 DEF ReorderWrite, PlacesAreLow, PlacesAreDistinct
    <3>2. CASE ~stale[h]
      <4>1. {cells'[c] : c \in Existing} = 1 .. Count
        BY <1>6, <3>2 DEF ReorderWrite, Inv, Fresh, FitsCells
      <4>2. cells' \in [Existing -> Int]
        BY <1>1, <2>1 DEF TypeOK, IsPlacing, Existing
      <4>3. cells' \in [Existing -> 1 .. Count]
        BY <4>1, <4>2
      <4>4. \A c, d \in Existing : c # d => cells'[c] # cells'[d]
        BY <1>2, <4>1, <4>3, OntoIffDistinct DEF Count
      <4>5. \A c \in Existing : cells'[c] <= Count
        BY <1>2, <4>3
      <4> QED
        BY <2>1, <4>4, <4>5 DEF PlacesAreLow, PlacesAreDistinct
    <3> QED
      BY <3>1, <3>2 DEF Inv, TypeOK
  <2>4. LimitExceededByOverlapOnly' /\ OrphansByOverlapOnly' /\ DanglingByStaleSaveOnly'
    BY <1>6, <2>1
    DEF ReorderWrite, Inv, LimitExceededByOverlapOnly, OrphansByOverlapOnly,
        DanglingByStaleSaveOnly
  <2> QED
    BY <1>1, <2>2, <2>3, <2>4 DEF Inv
<1> QED
  BY <1>3, <1>4, <1>5, <1>6 DEF Create, Reorder, Edit

LEMMA TransactionStep ==
  ASSUME Inv,
         \/ DeleteCell \/ DeleteCanvas
         \/ \E R \in SUBSET Existing, C \in SUBSET unused : \E S \in SUBSET C : ApplyPlan(R, C, S)
  PROVE  Inv'
<1>1. TypeOK'
  BY TransactionTyped DEF Inv
<1>2. IsFiniteSet(Existing) /\ Count \in Nat
  BY CountIsNatural DEF Inv
<1>3. MaxCells \in Nat
  BY NotebookAssumption
<1>4. CASE DeleteCell
  <2>1. PICK c \in Existing : cells' = Without(cells, {c}) /\ layout' = layout \ {c}
    BY <1>4 DEF DeleteCell
  <2>2. Existing' = Existing \ {c}
    BY <2>1 DEF Without, Existing
  <2>3. Count' = Count - 1
    BY <1>2, <2>2, FS_RemoveElement DEF Count
  <2>4. Fresh'
    BY <1>4, TransactionIsFresh DEF DeleteCell, Inv
  <2>5. LimitExceededByOverlapOnly'
    BY <1>2, <1>3, <1>4, <2>3 DEF DeleteCell, Inv, LimitExceededByOverlapOnly
  <2>6. OrphansByOverlapOnly' /\ DanglingByStaleSaveOnly' /\ disturbed'
    BY <1>4, <2>1, <2>2
    DEF DeleteCell, Inv, OrphansByOverlapOnly, DanglingByStaleSaveOnly
  <2> QED
    BY <1>1, <2>4, <2>5, <2>6 DEF Inv, PlacesAreLow, PlacesAreDistinct
<1>5. CASE DeleteCanvas
  <2>1. Existing' = {} /\ Count' = 0
    BY <1>5, FS_EmptySet DEF DeleteCanvas, Existing, Count
  <2>2. Fresh'
    BY <1>5, TransactionIsFresh DEF DeleteCanvas, Inv
  <2> QED
    BY <1>1, <1>3, <1>5, <2>1, <2>2
    DEF DeleteCanvas, Inv, PlacesAreLow, PlacesAreDistinct, LimitExceededByOverlapOnly,
        OrphansByOverlapOnly, DanglingByStaleSaveOnly
<1>6. ASSUME NEW R \in SUBSET Existing, NEW C \in SUBSET unused, NEW S \in SUBSET C,
             ApplyPlan(R, C, S)
      PROVE  Inv'
  <2> DEFINE k == Cardinality(C)
  <2>1. PICK first \in {0} \cup {cells[c] + 1 : c \in Existing} :
          /\ IsFirstOrder(first)
          /\ \E place \in [C -> first .. first + k - 1] :
               /\ \A c, d \in C : c # d => place[c] # place[d]
               /\ cells' = With(Without(cells, R), place)
    BY <1>6, Zenon DEF ApplyPlan
  <2>2. PICK place \in [C -> first .. first + k - 1] :
          /\ \A c, d \in C : c # d => place[c] # place[d]
          /\ cells' = With(Without(cells, R), place)
    BY <2>1
  <2>3. C \cap Existing = {} /\ IsFiniteSet(C)
    BY NotebookAssumption, FS_Subset DEF Inv, TypeOK, IsPlacing, Existing
  <2>4. /\ Existing' = (Existing \ R) \cup C
        /\ \A c \in C : cells'[c] = place[c]
        /\ \A c \in Existing \ R : cells'[c] = cells[c]
    BY <2>2, <2>3 DEF With, Without, Existing
  <2>5. /\ k \in Nat
        /\ Cardinality(R) \in Nat
        /\ \A T \in SUBSET R : Cardinality(T) \in Nat /\ Cardinality(T) <= Cardinality(R)
    BY <1>2, <2>3, FS_Subset, FS_CardinalityType
  <2>6. Count' = Count - Cardinality(R) + k
    <3>1. IsFiniteSet(Existing \ R) /\ Cardinality(Existing \ R) = Count - Cardinality(R)
      BY <1>2, FS_Difference, Existing \cap R = R DEF Count
    <3>2. (Existing \ R) \cap C = {}
      BY <2>3
    <3>3. Cardinality((Existing \ R) \cup C) = Cardinality(Existing \ R) + k
      <4>1. Cardinality((Existing \ R) \cap C) = 0
        BY <3>2, FS_EmptySet
      <4>2. Cardinality((Existing \ R) \cup C)
              = Cardinality(Existing \ R) + k - Cardinality((Existing \ R) \cap C)
        BY <2>3, <3>1, FS_Union, Zenon
      <4>3. Cardinality(Existing \ R) \in Int
        BY <1>2, <2>5, <3>1
      <4> QED
        BY <2>5, <4>1, <4>2, <4>3
    <3> QED
      BY <2>4, <3>1, <3>3 DEF Count
  <2>7. Fresh'
    BY <1>6, TransactionIsFresh DEF ApplyPlan, Inv
  <2>8. LimitExceededByOverlapOnly'
    <3>1. PICK early \in SUBSET R : k = 0 \/ Count - Cardinality(early) + k <= MaxCells
      BY <1>6 DEF ApplyPlan
    <3>2. Count' <= Count \/ Count' <= MaxCells
      BY <1>2, <1>3, <2>5, <2>6, <3>1
    <3> QED
      BY <1>2, <1>3, <1>6, <2>5, <2>6, <3>2 DEF ApplyPlan, Inv, LimitExceededByOverlapOnly
  <2>9. OrphansByOverlapOnly' /\ DanglingByStaleSaveOnly'
    <3>1. alive' /\ layout' = (layout \ R) \cup S /\ ghosts' = ghosts
      BY <1>6 DEF ApplyPlan
    <3> QED
      BY <2>4, <3>1 DEF Inv, OrphansByOverlapOnly, DanglingByStaleSaveOnly
  <2>10. PlacesAreLow' /\ PlacesAreDistinct'
    <3>1. SUFFICES ASSUME ~disturbed'
                   PROVE  /\ \A d \in Existing' : cells'[d] <= Count'
                          /\ \A d, e \in Existing' : d # e => cells'[d] # cells'[e]
      BY DEF PlacesAreLow, PlacesAreDistinct
    <3>2. ~disturbed /\ R = {}
      BY <1>6, <3>1 DEF ApplyPlan
    <3>3. \A d \in Existing : cells[d] <= Count /\ cells[d] \in Int /\ cells[d] < first
      BY <2>1, <3>2 DEF Inv, PlacesAreLow, TypeOK, IsPlacing, Existing, IsFirstOrder
    <3>4. \A d, e \in Existing : d # e => cells[d] # cells[e]
      BY <3>2 DEF Inv, PlacesAreDistinct
    <3>5. first \in Int /\ first <= Count + 1 /\ (Existing = {} => first = 0)
      BY <1>2, <2>1, <3>3 DEF IsFirstOrder
    <3>6. \A c \in C : place[c] \in Int /\ first <= place[c] /\ place[c] <= first + k - 1
      BY <2>5, <3>5
    <3>7. Count' = Count + k
      BY <1>2, <2>5, <2>6, <3>2, FS_EmptySet
    <3> QED
      BY <1>2, <2>2, <2>4, <2>5, <3>2, <3>3, <3>4, <3>5, <3>6, <3>7
  <2> QED
    BY <1>1, <2>7, <2>8, <2>9, <2>10 DEF Inv
<1> QED
  BY <1>4, <1>5, <1>6

LEMMA InvStep ==
  ASSUME Inv, [Next]_vars
  PROVE  Inv'
<1>1. CASE UNCHANGED vars
  <2>1. TypeOK'
    BY <1>1, TypeStep DEF Inv
  <2>2. Fresh'
    BY <1>1 DEF vars, Inv, Fresh, FitsCells, Existing, Count
  <2> QED
    BY <1>1, <2>1, <2>2, SharedKept DEF vars, Inv
<1> QED
  BY <1>1, RequestStep, TransactionStep DEF Next

LEMMA Invariance == Spec => []Inv
BY InitInv, InvStep, PTL DEF Spec

\* Two cells share a place only after a deletion, a place the client chose, or a write by a
\* request that was overtaken.
THEOREM PlacesTheorem == Spec => []PlacesAreDistinct
BY Invariance, PTL DEF Inv

\* The limit is exceeded, and a cell is left without a notebook, by overtaken requests only.
THEOREM LimitTheorem == Spec => [](LimitExceededByOverlapOnly /\ OrphansByOverlapOnly)
BY Invariance, PTL DEF Inv

\* The dashboard names a missing cell only after a client saved an old copy of it.
THEOREM LayoutTheorem == Spec => []DanglingByStaleSaveOnly
BY Invariance, PTL DEF Inv

\* A reorder that was not overtaken numbers the cells from one.
THEOREM RenumberTheorem == Spec => []ReorderRenumbers
<1>1. Inv => ReorderRenumbers
  BY DEF Inv, Fresh, FitsCells, ReorderRenumbers
<1> QED
  BY <1>1, Invariance, PTL
=============================================================================
