------------------------------ MODULE ChartForm ------------------------------
(***************************************************************************)
(* The form of a chart cell: what it holds, what it stores, and what it    *)
(* shows when the stored chart is opened again.                            *)
(*                                                                         *)
(* A stored chart names its series twice: by column and aggregate, and by  *)
(* the alias its query gives the result.  The form holds no alias, every   *)
(* save makes them anew.  Each series carries the slot of its colour.      *)
(*                                                                         *)
(* Bar and line charts are one kind here, labels, titles and the layout    *)
(* are left out, and so is the metric chart, which has no column.          *)
(***************************************************************************)
EXTENDS Naturals, Sequences, FiniteSets, SequencesExt, TLC

CONSTANTS
  Columns,        \* the columns of the source: strings, an alias is made of one
  AggregateNames, \* aggregate functions, as an alias spells them
  SeriesLimit,    \* SERIES_LIMIT
  ColorSlots      \* SERIES_COLOR_SLOTS

Nothing == ""   \* no column or aggregate is picked

ASSUME ChartFormAssumption ==
  /\ Nothing \notin Columns \cup AggregateNames
  /\ SeriesLimit \in Nat \ {0} /\ ColorSlots \in Nat \ {0} /\ SeriesLimit <= ColorSlots

VARIABLES
  values,   \* what the form holds
  content   \* what the cell has stored
formVars == <<values, content>>

NoSlot == ColorSlots   \* a stored series without color_index: the demo's
NoContent == [kind |-> "none", x |-> Nothing, xAlias |-> Nothing, series |-> <<>>,
              sortBy |-> Nothing, category |-> Nothing]

-----------------------------------------------------------------------------
(* From the form to the stored content.                                    *)

SeriesAlias(column, aggregate) == IF aggregate = Nothing THEN column ELSE column \o "_" \o aggregate

\* The first slot no row has.
NextColorIndex(series) ==
  LET used == {series[i].slot : i \in DOMAIN series} IN
  (CHOOSE n \in 0 .. Len(series) : n \notin used /\ \A k \in 0 .. n - 1 : k \in used) % ColorSlots

Aliases(series) == {series[i].alias : i \in DOMAIN series}

WithAlias(s) == [column |-> s.column, aggregate |-> s.aggregate, slot |-> s.slot,
                 alias |-> SeriesAlias(s.column, s.aggregate)]

\* The elements of s at the indices I, in their order.
At(s, I) ==
  [k \in 1 .. Cardinality(I) |-> s[CHOOSE i \in I : Cardinality({j \in I : j <= i}) = k]]

\* withChartAliases: of two series with one alias the first is kept.
Aliased(series) ==
  LET all == [i \in DOMAIN series |-> WithAlias(series[i])] IN
  At(all, {i \in DOMAIN all : \A j \in 1 .. i - 1 : all[j].alias # all[i].alias})

\* The x axis gives way: a, a_2, a_3, ...
XAlias(x, taken) ==
  LET Name(n) == IF n = 1 THEN x ELSE x \o "_" \o ToString(n)
      free == {n \in 1 .. Cardinality(taken) + 1 : Name(n) \notin taken}
  IN Name(CHOOSE n \in free : \A k \in free : n <= k)

\* The series of that column, or else the first one.
SortAlias(series, column) ==
  LET named == {i \in DOMAIN series : series[i].column = column} IN
  CASE named # {} -> series[CHOOSE i \in named : \A j \in named : i <= j].alias
    [] named = {} /\ series # <<>> -> series[1].alias
    [] OTHER -> Nothing

\* extractAxisChartData, and extractPieChartData.
Extract(v) ==
  LET rows == At(v.series, {i \in DOMAIN v.series : v.series[i].column # Nothing})
      series == Aliased(At(rows, {i \in DOMAIN rows : i <= SeriesLimit}))
  IN IF v.kind = "axis"
     THEN [kind |-> "axis", x |-> v.x, xAlias |-> XAlias(v.x, Aliases(series)), series |-> series,
           sortBy |-> SortAlias(series, v.sort), category |-> Nothing]
     ELSE [NoContent EXCEPT !.kind = v.kind, !.category = v.category]

-----------------------------------------------------------------------------
(* From the stored content to the form.                                    *)

\* Mutant of Slot: the place in the list, whatever colour is stored.
SlotOfPlace(series, i) == (i - 1) % ColorSlots

\* A series without a colour takes that of its place.
Slot(series, i) == IF series[i].slot = NoSlot THEN (i - 1) % ColorSlots ELSE series[i].slot

BlankSeries(slot) == [column |-> Nothing, aggregate |-> Nothing, slot |-> slot]

\* getDefaultValuesForChart.  The sort series is put in as it is stored, by its alias; the
\* form offers columns.
Defaults(c) ==
  LET series ==
        IF c.kind # "axis" THEN <<>>
        ELSE IF c.series = <<>> THEN <<BlankSeries(0)>>
        ELSE [i \in DOMAIN c.series |->
                [column |-> c.series[i].column, aggregate |-> c.series[i].aggregate,
                 slot |-> Slot(c.series, i)]]
  IN [kind |-> c.kind, x |-> c.x, series |-> series, sort |-> c.sortBy, category |-> c.category]

\* Charts that did not come from this form: of the demo, whose aliases are columns and
\* which store no colours, and of a generated canvas.
DemoContent ==
  {[kind |-> "axis", x |-> x, xAlias |-> x, sortBy |-> c, category |-> Nothing,
    series |-> <<[column |-> c, aggregate |-> f, alias |-> c, slot |-> NoSlot]>>] :
     x \in Columns, c \in Columns, f \in AggregateNames}

GeneratedContent ==
  {[kind |-> "axis", x |-> x, xAlias |-> x, sortBy |-> Nothing, category |-> Nothing,
    series |-> [i \in DOMAIN cs |-> [column |-> cs[i], aggregate |-> f,
                                     alias |-> SeriesAlias(cs[i], f), slot |-> i - 1]]] :
     x \in Columns, cs \in {s \in SeqOf(Columns, SeriesLimit) : s # <<>> /\ IsInjective(s)},
     f \in AggregateNames}

-----------------------------------------------------------------------------
FormInit ==
  /\ content \in {NoContent} \cup DemoContent \cup GeneratedContent
  /\ values = Defaults(content)

\* chart_type.  What was picked for another kind stays in the form.
PickKind(kind) ==
  /\ kind # values.kind
  /\ values' = [values EXCEPT !.kind = kind] /\ UNCHANGED content

PickX(c) ==
  /\ values.kind = "axis"
  /\ values' = [values EXCEPT !.x = c] /\ UNCHANGED content

PickCategory(c) ==
  /\ values.kind = "pie"
  /\ values' = [values EXCEPT !.category = c] /\ UNCHANGED content

PickColumn(i, c) ==
  /\ values.kind = "axis"
  /\ values' = [values EXCEPT !.series[i].column = c] /\ UNCHANGED content

PickAggregate(i, f) ==
  /\ values.kind = "axis"
  /\ values' = [values EXCEPT !.series[i].aggregate = f] /\ UNCHANGED content

\* seriesSortOptions: the columns of the series that have one.
PickSort(i) ==
  /\ values.kind = "axis" /\ values.series[i].column # Nothing
  /\ values' = [values EXCEPT !.sort = values.series[i].column] /\ UNCHANGED content

\* Mutant of AddSeries: the button stays enabled.
AddSeriesAlways ==
  /\ values.kind = "axis"
  /\ values' = [values EXCEPT !.series = Append(@, BlankSeries(NextColorIndex(@)))]
  /\ UNCHANGED content

AddSeries ==
  /\ values.kind = "axis" /\ Len(values.series) < SeriesLimit
  /\ values' = [values EXCEPT !.series = Append(@, BlankSeries(NextColorIndex(@)))]
  /\ UNCHANGED content

RemoveSeries(i) ==
  /\ values.kind = "axis" /\ Len(values.series) > 1
  /\ values' = [values EXCEPT !.series = RemoveAt(@, i)] /\ UNCHANGED content

\* The required fields on show.  The list of series may be empty.
IsComplete ==
  \/ /\ values.kind = "axis" /\ values.x # Nothing
     /\ \A i \in DOMAIN values.series :
          values.series[i].column # Nothing /\ values.series[i].aggregate # Nothing
  \/ values.kind = "pie" /\ values.category # Nothing

\* The form keeps what it holds: it was touched by being submitted.
SaveChart ==
  /\ IsComplete
  /\ content' = Extract(values) /\ UNCHANGED values

ReopenForm == values' = Defaults(content) /\ UNCHANGED content

FormNext ==
  \/ \E kind \in {"axis", "pie"} : PickKind(kind)
  \/ \E c \in Columns : PickX(c) \/ PickCategory(c)
  \/ \E i \in DOMAIN values.series :
       \/ \E c \in Columns : PickColumn(i, c)
       \/ \E f \in AggregateNames : PickAggregate(i, f)
       \/ PickSort(i)
       \/ RemoveSeries(i)
  \/ AddSeries \/ SaveChart \/ ReopenForm

FormSpec == FormInit /\ [][FormNext]_formVars

-----------------------------------------------------------------------------
(* Properties.                                                             *)

FormTypeOK ==
  /\ values.kind \in {"none", "axis", "pie"}
  /\ values.x \in Columns \cup {Nothing} /\ values.category \in Columns \cup {Nothing}
  /\ Len(values.series) <= SeriesLimit
  /\ \A i \in DOMAIN values.series :
       values.series[i] \in [column : Columns \cup {Nothing}, slot : 0 .. ColorSlots - 1,
                             aggregate : AggregateNames \cup {Nothing}]
  /\ Len(content.series) <= SeriesLimit

\* A chart saved, opened again and saved untouched is the same chart, colours included.
\* Only its order may change: the form looks for a column by the name of an alias, and
\* where it finds none the chart is sorted by its first series.
ReopeningChangesNothing ==
  LET c == Extract(values)
      again == Extract(Defaults(c))
  IN IsComplete =>
       again = [c EXCEPT !.sortBy = SortAlias(c.series, c.sortBy)]

=============================================================================
