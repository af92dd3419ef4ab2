----------------------------- MODULE RowEditing -----------------------------
(***************************************************************************)
(* Editing in place: a cell, of which the text of the query saves itself   *)
(* 300 ms after the last keystroke while its name and its connection are   *)
(* saved when they are changed, and a canvas with its name and             *)
(* description.                                                            *)
(*                                                                         *)
(* The server takes the whole row, so each save sends the row as the query *)
(* cache has it, with the one field changed.  The editor of the text takes *)
(* its text from the cache when it opens, and never again.  Values are     *)
(* numbered in the order they are given; fields are abstracted to one      *)
(* typed and one set.                                                      *)
(***************************************************************************)
EXTENDS Naturals, FiniteSets

CONSTANTS
  MaxEdits,      \* bound: values given
  MaxSaves       \* bound: saves under way at once

ASSUME RowEditingAssumption == MaxEdits \in Nat /\ MaxSaves \in Nat

VARIABLES
  kind,          \* what is edited, a "cell" or a "canvas"
  row,           \* server: the row
  cached,        \* the row in the query cache
  stale,         \* the cached row is invalidated
  fetching,      \* the row is fetched again: "no", "sent", or "read" once the server answered
  fetched,       \* what it answered
  opened,        \* the page is on show
  editor,        \* the text in the editor
  due,           \* debouncedUpdate is waiting
  puts,          \* the saves under way
  given,         \* history: the last value given to each field
  count,         \* values given so far
  strayedRow     \* history: an edit was dropped, refused, or overtaken by another request
editingVars == <<kind, row, cached, stale, fetching, fetched, opened, editor, due, puts, given, count, strayedRow>>

Fields == {"typed", "set"}
RowValues == [Fields -> 0 .. MaxEdits]

\* A save, told from others by the value it brings, and whether the server has written it.
Puts == [payload : RowValues, written : BOOLEAN]

RowInit ==
  /\ kind \in {"cell", "canvas"}
  /\ row = [f \in Fields |-> 0] /\ cached = row /\ stale = FALSE /\ fetching = "no" /\ fetched = row
  /\ opened = TRUE /\ editor = 0 /\ due = FALSE
  /\ puts = {} /\ given = row /\ count = 0 /\ strayedRow = FALSE

-----------------------------------------------------------------------------
(* Saving.                                                                 *)

\* Mutant of Payload: the row as it was when the page opened.
PayloadOfFirst(f, v) == [g \in Fields |-> IF g = f THEN v ELSE 0]

\* {...cell, field}: the rest of the row is what the cache holds.
Payload(f, v) == [cached EXCEPT ![f] = v]

Save(f, v) ==
  /\ Cardinality(puts) < MaxSaves
  /\ puts' = puts \cup {[payload |-> Payload(f, v), written |-> FALSE]}
  /\ strayedRow' = (strayedRow \/ puts # {})

\* A keystroke starts the 300 ms anew.
Type ==
  /\ opened /\ kind = "cell" /\ count < MaxEdits
  /\ count' = count + 1 /\ editor' = count + 1 /\ due' = TRUE
  /\ given' = [given EXCEPT !["typed"] = count + 1]
  /\ UNCHANGED <<kind, row, cached, stale, fetching, fetched, opened, puts, strayedRow>>

Typed300msAgo ==
  /\ due /\ due' = FALSE
  /\ Save("typed", editor)
  /\ UNCHANGED <<kind, row, cached, stale, fetching, fetched, opened, editor, given, count>>

\* InlineEdit of the name, the select of the connection; of a canvas both fields.
SetField(f) ==
  /\ opened /\ count < MaxEdits /\ (kind = "cell" => f = "set")
  /\ count' = count + 1
  /\ given' = [given EXCEPT ![f] = count + 1]
  /\ Save(f, count + 1)
  /\ UNCHANGED <<kind, row, cached, stale, fetching, fetched, opened, editor, due>>

\* update_cell and update_canvas: the row is replaced; requests arrive in any order.
PutWritten(u) ==
  /\ u \in puts /\ ~u.written
  /\ row' = u.payload
  /\ puts' = (puts \ {u}) \cup {[u EXCEPT !.written = TRUE]}
  /\ UNCHANGED <<kind, cached, stale, fetching, fetched, opened, editor, due, given, count, strayedRow>>

\* The answer, the row as written, replaces the cached one.  A cell's is invalidated besides:
\* a fetch under way starts anew if the page is still on show.
PutAnswered(u) ==
  LET anew == opened /\ kind = "cell" IN
  /\ u \in puts /\ u.written
  /\ puts' = puts \ {u}
  /\ cached' = u.payload /\ stale' = (kind = "cell" /\ ~opened)
  /\ fetching' = IF anew THEN "sent" ELSE fetching
  /\ strayedRow' = (strayedRow \/ (~anew /\ fetching = "read" /\ fetched # row))
  /\ UNCHANGED <<kind, row, fetched, opened, editor, due, given, count>>

\* Refused, or the answer is lost: nothing is sent again.
PutFails(u) ==
  /\ u \in puts
  /\ puts' = puts \ {u} /\ strayedRow' = TRUE
  /\ UNCHANGED <<kind, row, cached, stale, fetching, fetched, opened, editor, due, given, count>>

-----------------------------------------------------------------------------
(* Fetching.                                                               *)

\* After 60 s, when the window gets the focus.
Refetch ==
  /\ opened /\ fetching = "no" /\ fetching' = "sent"
  /\ UNCHANGED <<kind, row, cached, stale, fetched, opened, editor, due, puts, given, count, strayedRow>>

FetchRead ==
  /\ fetching = "sent" /\ fetching' = "read" /\ fetched' = row
  /\ UNCHANGED <<kind, row, cached, stale, opened, editor, due, puts, given, count, strayedRow>>

FetchAnswered ==
  /\ fetching = "read"
  /\ fetching' = "no" /\ cached' = fetched /\ stale' = FALSE
  /\ UNCHANGED <<kind, row, fetched, opened, editor, due, puts, given, count, strayedRow>>

-----------------------------------------------------------------------------
(* Coming and going.                                                       *)

\* The cleanup of the editor cancels what waits.  A fetch under way is not aborted.
LeaveRow ==
  /\ opened /\ opened' = FALSE /\ due' = FALSE
  /\ strayedRow' = (strayedRow \/ due)
  /\ UNCHANGED <<kind, row, cached, stale, fetching, fetched, editor, puts, given, count>>

\* The editor opens with the cached text; an invalidated row is fetched again.
ReturnToRow ==
  /\ ~opened /\ opened' = TRUE
  /\ editor' = IF kind = "cell" THEN cached["typed"] ELSE editor
  /\ fetching' = IF stale /\ fetching = "no" THEN "sent" ELSE fetching
  /\ strayedRow' = (strayedRow \/ puts # {})
  /\ UNCHANGED <<kind, row, cached, stale, fetched, due, puts, given, count>>

RowNext ==
  \/ Type \/ Typed300msAgo
  \/ \E f \in Fields : SetField(f)
  \/ \E u \in puts : PutWritten(u) \/ PutAnswered(u) \/ PutFails(u)
  \/ Refetch \/ FetchRead \/ FetchAnswered
  \/ LeaveRow \/ ReturnToRow

RowSpec == RowInit /\ [][RowNext]_editingVars

-----------------------------------------------------------------------------
(* Properties.                                                             *)

RowTypeOK ==
  /\ kind \in {"cell", "canvas"}
  /\ row \in RowValues /\ cached \in RowValues /\ given \in RowValues
  /\ stale \in BOOLEAN /\ opened \in BOOLEAN /\ due \in BOOLEAN /\ strayedRow \in BOOLEAN
  /\ fetching \in {"no", "sent", "read"} /\ fetched \in RowValues
  /\ editor \in 0 .. MaxEdits /\ count \in 0 .. MaxEdits
  /\ puts \subseteq Puts

\* Once every save is answered and nothing waits to be saved, the row holds the last value
\* given to each field, and the cache and the editor show it.  The exceptions are edits made,
\* or a page opened again, while a save was under way, a refused save, text typed less than
\* 300 ms before the page was left, and a save that overtakes a fetch: of a canvas, or of a
\* cell whose page was left, the older row then comes last and passes for fresh.
EditsAreKept ==
  ~strayedRow /\ puts = {} /\ ~due =>
    /\ row = given
    /\ kind = "cell" /\ opened => editor = row["typed"]
    /\ fetching = "no" /\ opened => cached = row

=============================================================================
