------------------------------ MODULE ListPage ------------------------------
(***************************************************************************)
(* The two lists that are shown a page at a time: the conversations, which *)
(* can be searched, selected and deleted together, and the canvases.       *)
(*                                                                         *)
(* A list is asked for by its page, its page size and the search.  While   *)
(* the answer is under way the rows of the question before stay on show.   *)
(* A page seen earlier is shown from the query cache, as it was then;      *)
(* which pages were seen is left out.  Rows are numbers in the order of    *)
(* the list, and for canvases, which cannot be selected, only their number *)
(* counts.                                                                 *)
(***************************************************************************)
EXTENDS Naturals, FiniteSets

CONSTANTS
  Matching,      \* the conversations that match what is searched for
  MaxRows,       \* bound: rows, of each list
  PageSizes      \* the page sizes offered; the first question asks for the largest

ASSUME ListAssumption ==
  /\ MaxRows.conversations \in Nat /\ MaxRows.canvases \in Nat
  /\ Matching \subseteq 1 .. MaxRows.conversations
  /\ PageSizes \subseteq Nat \ {0} /\ \E z \in PageSizes : \A y \in PageSizes : y <= z

VARIABLES
  list,      \* which list is on show, "conversations" or "canvases"
  stored,    \* server: the rows
  before,    \* server: the rows before they last changed
  page, size, search,  \* the question: pageIndex, pageSize, debouncedSearch
  typed,     \* what the search box holds
  shown,     \* data: the last answer, NoAnswer without one
  behind,    \* the answer on show belongs to another question (keepPreviousData)
  asked,     \* a request is under way
  failed,    \* isError
  selecting, selected,  \* useConversationSelection
  dialog,    \* "closed", "open", or "sent" once confirmed and unanswered
  doomed,    \* the conversations the request names
  slipped    \* history: rows were selected on an old page, or left the page since
listVars == <<list, stored, before, page, size, search, typed, shown, behind, asked, failed,
              selecting, selected, dialog, doomed, slipped>>

server == <<stored, before>>
question == <<page, size, search>>
data == <<shown, behind, asked, failed>>
selection == <<selecting, selected, slipped>>
deletion == <<dialog, doomed>>

NoAnswer == [rows |-> {}, total |-> 0, pages |-> 0, known |-> FALSE]
LargestSize == CHOOSE z \in PageSizes : \A y \in PageSizes : y <= z
Smaller(a, b) == IF a < b THEN a ELSE b
Larger(a, b) == IF a < b THEN b ELSE a

-----------------------------------------------------------------------------
(* The answers.                                                            *)

PagesFor(n, z) == (n + z - 1) \div z

\* The place of row i among rows, from 1.
PlaceIn(rows, i) == Cardinality({j \in rows : j <= i})

\* list_conversations and list_canvases: a page beyond the last has no rows.
AnswerOf(rows, s, p, z) ==
  LET found == IF s = "" THEN rows ELSE rows \cap Matching IN
  [rows |-> {i \in found : p * z < PlaceIn(found, i) /\ PlaceIn(found, i) <= p * z + z},
   total |-> Cardinality(found), pages |-> PagesFor(Cardinality(found), z), known |-> TRUE]

\* The list of conversations counts the pages itself, and never none.
TotalPages ==
  IF list = "conversations" THEN Larger(1, PagesFor(shown.total, size)) ELSE shown.pages

-----------------------------------------------------------------------------
(* What is on show.                                                        *)

Loading == asked /\ ~shown.known

\* isEmpty: an answer without rows for conversations, without a total for canvases.
EmptyShown ==
  /\ ~Loading /\ ~failed
  /\ IF list = "conversations" THEN shown.rows = {} ELSE shown.total = 0

\* Table: the rows and the pager below them, unless it is loading or failed.
TableShown == ~EmptyShown /\ ~Loading /\ ~failed

\* getPageItems: the pages with a button of their own, of t pages with page c on show.
PageItems(c, t) ==
  CASE t <= 7 -> 0 .. (t - 1)
    [] t > 7 /\ c <= 3 -> 0 .. 4 \cup {t - 1}
    [] t > 7 /\ c > 3 /\ c + 4 >= t -> {0} \cup (t - 5) .. (t - 1)
    [] OTHER -> {0, t - 1} \cup (c - 1) .. (c + 1)

\* The ellipses to the left and to the right.
Ellipses(c, t) ==
  (IF t > 7 /\ c > 3 THEN {"left"} ELSE {}) \cup
  (IF t > 7 /\ (c <= 3 \/ c + 4 < t) THEN {"right"} ELSE {})

Jump == 5

\* renderPages: where a click leads.
Clicks(c, t) ==
  (PageItems(c, t) \ {c})
  \cup (IF c > 0 THEN {c - 1} ELSE {})
  \cup (IF c + 1 < t THEN {c + 1} ELSE {})
  \cup (IF "left" \in Ellipses(c, t) THEN {IF c < Jump THEN 0 ELSE c - Jump} ELSE {})
  \cup (IF "right" \in Ellipses(c, t) THEN {Smaller(t - 1, c + Jump)} ELSE {})

-----------------------------------------------------------------------------
ListInit ==
  /\ list \in {"conversations", "canvases"}
  /\ stored = 1 .. MaxRows[list] /\ before = stored
  /\ page = 0 /\ size = LargestSize /\ search = "" /\ typed = ""
  /\ shown = NoAnswer /\ behind = FALSE /\ asked = TRUE /\ failed = FALSE
  /\ selecting = FALSE /\ selected = {} /\ dialog = "closed" /\ doomed = {}
  /\ slipped = FALSE

\* Another question: the rows on show stay until it is answered, or those seen earlier are
\* shown, as they were then.
Ask(p, z, s) ==
  /\ page' = p /\ size' = z /\ search' = s /\ failed' = FALSE
  /\ \/ shown' = shown /\ behind' = shown.known /\ asked' = TRUE
     \/ /\ \E rows \in {stored, before} : shown' = AnswerOf(rows, s, p, z)
        /\ behind' = FALSE /\ asked' \in BOOLEAN

\* The effect of the list of conversations when the page or the search changes.
ClearSelection == selected' = {} /\ slipped' = FALSE

\* The request is answered.  Selected rows that are gone stay selected.
ListAnswered ==
  /\ asked
  /\ shown' = AnswerOf(stored, search, page, size)
  /\ behind' = FALSE /\ asked' = FALSE /\ failed' = FALSE
  /\ slipped' = (slipped \/ ~(selected \subseteq shown'.rows))
  /\ UNCHANGED <<list, server, question, typed, selecting, selected, deletion>>

\* After its retries.  The rows of another question are gone then.
ListFails ==
  /\ asked
  /\ asked' = FALSE /\ failed' = TRUE /\ behind' = FALSE
  /\ shown' = IF behind THEN NoAnswer ELSE shown
  /\ slipped' = (slipped \/ (behind /\ selected # {}))
  /\ UNCHANGED <<list, server, question, typed, selecting, selected, deletion>>

\* The window gets the focus.
AskAgain ==
  /\ ~asked /\ asked' = TRUE
  /\ UNCHANGED <<list, server, question, typed, shown, behind, failed, selection, deletion>>

\* Another client deletes a row.
DeletedElsewhere ==
  /\ dialog # "sent" /\ before = stored /\ stored # {}
  /\ before' = stored
  /\ \/ list = "conversations" /\ \E c \in stored : stored' = stored \ {c}
     \/ list = "canvases" /\ stored' = 1 .. (Cardinality(stored) - 1)
  /\ UNCHANGED <<list, question, typed, data, selection, deletion>>

-----------------------------------------------------------------------------
(* The pager.                                                              *)

\* Mutant of GoToPage: the selection is kept.
GoToPageSelected ==
  /\ TableShown /\ dialog = "closed"
  /\ \E p \in Clicks(page, TotalPages) : Ask(p, size, search)
  /\ UNCHANGED <<list, server, typed, selection, deletion>>

\* onPageClick
GoToPage ==
  /\ TableShown /\ dialog = "closed"
  /\ \E p \in Clicks(page, TotalPages) : Ask(p, size, search)
  /\ ClearSelection
  /\ UNCHANGED <<list, server, typed, selecting, deletion>>

\* onChangePageSize goes to the first page; from the first page the selection is kept.
ChangePageSize ==
  /\ TableShown /\ dialog = "closed"
  /\ \E z \in PageSizes \ {size} : Ask(0, z, search)
  /\ IF page # 0 THEN ClearSelection
     ELSE selected' = selected /\ slipped' = (slipped \/ selected # {})
  /\ UNCHANGED <<list, server, typed, selecting, deletion>>

-----------------------------------------------------------------------------
(* The search of the conversations.                                        *)

\* Typing, or Escape, which empties the box; the box is not shown while selecting.
TypeSearch ==
  /\ list = "conversations" /\ ~selecting /\ dialog = "closed"
  /\ typed' \in {"", "text"} \ {typed}
  /\ UNCHANGED <<list, server, question, data, selection, deletion>>

\* 300 ms later: the search starts at the first page.
Debounced ==
  /\ typed # search
  /\ Ask(0, size, typed)
  /\ ClearSelection
  /\ UNCHANGED <<list, server, typed, selecting, deletion>>

-----------------------------------------------------------------------------
(* Selecting and deleting conversations.                                   *)

\* The button selects nothing, the entry of a row's menu that row.
EnterSelectMode ==
  /\ list = "conversations" /\ ~selecting /\ dialog = "closed"
  /\ selecting' = TRUE
  /\ selected' \in {{}} \cup (IF TableShown THEN {{c} : c \in shown.rows} ELSE {})
  /\ slipped' = (selected' # {} /\ behind)
  /\ UNCHANGED <<list, server, question, typed, data, deletion>>

ExitSelectMode ==
  /\ selecting /\ dialog = "closed"
  /\ selecting' = FALSE
  /\ ClearSelection
  /\ UNCHANGED <<list, server, question, typed, data, deletion>>

\* A click on a row while selecting; otherwise it opens the conversation or the canvas.
ToggleRow ==
  /\ selecting /\ TableShown /\ dialog = "closed"
  /\ \E c \in shown.rows :
       selected' = IF c \in selected THEN selected \ {c} ELSE selected \cup {c}
  /\ slipped' = (slipped \/ behind)
  /\ UNCHANGED <<list, server, question, typed, data, selecting, deletion>>

\* Select All: the rows on show, those of another page while this one loads.
SelectAll ==
  /\ selecting /\ dialog = "closed"
  /\ selected' = shown.rows /\ slipped' = behind
  /\ UNCHANGED <<list, server, question, typed, data, selecting, deletion>>

OpenDeleteDialog ==
  /\ selecting /\ selected # {} /\ dialog = "closed"
  /\ dialog' = "open"
  /\ UNCHANGED <<list, server, question, typed, data, selection, doomed>>

CloseDeleteDialog ==
  /\ dialog = "open"
  /\ dialog' = "closed"
  /\ UNCHANGED <<list, server, question, typed, data, selection, doomed>>

ConfirmDelete ==
  /\ dialog = "open"
  /\ dialog' = "sent" /\ doomed' = selected
  /\ UNCHANGED <<list, server, question, typed, data, selection>>

\* bulk_delete_conversations deletes all of them; then the dialog closes, selecting ends and
\* the list is asked for again.
BulkDeleted ==
  /\ dialog = "sent" /\ doomed \subseteq stored
  /\ stored' = stored \ doomed /\ before' = stored
  /\ dialog' = "closed" /\ doomed' = {}
  /\ selecting' = FALSE /\ ClearSelection
  /\ asked' = TRUE
  /\ UNCHANGED <<list, question, typed, shown, behind, failed>>

\* Refused, as when one of them is gone, or failed: the dialog stays open.
BulkDeleteRefused ==
  /\ dialog = "sent"
  /\ dialog' = "open" /\ doomed' = {}
  /\ UNCHANGED <<list, server, question, typed, data, selection>>

\* A canvas is deleted after a confirmation, and the list asked for again.
DeleteCanvas ==
  /\ list = "canvases" /\ TableShown /\ shown.rows # {} /\ stored # {}
  /\ stored' = 1 .. (Cardinality(stored) - 1) /\ before' = stored
  /\ asked' = TRUE
  /\ UNCHANGED <<list, question, typed, shown, behind, failed, selection, deletion>>

-----------------------------------------------------------------------------
ListNext ==
  \/ ListAnswered \/ ListFails \/ AskAgain \/ DeletedElsewhere
  \/ GoToPage \/ ChangePageSize \/ TypeSearch \/ Debounced
  \/ EnterSelectMode \/ ExitSelectMode \/ ToggleRow \/ SelectAll
  \/ OpenDeleteDialog \/ CloseDeleteDialog \/ ConfirmDelete \/ BulkDeleted \/ BulkDeleteRefused
  \/ DeleteCanvas

ListSpec == ListInit /\ [][ListNext]_listVars

-----------------------------------------------------------------------------
(* Properties.                                                             *)

ListTypeOK ==
  /\ stored \subseteq 1 .. MaxRows[list] /\ before \subseteq 1 .. MaxRows[list]
  /\ page \in Nat /\ size \in PageSizes
  /\ search \in {"", "text"} /\ typed \in {"", "text"}
  /\ shown \in [rows : SUBSET (1 .. MaxRows[list]), total : Nat, pages : Nat, known : BOOLEAN]
  /\ Cardinality(shown.rows) <= LargestSize
  /\ selected \subseteq 1 .. MaxRows[list] /\ doomed \subseteq 1 .. MaxRows[list]
  /\ dialog \in {"closed", "open", "sent"}
  /\ selected # {} => selecting /\ list = "conversations"

\* "This also removes all of their messages and cannot be undone.": what is about to be deleted
\* was selected on the page that is on show, and is there to be seen.  Exempt: rows selected
\* while their page was being left, rows that left the page when it was asked for again, and a
\* change of the page size on the first page, after which the rows beyond it stay selected.
SelectionIsOnShow == dialog # "closed" /\ ~slipped => selected \subseteq shown.rows

=============================================================================
