# A verification of sopho

sopho lets people ask questions about their databases. A backend in Rust (Axum, sea-orm on
SQLite or Postgres, tokio) answers them with a chain of language-model calls, keeps the
results as conversations, and turns them into canvases: notebooks of cells with a dashboard of
charts. A React frontend shows all of it.

This directory holds TLA+ modules that model the state machines of both, the TLC configurations
that check them on small instances, and proofs, checked by TLAPS, of what holds for every
instance. Paths below are relative to `src/backend/src`, those of the browser (marked FE) to
`src/frontend/src`, unless they start with `src/`.

    tlc -workers 2 -config completion.cfg MCCompletion.tla     # one of the runs
    tlapm CompletionProofs.tla                                 # one of the proof modules

`PROJECT.json` lists the runs, the source lines of every definition, the hazards of the code
with the properties that cover them, the theorems, and for every property a mutant: a plausible
bug, written beside the definition it replaces (`\* Mutant of ...`), that makes TLC find the
property violated.

## 1. Inventory

### What runs, and what it shares

One process. Axum runs each HTTP request as a future on tokio's threads, and *drops the future
when the client disconnects*: whatever a handler has written stays, whatever it had still to
write is never written. Three kinds of task outlive a request: the completion pipeline of a
question, its recorder of events, and the scheduler of suggested questions. State is shared
through the database and three in-memory structures (the pool registry, the slot of the AI
configuration, the provider's client). The database has no foreign keys, and one unique index
that matters, `ai_summary(entity_type, entity_id)`. No handler locks anything: it reads,
decides, and writes; some of the writes are transactions, but the reads a decision rests on
are nearly always outside of them.

### Components

| Component | State | Operations | Hard behaviour | What makes it correct | Here |
|---|---|---|---|---|---|
| Completion (`conversational_analytics/conversation/service.rs`, `ai/dto.rs`, `ai/text_to_sql_agent`) | message row, its content rows, two bounded channels, three tasks | route, analyse, query, present in two strands, store, settle, stream | backpressure, partial failure, deletion meanwhile, order of stored events | an answer that succeeded is stored whole; the pipeline ends; the client's verdict agrees with the row | `Completion`, `Answer` |
| Conversations (same file, `message/`) | conversation and message rows | create, append, complete, settle, delete, bulk delete, rename, suggest a name | decisions on reads outside the transaction, restarts, abandoned requests | turns alternate; numbers have no gap; a busy conversation becomes free; the limit | `Conversation`, `TurnTaking` |
| AI summaries (`ai_summary/`) | one row per chart or dashboard | claim, insert, generate, record, edit the prompt, take over stale claims, delete | two ways to claim, timeouts, late results, lost generations | one generation at a time; a summary is outdated only if its prompt was edited; GENERATING ends | `AiSummary` |
| Notebook and cells (`cell/`, `notebook/`) | cell rows with `display_order` | create, reorder, delete, run a query | overlapping requests, gaps left by deletion, two numbering schemes | places are distinct; a move moves; the limit | `Notebook` |
| Canvas (`canvas/`, `conversation/canvas.rs`) | canvas, notebook and dashboard rows | create, apply a plan of the agent, rename, delete | one large transaction over three entities | all or nothing; no cell without canvas | `Notebook` |
| Dashboard (`dashboard/`) | a layout: list of cell and rectangle | save, append charts, remove a chart | stale saves, u16 arithmetic | it shows existing cells; charts do not lie on each other | `Notebook`, `DashboardGrid` |
| Connections and pools (`connection/`, `database/pool.rs`) | connection rows; map from connection to pool | create, update, test, get a pool, evict | double-checked creation under a lock, stale credentials | a pool belongs to the credentials it was asked for | planned |
| AI configuration (`ai_configuration/`) | one row, one slot in memory | upsert, delete, load at startup | row and slot written one after the other | slot and row agree | planned |
| Suggested questions (`suggested_question/`, `ai/suggested_question_agent`) | rows per connection | refresh at startup and on schedule, list | overlapping refreshes | one batch per connection | planned |
| Sessions (`authentication/`) | session rows, two cookies | sign up, sign in, refresh, sign out, middleware | refresh beside sign-out, expiry | who signed out stays out | `Session` |
| History (`conversation/history.rs`) | none | turn messages into the model's context | rows in odd states | every turn pairs a question with its answer | planned |
| SQL rounds, canvas agent (`ai/...`) | none across calls | collect, plan, retry | rounds and limits | bounded rounds; the last query is the one verified | planned |
| Catalog, search, demo data, errors, configuration, monitoring | none, or seeded once | read-only queries and conversions | little | | no |

The browser (FE) is one JavaScript thread: a handler or effect runs to its end, and everything else
happens between requests and their answers. Three stores are shared by its pages: the query cache
(React Query: one entry per key, one fetch of it at a time, data kept while it is fetched again),
a zustand store that outlives pages, and the store of event streams.

| Component | State | Operations | Hard behaviour | What makes it correct | Here |
|---|---|---|---|---|---|
| Requests and the session (`utils/error_handler.tsx`, `api/auth_api.tsx`) | cookies, the queue of refused requests | refresh once for all, retry, sign in and out | requests refused during a refresh, a refresh that crosses a sign-out | none waits for nothing; signed out stays out | `Session` |
| Pages of a conversation (`components/ConversationalAnalytics`) | detail query, streams, composer, dialogs | start, open, leave, reload, follow up, rename, delete | fetches that overtake each other, streams that end without a word | a follow-up offered would be taken; an answer shows once, and finished | `ConversationPage` |
| View of an answer (`AgentTrace`, `StreamingAgentTrace`, `Artifacts`) | streamed events, cached rows | show an event, drop the stream, show the rows | two views of different events | what was watched does not vanish | `AnswerView` |
| Lists (`ConversationList`, `Canvases`) | page, size, search, selection | page, search, select, delete together | answers of an earlier page | what is deleted was on show | `ListPage` |
| Cells of a notebook (`components/Notebook`, `store/cellSlice.ts`) | marks, outputs, texts, whole-row saves | run, clear, delete, edit in place | callbacks of components that are gone; debounced saves | a cell shown as running has a caller; edits are kept | `NotebookRuns`, `RowEditing` |
| Charts (`ChartCell`, `Chart`, `design-system/Form`) | form values, stored content, drawn content | edit series, save, reopen, run | names by column and by alias; content and output apart | reopening changes nothing; an output is drawn as it was computed | `ChartForm`, `ChartDrawing` |
| Dashboard (`components/Dashboard`, `store/dashboardSlice.ts`) | mode and layout in the store, tiles, summaries | edit, save, cancel, refresh, generate, prompt | late continuations, polling under an open dialog | layouts stay with their canvas; a busy tile is heard of | `DashboardPage`, `DashboardTiles`, `SummaryPanel` |
| Settings, connections, search, home, design system | a form or a debounced question | one request and its answer | little | | no |

Interactions: a completion reads its conversation's history, uses a pool of the registry and the
AI slot, writes message contents, and, for a canvas question, applies a plan to the canvas. Deleting
a conversation removes the rows its completions still write to. Cells of type chart are what the
dashboard lays out and what AI summaries describe; deleting a cell, a canvas or a dashboard deletes
layout entries and summaries in the same transaction, but a plan of the agent leaves behind the
summaries of the charts it deletes. The browser drives all of it through
requests; the events of a completion are the only thing the server sends by itself, and everything
else a page learns by asking again.

## 2. Modules

### Completion: one question being answered

`Completion` is the whole of `execute_completion`'s spawned task (`service.rs:440-842`) with
`EventChannels` (`ai/dto.rs:420-505`) and `text_to_sql_agent::execute`.

| In the model | In the code |
|---|---|
| `phase`, `pos`, `route`, `final` | where `run_completion`, `run_pipeline` and `complete_assistant_message` are |
| `strand["narration"]`, `strand["visualization"]` | the two futures that `present_results` joins |
| `sse`, `persist` | the two mpsc channels of `CHANNEL_SIZE` |
| `recorder` | the task `persist_events` |
| `reader` | the HTTP client; `Leave` drops the stream's receiver |
| `row`, `log` | the assistant message's status and its content rows |
| `emitted`, `received` | history: what was offered to the store channel; what the client last read |

`SendNext` and `StoreNext` are the two halves of `EventChannels::send`, each enabled only when its
channel has room or its receiver is gone; `Fail` is every place a model call, a query, a plan or a
send to the store can fail; `QueueFinal`, `JoinRecorder`, `UpdateStatus` and `TellFinal` are the
settling of the message, in the order of the code.

`Answer` is the abstract specification: a message is PROCESSING while rows are saved, is settled at
most once with a status that fits its last row, and one verdict is announced, after which nothing
changes but deletion. `ImplementsAnswer` is the refinement `row -> status`, `log -> saved`, and the
verdict is the final event once the pipeline is done.

### Conversation: many requests on one conversation

A completion is one step here, its settling; `Completion` has the rest. Every request is a program
counter and the number it has read. `Arrive` is `get_conversation`, `AppendRead`/`AppendCount`/
`AppendInsert` are `append_user_message` between its database calls, `CompletionRead`/
`CompletionInsert` are `execute_completion`, `DeleteCommit` is either deletion. `Drop` is any refusal
(also those of `ensure_ai_live` and of the connection check), error or disconnection that leaves
nothing behind; `CompletionAbandoned` is the disconnection that does leave a row. `TurnTaking` is what
one client, one request at a time, may rely on.

### AiSummary: claims

`Claim` is the `try_mark_generating` of `try_start_generation` (one conditional UPDATE), `Find`,
`Insert` and `FindAgain` what follows when it matched nothing, `Snapshot` and `Record` the generation. A timestamp is the flag
`stale`, set by `Expire` once the claim is older than `STALE_GENERATION_TIMEOUT_MINUTES`. The
look-up and update that `Record` and `SetPrompt` make of one row are one step: between them another
request could change the row's other columns only, and each writes only its own.

### Notebook: one canvas

Cells with their places, the charts of the dashboard, and requests between their database calls:
`CreateCheck`/`CreatePlace`/`CreateInsert` are `execute_create_cell`; `ReorderFind`, `ReorderList`,
`ReorderWrite` (or `ReorderRefused`, `ReorderRolledBack`) are `reorder_cell`; `EditOpen`/`EditSave`
a client that loads a dashboard and saves it later; `DeleteCell`, `DeleteCanvas` and `ApplyPlan` are
transactions. Four history variables say what a promise rests on: `stale` (the cells changed since
this request read them), `disturbed`, `overtaken` and `ghosts`.

### DashboardGrid: where charts lie

The packer of `dashboard/service.rs:171-312` with its u16 arithmetic: `bottom` saturates, the
addition that starts a row wraps (the Docker image is a release build). A transaction of the agent
is taken chart by chart so that its intermediate layout is checked too.

### AnswerView: watching an answer, then reading it

Extends `Completion`: the client that module calls `reader` becomes a page. `ShowEvent`, `ShowFinal`
and `LoseStream` are the callbacks of the stream (FE `ConversationStreamContext.tsx`); `FetchMessages`
and `FetchContents` the two queries of `get_conversation`, between which the completion moves
(`Behind`); `StreamingView` and `StoredView` what the two components show of a list of events. A view
is the set of things that can be seen, so "nothing vanishes" is an inclusion; what a component shows
depends on which events there were (`Happened`), never on their order. The analysis is assumed to
generate a query, as `ai/text_to_sql_agent/agent.rs` does before it executes one.

### ConversationPage: the pages of one conversation

| In the model | In the code |
|---|---|
| `row`, `transcript`, `task`, `name` | the server, as `TurnTaking` has it, and the conversation's name |
| `cached`, `fetch` | the detail query and its one request; `served` holds the snapshot an answer brings |
| `ask` | the create and append mutations under way, and what is left of the panel that sent each |
| `stream` | the entry in the store of streams, which survives leaving the page but not a reload |
| `suggested`, `naming` | `nameSuggested`, and the `suggestName` mutations of this visit and earlier ones |
| `edit`, `draft`, `place` | the rename or deletion under way, the composer, the page on show |
| `overtaken` | history: the last answer to reach the cache was older than what it replaced, or one took the mark off data that had been made invalid |
| `missed` | history: news was lost by a fault or a stream that ended unseen, or a question was sent while an older answer had overtaken or an earlier question of a panel since left was unanswered |

A panel's pending flag is of its own mutation (`IsPending`), so a question may be sent while one of a
panel that was left is under way: `ask` has an entry per question, with the panel on show (`shown`),
one since left (`left`) or a page since loaded again (`gone`). `AskServed` is `append_user_message` or
`create_conversation`, `Appended` and `Created` the callbacks of their answers. Leaving the section
aborts the streams and nothing else: a suggestion of a name goes on, and the next visit makes another
beside it. The answer to a rename or a suggestion is put in the cache beside the messages it does not
have (`RowInCache`), which then count as new.

### Session

The service's handlers (`ServeSignIn`, `ServeRefresh`, `ServeSignOut`, `ServeRequest`) and the
browser's callbacks. Cookies change when an answer arrives. `refresh.row` is the row whose token it
carries, so that a refresh and a sign-out may meet in either order.

### ListPage, NotebookRuns, RowEditing, ChartForm, ChartDrawing

One page or panel each, with as much of the server as it talks to. `ListPage` keeps the rows of the
last answer (`keepPreviousData`) beside the question now asked; the rows are a set, and a page is the
rows whose place (`PlaceIn`) falls on it. `NotebookRuns` has a caller per hook: React Query calls the
callback given to `mutate` only for the last call of a hook that is mounted, so the requests under way
are those a caller waits for and those nobody hears of (`Waiting`, `Forgotten`).
`RowEditing` has the row at the server, in the cache and in the editor, whole-row saves, and a
debounced one. `ChartForm` is what the form's fields do to its values, and the two conversions
between values and stored content; `ChartDrawing` is which of three contents an output goes with.

### DashboardPage, DashboardTiles, SummaryPanel

`DashboardPage` has the layout on show and the mode in the store, the query cache and one fetch per
canvas, and the clicks that wait for it: their continuation runs wherever the user is by then. A
dashboard may have no layout (`NoLayout`, null in its row): the page then shows an empty one
(`OnShow`), but a click on Edit or Cancel leaves on show what is there, an unsaved layout too. A page
that is opened, or sees the window's focus return, joins a fetch under way (`Joined`); a click or a
saved layout begins it anew (`Refetched`), unless it is the first.
`mishap` records the two ways a layout goes astray (below); a behaviour then only leads to a reload,
because everything after is consequence. `DashboardTiles` runs charts as `NotebookRuns` runs cells.
`SummaryPanel` is the other side of `AiSummary`: one query for all summaries, polled while one is
being generated and joined by whoever opens it, and the dialog of a prompt.

### Compositions

`AnswerView` and `Completion` move together. `MCDashboard` and `MCPages` put parts side by side that
share no variable; one part, chosen in the initial state, moves
in a behaviour, so such a run checks each part exactly as alone, and nothing about their interplay
(`MCDashboard`'s `Parts` is there to look at some of them only).

## 3. Runs

| Run | Instance | What it shows |
|---|---|---|
| `completion` | two events of the analysis, channels of 13, no promise about the client | an answer is whole or FAILED; a client that stops reading holds nothing up; `Answer` is implemented |
| `completion_backpressure` | channels of 1 | every send waits for its receiver, and still the pipeline ends and a client that stays is told |
| `conversation_serial` | one request, 3 questions, one fault | a conversation implements `TurnTaking` |
| `conversation_concurrent` | two requests, 2 questions, one fault | no gaps, the limit exceeded by at most the overlap, busy ends |
| `conversation_restart` | one request, 1 question, one fault | **violated**: waiting is not enough |
| `ai_summary` | three requests, one prompt, one fault | exclusion, outdated only by an edit, GENERATING ends, asking again recovers |
| `canvas` | two requests, three cells, a limit of two, one chart | places, limits, dangling layout entries, what a reorder leaves |
| `canvas_reorder` | one request, three cells | **violated**: "Move cell up" |
| `dashboard` | grid: three charts, a limit of two, u16 that ends at 24; page: two canvases with a layout at first, three layouts, one save and one click of each dashboard under way; three tiles; one chart's summary, two prompts | charts stay tidy; layouts stay with their canvas and under edit, and a page at rest shows what was stored; tiles are heard of; summaries are current and a prompt stays typed |
| `answer_view` | two events of the analysis, channels of 1 | nothing watched vanishes; the final event finds the answer settled |
| `conversation_page` | two questions, both under way at a time, one fault, one suggestion that outlives its visit and one question beside that | offers are honest, answers show once and finished, nobody waits for nothing, names stay |
| `pages` | one request besides the session's, three session rows; three conversations, nine canvases, pages of one and two; two queries and a chart; three edits; two series of two columns; two chart contents | what each of the six pages promises |

Why the bounds are enough to be of interest. *Channels:* a completion sends its analysis and at most
11 events more to the stream, so with 13 places for the two events of `ShortAnalysis` it just never
waits, and with 1 it waits at every send. The first is `NeverHeldUp` itself, which one event more
breaks; the code has 14 events and 32 places, which the theorem `StalledClientHoldsNobody` covers. The
analysis is a straight sequence, one event of it before and one after the last point of cancellation
meet every branch. *Requests:* every race found is between two; summaries have three, because a claim
can be taken over while a third inserts. *Prompts:* one suffices, since a prompt differs from none.
*Questions:* with a limit of 2 and two requests the limit can be exceeded
(and is); `MaxMessages` is not a bound on the behaviour but the number of messages the limit implies,
and names the answers that fairness and liveness quantify over. *Cells:* ids are given once, so three ids with
a limit of two let overlapping requests exceed it, and let a plan remove and create in one step;
three cells are also the least number on which a move can pass one cell and leave another.
*Questions of a page:* two may be asked
of a new conversation, and one more of one that has an answer; two of them under way at a time are a
question that overlaps one of a panel that was left. *Suggestions:* one that is still under way when
the section is left, beside that of the next visit; two would add a race between two late ones. While
one is late, `MCConversationPage` lets one question be under way at a time (`OneThingAtATime`). One
rename or deletion is under way at a time, one creation of this conversation, and nobody comes back to
a conversation while it is being deleted: these three are restrictions of the model itself.
*Faults:* one is enough for every outcome of a fault to occur in every state; a second one only
adds exemptions. *Grid:* the columns and sizes are
the real ones; u16 ends at 24 instead of 65535 so that rows near the end occur, and every
arrangement in `Arrangements` is one a client can save, a few of them untidy. *Pages:* two page sizes
and three rows make full, partly filled and empty pages; nine canvases are the least that fill more
pages than the pager names. *Rows:* three edits and two saves under way are a save that overtakes another and an edit between
them. *Series:* two columns, one of which is spelled like the alias of the other, and two series use
up both slots of colour. *Layouts, prompts, charts:* two values suffice to tell an old one from a new one, and a third
to have an edit of the user between them.

Deadlock is checked where the system has to go on (`completion` and `completion_backpressure`, with an explicit `Quiescent`
step, and `dashboard`). In the others nobody has to ask for anything and ids or questions run out, so it is not.

### Fairness

* `Completion`: weak fairness for the pipeline, each presenting strand and the recorder: tokio
  polls every task that can move, and model calls, queries and writes return (with a result or an
  error). `Spec` adds that a client reads what is there unless its connection closes; it never
  has to leave. `StalledSpec` asks nothing of the client: the run `completion` uses it.
* `Conversation`: a completion task settles its message or fails to (justified by `PipelineEnds`).
  No request is fair.
* `AiSummary`: a claimed generation goes on, and time passes. No request is fair; `RetryRecovers` is
  conditional on claims being made again and again.
* `Notebook`, `DashboardGrid` and all modules of the browser: none; only safety is stated. What the browser
  promises to happen is stated as safety: somebody is there who will do it (`NobodyWaitsForNothing`,
  `WaitsForSomething`, `RunningHasCaller`, `BusyTileIsHeardOf`), because whether an answer arrives is up
  to the network.

### What the violations show

1. *A conversation stays busy for ever* (`conversation_restart`). "Conversation is busy; wait for
   the current response to finish" (`error.rs:48`), but nothing settles a message whose task is
   gone. In the trace a client disconnects while the answer row is inserted (`CompletionAbandoned`),
   and no restart is needed; after a restart, or a failed write of the status, it is the same.
   Neither a new question nor a new completion is accepted afterwards.
2. *Reordering* (`canvas_reorder`). `reorder_cell` uses the stored place as an index. Cells created by
   the agent are numbered from 0 and deletions leave gaps; then another cell moves, or none.

### What the exemptions say

A property that holds but for a named case says what the code does in that case, and each case is a
history variable set by the step where it begins. In the browser:

* `ConversationPage`: `overtaken`, a fetch under way when the answer of an append was put in the cache
  comes last, and a question disappears until the next fetch; or the answer to a name arrives after the
  messages were made invalid and takes the mark off, so that nothing asks for them again. `missed`, news
  lost by a fault, a stream that ended while the page was elsewhere, or a question sent beside one of a
  panel since left. `OfferIsHonest` also leaves out the time while the server has taken such a question and
  its answer is on the way: whoever sends a question, leaves the panel and comes back at once is offered to
  send another, which is refused and lost. A suggested name replaces the user's when it is under way at
  the rename, also one of an earlier visit, and, once per visit, when the conversation was renamed long ago.
* `Session`: `crossed`, a refresh under way at the sign-out brings cookies of a new row.
* `ListPage`: `slipped`, rows selected while their page was being left, rows that left the page on a
  new answer, and a smaller page size on the first page, which keeps the selection of rows no longer shown.
* `NotebookRuns`: `silenced`, a cell whose caller is gone stays marked until it is run again.
* `DashboardTiles`: `overtaken`. The button that refreshes all charts runs them through one hook, so all but the
  last stay marked as running; its own busy state counts marks, so it stays busy too, until the
  dashboard is left and opened again. This happens whenever there are two charts.
* `RowEditing`: `strayedRow`, two whole-row saves under way, text typed less than 300 ms before leaving,
  a fetch that overtakes a save.
* `ChartDrawing`: `mixedUp`, a stored chart run while another content is in the store, or overlapping runs.
* `DashboardPage`: `news`, an answer with another layout replaces the layout under edit; `mishap`, a click
  answered on another dashboard puts the layout of one canvas there (`"strayed"`), and a save without
  a notebook or a dashboard that was read does nothing (`"dropped"`). On a dashboard that has no layout,
  Cancel leaves the unsaved one on show: `resetFromBackendData` returns early, as
  `src/frontend/src/store/dashboardSlice.test.ts:54` asks of it. `RestingShowsStored` names that case.
* `SummaryPanel`: `missed`, and a request that ends while the first fetch is under way.

On the server, two overlapping questions exceed the message limit and share a `sequence_number`
(`LimitExceededByOverlapOnly` says by how much), and a claim refused may find a row that nobody generates:
between the UPDATE and the look-up a prompt may be saved.

## 4. Proofs

Every invariant, every action property and both refinements that a passing run checks are theorems
as well, for every value of the constants that satisfies the modules' assumptions. Each assumption
is named, stands in the module that declares the constants, and is evaluated by TLC in the runs:
`CompletionAssumption`, `AnswerViewAssumption`, `ConversationAssumption`, `PageAssumption`,
`NotebookAssumption`, `GridAssumption`, `SessionAssumption`, `ListAssumption`,
`NotebookRunsAssumption`, `RowEditingAssumption`, `ChartFormAssumption`, `ChartDrawingAssumption`,
`DashboardPageAssumption`, `DashboardTilesAssumption`, `SummaryPanelAssumption` and
`AiSummaryAssumption` say that bounds are numbers, that sets the code could enumerate are finite and
that a mark for "none" is none of the values; `NoLayoutIsNone` and `NoAnswerIsNoSnapshot` say the last
for values that are records. Two say more, and why is in the code: an analysis generates a query, and
what a client saved as a layout is one the service would accept.

### The server

| Theorem | Argument |
|---|---|
| `CompletionProofs!TypeCorrect` | `Typed` adds `Decided`, what is known of the route and the final event in each phase; without it the position in the script is not bounded. |
| `CompletionProofs!SavedWhole` | `Whole`: as long as the recorder has not failed and the row exists, stored rows and queued events together are what was offered (`NothingLost`); a recorder ends on an empty channel, after the senders are dropped (`EndsEmpty`); strands are over outside the join (`StrandsJoined`); the final event is the last one offered (`FinalIsLast`); a settled row ends with it (`SettledLast`). Proved under `StalledSpec`, so for `Spec` too, whose formula only adds a conjunct. |
| `CompletionProofs!StalledClientHoldsNobody` | for every analysis of at most `ChannelSize` - 11 events: the stream channel never holds more than was sent, which the position in the script bounds, so no send waits whoever reads. |
| `CompletionProofs!KeepsPromise` | the refinement of `Answer`. `Promised` adds to `Whole` that the verdict told is the row's (`TellsTheRow`). Storing a row is `Save`, because the row is in progress until the recorder has ended; `UpdateStatus` is `Settle`, because the last row stored is the final event; `TellFinal` announces; every other step is a stutter. |
| `ConversationProofs!TypeCorrect` | with `Fresh`: before the conversation is created nothing refers to it, so that its creation does not take rows away from a completion. |
| `ConversationProofs!SendersByNumber` | `Parity`: also the number each request has read has the right parity for what it is about to insert. |
| `ConversationProofs!NoGaps` | `Contiguity`: a number read by a request is that of a message as long as the conversation is active. |
| `ConversationProofs!LimitBound` | `Credit`: questions plus requests past the count never exceed the limit plus the number of requests, less one. Needs counting lemmas on finite sets. |
| `ConversationProofs!OneRequestTakesTurns` | the refinement of `TurnTaking`, when `Handlers` has one element. `Serial`: turns alternate, only the last answer may be in progress (`OneAnswer`), and what the one request read is still so when it writes, because nobody else inserts (`ReadsHold`); a completion that settles meanwhile changes the status of that answer only. That half of the messages are questions (`HalfQuestions`) carries the limit over. |
| `AiSummaryProofs!GenerationsExclude` | `Exclusion`: whoever generates does so under a row that says GENERATING with a fresh claim (`Claimed`), so that neither the UPDATE nor the INSERT can succeed for another. |
| `AiSummaryProofs!OutdatedByEdit` | `Recorded`: while a generation runs, what it snapshot is the row's prompt unless that was edited or the generation outlived the timeout (`SnapshotIsCurrent`). |
| `NotebookProofs!PlacesTheorem`, `RenumberTheorem`, `LimitTheorem`, `LayoutTheorem` | one invariant `Inv`: what a request remembers still fits the cells unless it is marked stale (`Fresh`), and undisturbed places do not exceed the number of cells (`PlacesAreLow`), so that the number of cells plus one is unused. `ReorderPlan` proves that shifting one element of a listing is a permutation, `OntoIffDistinct` counts. |
| `DashboardProofs!TidyTheorem` | `InFrontOf`: every chart of the draft is above the packer's row or to the left of its column, so that the next rectangle is free (`PlacedIsClear`). |

### The browser

| Theorem | Argument |
|---|---|
| `AnswerViewProofs!FinalEventIsTheTime` | `Known`: on top of `Promised`, the final event on the stream is the one the row was settled by (`Settled`), and a page that was told asked after that, so that whatever it reads is settled (`Found`). |
| `AnswerViewProofs!NothingIsMissed` | everything seen is shown by the rows, those stored and those on the way to the store (`Watched`: an event sent to the client is offered to the store in a later step of the same `send`, but for events that are never stored); and what a fetch brought of an answer that succeeded is the whole log (`Fetched`). With `SavedAnswerIsWhole` the two meet. Whether a chart is shown needs the query's row too, and here the analysis must have generated one (`ScriptGenerates`). |
| `ConversationPageProofs!OffersAreHonest`, `AnswersAreShownOnce`, `AnswersAreFinished`, `WaitsEnd` | one invariant `PageInv`. `Life` says what a conversation not yet there (`BeforeItIsThere`), or deleted, leaves possible, and that it is created once (`CreatedOnce`). As long as no news was missed (`Promises`): what the cache, a fetch or the answer of an append has of the conversation is an earlier state of the transcript (`Snapshots`); an answer in progress, or read as such and not asked for again, has an open stream (`PendingWatched`), and the server knows of the completion of an open stream (`TaskKnown`); what was read of the last turn is of the last turn unless it was overtaken (`CacheCovers`, `AppendCovers`, `QuestionsCurrent`), and a question under way is one the server takes, with no second beside it (`FollowUps`); and who waits has something under way (`LoadingAsked`, `Waiting`). `Snapshot` is a relation between sequences, with lemmas on appending to one and settling its last element. |
| `ConversationPageProofs!ChosenNamesStay` | an action property, one step at a time from the types: a suggestion that is not under way writes nothing, and a visit adds one to the bag only while `suggested` is false. |
| `PagesProofs!EveryWaitEnds` | no request waits when no refresh is under way: whichever ends it also empties the queue. |
| `PagesProofs!SignedOutIsOut` | `StaysOut`: signed out and with no refresh from before, whatever is asked for is asked for without a cookie, so that nothing the service answers can bring one. `RowsKnown`: rows have numbers from 1 up, which 0, no cookie, is none of. |
| `PagesProofs!DeletesWhatIsShown` | `SelectedShown`: as long as nothing slipped, the selection is part of what is shown whatever the pager, the search and the answers do. |
| `PagesProofs!MarkIsTakenOff` | `Marked`: each caller hears of one cell, and a mark has a caller for it, or was silenced by a step that took the caller away. |
| `PagesProofs!EditsStay` | `RowKept`: with no race so far there is one save at a time, it brings everything that was given but what is still to be saved (`SavesBringIt`), and between saves row, cache and page agree (`AtRest`, `EditorShowsIt`). |
| `PagesProofs!ReopensAsSaved` | `ReopenedIs`, from the types of form and content (`FormKept`): saving leaves out a series whose alias an earlier one has (`AliasedIs`), so the stored aliases are distinct, and saving what was reopened from them leaves out nothing (`AliasedAgain`). Every row has a colour because of one slot more than rows some are free and one is least (`NextColorIndexIs`, from `LeastNumber` on the order of the naturals). |
| `PagesProofs!DrawsItsOutput` | `OnlyDrawnRuns`: unless contents and runs were mixed, at most one run is under way and it is of the content that is drawn. |
| `DashboardProofs!SavesBelong` | `StoredHere`: what the cache has, what a fetch read and what a save carries of a canvas is a layout of that canvas, and one that was stored there. |
| `DashboardProofs!LayoutStays`, `RestShowsStored` | `LayoutOnShow`: the layout on show is of the canvas on show; it is the user's unless an answer brought another; and what was never stored is the user's, and is under edit, in a save that somebody hears of, or on a dashboard without a layout. |
| `DashboardProofs!BusyTilesAreHeardOf` | with `WhoWaits`: the hook of a tile waits for that tile only, so that a tile that is run again loses no one else's callback. |
| `DashboardProofs!TypedPromptStays` | with `NoOtherPrompt`: while the user is alone, every prompt on its way, in the service, in an answer or in a save, is the one the last answer showed (a request for another is not under way), so that no answer makes the dialog take its text again. |
| `DashboardProofs!QuietPanelFollows` | `PanelFollows`: unless something was missed, what a fetch has read is up to date but for what a request under way changed (`UpToDate`), so is what is shown if it is not to be read again, and while the page is open what is to be read again is being read. |
| `PagesProofs!PagesTypes`, `DashboardProofs!PartsTypes` | the types of the composed pages and parts: a step of the whole is a step of one page and a stutter of the others. The bounds in the types are what needs an argument: an answer has no more rows than a page, since their places on it are distinct numbers up to its size; a new series finds a slot of colour (`NextColorIndexIs`); the requests of one cell are among all requests (`Counted`), and the set of those is finite. |

Type invariants of the modules that are not in one of the two compositions are theorems
(`TypeCorrect`, or part of the invariants above) and are not checked by a run of their own. In the
runs `dashboard` and `pages` the type invariants carry bounds that a plausible bug breaks.

The history variables of an exemption are part of the theorems' statements, as they are of the
properties. They weaken the statement only in the cases section 3 names, and the runs
reach both sides of each.

Only model-checked: the liveness properties (`PipelineEnds`, `ReaderIsTold`, `BusyEndsWithoutFaults`,
`GeneratingEnds`, `RetryRecovers`), which are out of the prover's reach. They rest on the bounds of
section 3; the theorems on what each wait waits for (`EveryWaitEnds`, `WaitsEnd`, `MarkIsTakenOff`,
`BusyTilesAreHeardOf`) are the part of "it will happen" that is safety, and hold for every size. The
two violated properties are counterexamples and nothing about them is proved.

## 5. Abstractions

* Texts, prompts, SQL, model answers and results are choices among their possible effects.
* A transaction is one step. On SQLite, the default, there is one writer at a time; on Postgres under
  READ COMMITTED transactions could interleave further, which is not modelled.
* `Completion` has no restart and no panic; a restart is a step of `Conversation`, where it shows.
* In `Notebook`, the look-up of the notebook and the count of its cells are one step, names and
  contents are left out, and so is which chart draws which query: a plan removes any set of cells.
* Rows inserted after the deletion of their parent (a question, a summary, a cell) are in the models;
  properties that speak of reachable data ask that the parent exists.
* In the browser one user acts, on one conversation, list, notebook or dashboard, in one tab; other clients are single
  steps that change the server's rows. React's effects run with the step that causes them.
* React Query is modelled from its use: one fetch per key, an invalidation during a fetch starts it
  again unless it is the first, an answer of an older fetch is dropped only when it was cancelled.

## 6. Not modelled, and the plan

Not modelled: the pool registry, AI configuration, suggested questions, the history given to the model and the rounds of
SQL generation (planned below); the catalog, search, demo data, migrations and monitoring (no state
machine); settings and connection forms, search menu, home and the design system (one request and
its answer, or none); passwords, profiles and the first user; the contents of charts and of prompts.

Next, in this order:

1. `PoolRegistry`: `DbPoolRegistry` (`database/pool.rs:76-101`) with connection updates and deletions
   (`connection/service.rs:174-210`): two requests with older and newer credentials; which pool is kept.
   Theorem: a request never uses a pool of other credentials than it read.
2. `AiConfiguration`: row and slot under overlapping upsert and delete, and restart (the slot is
   loaded from the row). Property: they agree once nobody writes.
3. `SuggestedQuestions`: refresh at startup against the schedule; what a failure in the middle leaves.
4. `History`: pairing of messages as a recursive function over bounded histories, against a reference
   definition; a composition with `Conversation`, whose `SequenceHasNoGaps` it rests on.
5. `SqlGeneration`: rounds of generation and verification with their limits, refining one event of `Completion`.
6. A composition of `Completion`'s `CanvasGenerated` with `Notebook`'s plans (the canvas is kept when
   the answer fails), of `ConversationPage` with `Conversation` for two tabs, and of `SummaryPanel` with `AiSummary`.
7. `ai_summary` rows of single charts, linked to the cells a plan removes.

Theorems to come: the exclusion argument for the pool registry; that the canvas an answer created is
as its plan says when `Completion` and `Notebook` are composed. What a completion needs in order to end
is known as safety in parts (`StrandsJoined`, `EndsEmpty`); the liveness itself stays with TLC.
