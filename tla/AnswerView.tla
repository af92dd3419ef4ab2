----------------------------- MODULE AnswerView -----------------------------
(***************************************************************************)
(* The page that shows an answer, composed with the completion behind it.  *)
(*                                                                         *)
(* While the completion runs, the page shows the events it has read from   *)
(* the stream (StreamingAgentTrace).  When a final event arrives it drops  *)
(* them and asks for the conversation again; from then on it shows the     *)
(* content rows of the message (AgentTrace).  The two views are different  *)
(* code over different events: some events are streamed and never stored.  *)
(* The request is answered by two queries, first the messages with their   *)
(* statuses and then their contents, between which the completion goes on. *)
(*                                                                         *)
(* What an event says is left out; a view is the set of things it shows.   *)
(***************************************************************************)
EXTENDS Completion

\* text_to_sql_agent::execute sends GeneratedSql before it returns a query.
ASSUME AnswerViewAssumption == \E i \in DOMAIN Analysis : Analysis[i] = "GeneratedSql"

VARIABLES
  shown,    \* the events of the stream entry the page holds, <<>> when it holds none
  told,     \* the final event it has read, "none" before
  request,  \* the request for the conversation: "none", or a record of its answer so far
  cached,   \* the message in the query cache: its status and content rows
  artifacts,\* the canvases the artifacts panel has collected
  seen      \* history: everything the streaming view ever showed

pageVars == <<shown, told, request, cached, artifacts, seen>>
viewVars == <<vars, pageVars>>

-----------------------------------------------------------------------------
(* What the two views make of events.                                      *)

\* IN_PROGRESS_EVENTS
InProgressEvent ==
  {"Routing", "GeneratingCandidateHypothesis", "IntegratingCandidatePlans",
   "ExecutingSearchSpaceReduction", "ExecutingFunctionalRoleAnalysis", "ExecutingDataProfiling",
   "ExecutingSchemaLinkingSynthesis", "GeneratingSql", "ExecutingQuery",
   "RecommendingVisualization", "Narrating", "GeneratingCanvas"}

\* TRACE_HIDDEN_EVENTS
HiddenEvent ==
  {"Starting", "Routing", "Routed", "Completed", "AwaitingClarification", "Rejected",
   "ExecutedQuery", "RecommendedVisualization", "Narrated", "SuggestedFollowups",
   "CanvasGenerated"}

\* STEP_LABELS: the events a step has a label of its own for.
Labelled == (Event \ {"Starting", "Completed", "AwaitingClarification", "Rejected", "Narrated",
                      "SuggestedFollowups", "CanvasGenerated"})

\* renderStepContent: the steps that can be opened to show more.
Detailed ==
  {"GeneratedCandidateHypothesis", "IntegratedCandidatePlans", "ExecutedSearchSpaceReduction",
   "ExecutedFunctionalRoleAnalysis", "ExecutedDataProfiling", "ExecutedSchemaLinkingSynthesis",
   "GeneratedSql", "Error"}

\* The views look events up by name, wherever they are in the trace.
Happened(trace) == {trace[i] : i \in DOMAIN trace}

\* TraceStep of the events that have happened, and what opens under them.
Steps(events) ==
  LET listed == events \ (HiddenEvent \cup InProgressEvent) IN
    ({"step"} \X listed) \cup ({"detail"} \X (listed \cap Detailed))

\* The step with a spinner: the last event that is not hidden, when it is one in progress.
ActiveStep(trace) ==
  {trace[i] : i \in {k \in DOMAIN trace :
     /\ trace[k] \in InProgressEvent \ HiddenEvent
     /\ \A j \in DOMAIN trace : j > k => trace[j] \in HiddenEvent}}

\* RouterDecisionBubble: what the router answers instead of running a query.
Bubble(events) ==
  IF "Routed" \in events /\ route \in {"clarify", "reject"} THEN {<<"bubble", route>>} ELSE {}

NarrationOf(events) == IF "Narrated" \in events THEN {<<"result", "narration">>} ELSE {}
CanvasOf(events) == IF "CanvasGenerated" \in events THEN {<<"result", "canvas">>} ELSE {}

\* extractChartData: the streaming view draws the rows of ExecutedQuery.
StreamedChart(events) ==
  IF "ExecutedQuery" \in events /\ "RecommendedVisualization" \in events
  THEN {<<"result", "chart">>} ELSE {}

\* Mutant of StoredChart: the stored view looks for the rows, which are never stored.
StoredChartOfRows(events) == StreamedChart(events)

\* The stored view runs the generated query again.
StoredChart(events) ==
  IF "GeneratedSql" \in events /\ "RecommendedVisualization" \in events
  THEN {<<"result", "chart">>} ELSE {}

\* StreamingAgentTrace
StreamingView(trace) == LET events == Happened(trace) IN
  Steps(events) \cup Bubble(events) \cup NarrationOf(events) \cup StreamedChart(events)
    \cup CanvasOf(events)

\* AgentTrace: content rows in progress are left out first.
StoredView(contents) ==
  LET events == Happened(contents) \ InProgressEvent IN
    Steps(events) \cup Bubble(events) \cup NarrationOf(events) \cup StoredChart(events)
      \cup CanvasOf(events)

\* useConversationArtifacts: canvases of stored and streamed events, kept once seen.
Collected(events, contents) == artifacts \cup CanvasOf(Happened(events)) \cup CanvasOf(Happened(contents))

-----------------------------------------------------------------------------
(* The page.                                                               *)

NoMessage == [status |-> "none", contents |-> <<>>]
NoRequest == [stage |-> "none"]
Asked == [stage |-> "asked"]

ViewInit ==
  /\ Init
  /\ shown = <<>> /\ told = "none"
  /\ request = NoRequest /\ cached = NoMessage
  /\ artifacts = {} /\ seen = {}

\* An event of the stream arrives and is added to the entry.
ShowEvent ==
  /\ told = "none"
  /\ Read
  /\ received' \notin FinalEvent
  /\ shown' = Append(shown, received')
  /\ seen' = seen \cup StreamingView(shown')
  /\ artifacts' = Collected(shown', cached.contents)
  /\ UNCHANGED <<told, request, cached>>

\* Mutant of ShowFinal: the conversation is not asked for again.
ShowFinalKeepsCache ==
  /\ told = "none"
  /\ Read
  /\ received' \in FinalEvent
  /\ told' = received' /\ shown' = <<>>
  /\ UNCHANGED <<request, cached, artifacts, seen>>

\* A final event ends the stream entry and invalidates the conversation; a request already
\* under way is cancelled and made again.
ShowFinal ==
  /\ told = "none"
  /\ Read
  /\ received' \in FinalEvent
  /\ told' = received' /\ shown' = <<>>
  /\ request' = Asked
  /\ UNCHANGED <<cached, artifacts, seen>>

\* The connection is lost: the entry is dropped and nothing is asked for.
LoseStream ==
  /\ told = "none"
  /\ Leave
  /\ shown' = <<>>
  /\ UNCHANGED <<told, request, cached, artifacts, seen>>

\* The window gets the focus, or the page is opened again, and the cache is stale.
Refetch ==
  /\ request.stage \in {"none", "failed"}
  /\ request' = Asked
  /\ UNCHANGED <<vars, shown, told, cached, artifacts, seen>>

\* get_conversation, first query: the messages; a deleted conversation is not found.
FetchMessages ==
  /\ request = Asked
  /\ request' = IF row = "DELETED" THEN [stage |-> "answered", status |-> "none", contents |-> <<>>]
                ELSE [stage |-> "messages", status |-> row]
  /\ UNCHANGED <<vars, shown, told, cached, artifacts, seen>>

\* Second query: the content rows as they are now.
FetchContents ==
  /\ request.stage = "messages"
  /\ request' = [stage |-> "answered", status |-> request.status, contents |-> log]
  /\ UNCHANGED <<vars, shown, told, cached, artifacts, seen>>

FetchAnswered ==
  /\ request.stage = "answered"
  /\ cached' = [status |-> request.status, contents |-> request.contents]
  /\ request' = NoRequest
  /\ artifacts' = Collected(shown, request.contents)
  /\ UNCHANGED <<vars, shown, told, seen>>

\* The request fails (or its retries do): the cache keeps what it has.
FetchFails ==
  /\ request.stage \notin {"none", "failed"}
  /\ request' = [stage |-> "failed"]
  /\ UNCHANGED <<vars, shown, told, cached, artifacts, seen>>

\* The completion goes on by itself.
Behind ==
  /\ Pipeline \/ (\E s \in Strand : Presenting(s)) \/ Recorder \/ Delete
  /\ UNCHANGED pageVars

ViewNext ==
  \/ ShowEvent \/ ShowFinal \/ LoseStream
  \/ Refetch \/ FetchMessages \/ FetchContents \/ FetchAnswered \/ FetchFails
  \/ Behind

ViewSpec == ViewInit /\ [][ViewNext]_viewVars

-----------------------------------------------------------------------------
(* Properties.                                                             *)

\* Nothing the user has watched appear is missing once the answer is shown from the database:
\* a step, the narration, the place of the chart or the canvas.  Some events are streamed and
\* never stored, the stored view is other code, and the status and the rows are read apart; an
\* answer whose status says that it succeeded shows all the same.
NothingVanishes ==
  cached.status \in Terminal \ {"FAILED"} /\ row # "DELETED" => seen \subseteq StoredView(cached.contents)

\* A final event other than an error is the time to look: the request it causes finds the
\* message settled with the status of that event, never still in progress (or finds no
\* conversation, when it was deleted).
FinalEventFindsAnswer ==
  told \in FinalEvent \ {"Error"} /\ request = NoRequest =>
    cached.status \in {StatusOf(told), "none"} /\ (cached.status = "none" => row = "DELETED")

=============================================================================
