----------------------------- MODULE Completion -----------------------------
(***************************************************************************)
(* One completion: what execute_completion spawns to answer a question.    *)
(*                                                                         *)
(* Four actors share one assistant message row.  The pipeline task walks   *)
(* through the stages of the answer and sends each event first to the      *)
(* stream channel and then to the store channel (EventChannels::send).     *)
(* While the answer is presented it runs two strands of its own,           *)
(* narration and visualization, joined on the same task.  The recorder     *)
(* (persist_events) inserts one content row per event it receives.  The    *)
(* reader is the HTTP client behind the event stream: it reads, stalls or  *)
(* goes away.  Anyone may delete the conversation meanwhile.               *)
(*                                                                         *)
(* The text of events, the prompts and the answers of the language model   *)
(* are left out; every place where a model call, a query or a database     *)
(* write can fail is a choice.                                             *)
(***************************************************************************)
EXTENDS Naturals, Sequences

CONSTANTS
  ChannelSize,  \* constants::CHANNEL_SIZE, the capacity of both channels
  Analysis      \* the events text_to_sql_agent::execute sends, in order

Decision == {"sql", "canvas", "clarify", "reject"}
Strand == {"narration", "visualization"}

\* Events the analysis of a question may send, each stored as well as streamed.
AnalysisEvent ==
  {"GeneratingCandidateHypothesis", "GeneratedCandidateHypothesis",
   "IntegratingCandidatePlans", "IntegratedCandidatePlans",
   "ExecutingSearchSpaceReduction", "ExecutedSearchSpaceReduction",
   "ExecutingFunctionalRoleAnalysis", "ExecutedFunctionalRoleAnalysis",
   "ExecutingDataProfiling", "ExecutedDataProfiling",
   "ExecutingSchemaLinkingSynthesis", "ExecutedSchemaLinkingSynthesis",
   "GeneratingSql", "GeneratedSql"}

\* Events sent with send_sse_only: streamed and never stored.
SseOnly == {"ExecutingQuery", "ExecutedQuery", "Narrating", "RecommendingVisualization"}

FinalEvent == {"Completed", "AwaitingClarification", "Rejected", "Error"}

Event ==
  AnalysisEvent \cup SseOnly \cup FinalEvent \cup
  {"Starting", "Routing", "Routed", "Narrated", "RecommendedVisualization",
   "SuggestedFollowups", "GeneratingCanvas", "CanvasGenerated"}

Status == {"PROCESSING", "PROCESSED", "AWAITING_CLARIFICATION", "REJECTED", "FAILED"}
Terminal == Status \ {"PROCESSING"}

ASSUME CompletionAssumption ==
  /\ ChannelSize \in Nat \ {0}
  /\ Analysis \in Seq(AnalysisEvent)

\* The status a final event stands for.
StatusOf(e) ==
  CASE e = "Completed" -> "PROCESSED"
    [] e = "AwaitingClarification" -> "AWAITING_CLARIFICATION"
    [] e = "Rejected" -> "REJECTED"
    [] OTHER -> "FAILED"

-----------------------------------------------------------------------------
VARIABLES
  route,     \* the router's decision, "undecided" until it is taken
  pos,       \* how many events of its script the pipeline has sent
  phase,     \* what the pipeline is doing
  strand,    \* what each presenting strand is doing
  final,     \* the final event the pipeline has decided on, or "none"
  sse,       \* the stream channel
  persist,   \* the store channel
  recorder,  \* the task that stores events
  reader,    \* the client behind the stream
  row,       \* status of the assistant message row, "DELETED" once removed
  log,       \* its content rows, in order of sequence_number
  emitted,   \* history: every event offered to the store channel
  received   \* the last event a client still there has read, or "none"

pipelineVars == <<route, pos, phase, final>>
rowVars == <<row, log>>
vars == <<pipelineVars, strand, sse, persist, recorder, reader, rowVars, emitted, received>>

Phase == {"work", "persist", "join", "joined", "offering",
          "closing", "joining", "updating", "telling", "done"}
StrandPhase == {"idle", "open", "work", "persist", "done", "failed"}

\* Mutant of Script: the analysis runs a second time when its query fails.
ScriptAnalysisTwice(r) ==
  <<"Starting", "Routing">> \o
  CASE r = "sql" -> <<"Routed">> \o Analysis \o Analysis \o <<"ExecutingQuery", "ExecutedQuery">>
    [] r = "canvas" -> <<"Routed", "GeneratingCanvas", "CanvasGenerated">>
    [] r \in {"clarify", "reject"} -> <<"Routed">>
    [] OTHER -> <<>>

\* run_pipeline's events up to the end, or up to the presentation of a query result.
Script(r) ==
  <<"Starting", "Routing">> \o
  CASE r = "sql" -> <<"Routed">> \o Analysis \o <<"ExecutingQuery", "ExecutedQuery">>
    [] r = "canvas" -> <<"Routed", "GeneratingCanvas", "CanvasGenerated">>
    [] r \in {"clarify", "reject"} -> <<"Routed">>
    [] OTHER -> <<>>

ScriptSent == pos = Len(Script(route))

\* The final event of a pipeline that did not fail (PipelineOutcome).
Outcome(r) ==
  CASE r = "clarify" -> "AwaitingClarification"
    [] r = "reject" -> "Rejected"
    [] OTHER -> "Completed"

\* The event each strand starts with and the one that carries its result.
Opening(s) == IF s = "narration" THEN "Narrating" ELSE "RecommendingVisualization"
Result(s) == IF s = "narration" THEN "Narrated" ELSE "RecommendedVisualization"

\* Sending any of these is followed by work that can fail: a model call, a query, a plan.
FallibleAfter ==
  {"GeneratingCandidateHypothesis", "IntegratingCandidatePlans",
   "IntegratedCandidatePlans", "ExecutingSearchSpaceReduction",
   "ExecutingFunctionalRoleAnalysis", "ExecutingDataProfiling",
   "ExecutingSchemaLinkingSynthesis", "GeneratingSql", "ExecutingQuery", "GeneratingCanvas"}

\* While these are sent the data catalog is read concurrently, and its failure
\* cancels the sending branch wherever it is (tokio::try_join!).
Cancellable ==
  {"GeneratingCandidateHypothesis", "GeneratedCandidateHypothesis",
   "IntegratingCandidatePlans", "IntegratedCandidatePlans"}

Init ==
  /\ route = "undecided" /\ pos = 0 /\ phase = "work" /\ final = "none"
  /\ strand = [s \in Strand |-> "idle"]
  /\ sse = <<>> /\ persist = <<>>
  /\ recorder = "running" /\ reader = "reading"
  /\ row = "PROCESSING" /\ log = <<>>
  /\ emitted = <<>> /\ received = "none"

-----------------------------------------------------------------------------
(* The two channels.                                                       *)

\* sse_tx.send(e): waits for room, and succeeds at once when the client is gone
\* (the error is only logged).
Stream(e) ==
  \/ reader = "gone" /\ UNCHANGED sse
  \/ reader = "reading" /\ Len(sse) < ChannelSize /\ sse' = Append(sse, e)

\* persist_tx.send(e) is refused once the recorder has dropped the receiver.
Refused(e) ==
  /\ recorder = "failed"
  /\ emitted' = Append(emitted, e)
  /\ UNCHANGED persist

Accepted(e) ==
  /\ recorder = "running" /\ Len(persist) < ChannelSize
  /\ persist' = Append(persist, e)
  /\ emitted' = Append(emitted, e)

-----------------------------------------------------------------------------
(* The pipeline task.                                                      *)

\* The pipeline ends with event e.
Conclude(e) == phase' = "closing" /\ final' = e

\* The first half of EventChannels::send, and all of send_sse_only.
SendNext ==
  /\ phase = "work" /\ pos < Len(Script(route))
  /\ LET e == Script(route)[pos + 1] IN
       /\ Stream(e)
       /\ phase' = IF e \in SseOnly THEN "work" ELSE "persist"
  /\ pos' = pos + 1
  /\ UNCHANGED <<route, final, strand, persist, recorder, reader, rowVars, emitted, received>>

\* The second half: a refused event ends the pipeline with an error.
StoreNext ==
  /\ phase = "persist"
  /\ LET e == Script(route)[pos] IN
       \/ Accepted(e) /\ phase' = "work" /\ UNCHANGED final
       \/ Refused(e) /\ Conclude("Error")
  /\ UNCHANGED <<route, pos, strand, sse, recorder, reader, rowVars, received>>

\* The router agent, or resolve_command_decision when the question carries a command.
Decide(d) ==
  /\ phase = "work" /\ route = "undecided" /\ ScriptSent
  /\ route' = d
  /\ UNCHANGED <<pos, phase, final, strand, sse, persist, recorder, reader, rowVars,
                 emitted, received>>

\* A step of the pipeline fails: the history cannot be loaded (pos = 0), the router agent,
\* a later model call or a query fails, or the concurrent reading of the catalog does.
Fail ==
  /\ \/ phase = "work" /\ pos = 0
     \/ phase = "work" /\ ScriptSent /\ route = "undecided"
     \/ phase = "work" /\ pos > 0 /\ Script(route)[pos] \in FallibleAfter
     \/ phase = "work" /\ ~ScriptSent /\ Script(route)[pos + 1] \in Cancellable
     \/ phase = "persist" /\ Script(route)[pos] \in Cancellable
  /\ Conclude("Error")
  /\ UNCHANGED <<route, pos, strand, sse, persist, recorder, reader, rowVars, emitted,
                 received>>

\* Canvas, clarification and rejection end here; a query result is presented first.
Finish ==
  /\ phase = "work" /\ ScriptSent /\ route \in {"canvas", "clarify", "reject"}
  /\ Conclude(Outcome(route))
  /\ UNCHANGED <<route, pos, strand, sse, persist, recorder, reader, rowVars, emitted,
                 received>>

Present ==
  /\ phase = "work" /\ ScriptSent /\ route = "sql"
  /\ phase' = "join"
  /\ strand' = [s \in Strand |-> "open"]
  /\ UNCHANGED <<route, pos, final, sse, persist, recorder, reader, rowVars, emitted,
                 received>>

\* tokio::join! waits for both strands; only the visualization's error counts.
Join ==
  /\ phase = "join"
  /\ \A s \in Strand : strand[s] \in {"done", "failed"}
  /\ IF strand["visualization"] = "failed"
     THEN Conclude("Error")
     ELSE phase' = "joined" /\ UNCHANGED final
  /\ UNCHANGED <<route, pos, strand, sse, persist, recorder, reader, rowVars, emitted,
                 received>>

\* The follow-up questions agent may come back with nothing.
NoFollowups ==
  /\ phase = "joined"
  /\ Conclude(Outcome(route))
  /\ UNCHANGED <<route, pos, strand, sse, persist, recorder, reader, rowVars, emitted,
                 received>>

SendFollowups ==
  /\ phase = "joined"
  /\ Stream("SuggestedFollowups")
  /\ phase' = "offering"
  /\ UNCHANGED <<route, pos, final, strand, persist, recorder, reader, rowVars, emitted,
                 received>>

\* The result of sending the follow-ups is dropped (let _ =).
StoreFollowups ==
  /\ phase = "offering"
  /\ Accepted("SuggestedFollowups") \/ Refused("SuggestedFollowups")
  /\ Conclude(Outcome(route))
  /\ UNCHANGED <<route, pos, strand, sse, recorder, reader, rowVars, received>>

-----------------------------------------------------------------------------
(* The presenting strands: result_narration_agent and visualization_agent. *)

StrandOpen(s) ==
  /\ strand[s] = "open"
  /\ Stream(Opening(s))
  /\ strand' = [strand EXCEPT ![s] = "work"]
  /\ UNCHANGED <<pipelineVars, persist, recorder, reader, rowVars, emitted, received>>

StrandSend(s) ==
  /\ strand[s] = "work"
  /\ Stream(Result(s))
  /\ strand' = [strand EXCEPT ![s] = "persist"]
  /\ UNCHANGED <<pipelineVars, persist, recorder, reader, rowVars, emitted, received>>

\* The model call failed or, for the narration, came back empty: the narration
\* swallows it, the visualization reports it.
StrandGivesUp(s) ==
  /\ strand[s] = "work"
  /\ strand' = [strand EXCEPT ![s] = IF s = "narration" THEN "done" ELSE "failed"]
  /\ UNCHANGED <<pipelineVars, sse, persist, recorder, reader, rowVars, emitted, received>>

StrandStore(s) ==
  /\ strand[s] = "persist"
  /\ \/ Accepted(Result(s)) /\ strand' = [strand EXCEPT ![s] = "done"]
     \/ /\ Refused(Result(s))
        /\ strand' = [strand EXCEPT ![s] = IF s = "narration" THEN "done" ELSE "failed"]
  /\ UNCHANGED <<pipelineVars, sse, recorder, reader, rowVars, received>>

-----------------------------------------------------------------------------
(* complete_assistant_message and persist_final_event.                     *)

\* Queue the final event for storing and drop persist_tx, whatever the outcome.
QueueFinal ==
  /\ phase = "closing"
  /\ Accepted(final) \/ Refused(final)
  /\ phase' = "joining"
  /\ UNCHANGED <<route, pos, final, strand, sse, recorder, reader, rowVars, received>>

\* Mutant of JoinRecorder: the outcome of the recorder is dropped.
JoinRecorderIgnoringIt ==
  /\ phase = "joining"
  /\ recorder \in {"ended", "failed"}
  /\ phase' = "updating"
  /\ UNCHANGED <<route, pos, final, strand, sse, persist, recorder, reader, rowVars, emitted,
                 received>>

\* Wait for the recorder: an answer that was not stored whole becomes an error.
JoinRecorder ==
  /\ phase = "joining"
  /\ recorder \in {"ended", "failed"}
  /\ phase' = "updating"
  /\ final' = IF recorder = "failed" THEN "Error" ELSE final
  /\ UNCHANGED <<route, pos, strand, sse, persist, recorder, reader, rowVars, emitted,
                 received>>

\* Mutant of UpdateStatus: a failed write is only logged.
UpdateStatusOnlyLogged ==
  /\ phase = "updating"
  /\ phase' = "telling"
  /\ (row # "DELETED" /\ row' = StatusOf(final)) \/ UNCHANGED row
  /\ UNCHANGED <<route, pos, final, strand, sse, persist, recorder, reader, log, emitted, received>>

\* update_message_status: the row may be gone, the write may fail.
UpdateStatus ==
  /\ phase = "updating"
  /\ phase' = "telling"
  /\ \/ /\ row # "DELETED"
        /\ row' = StatusOf(final)
        /\ UNCHANGED final
     \/ /\ final' = "Error"
        /\ UNCHANGED row
  /\ UNCHANGED <<route, pos, strand, sse, persist, recorder, reader, log, emitted, received>>

\* Mutant of TellFinal: try_send, which gives up when the channel is full.
TellFinalIfRoom ==
  /\ phase = "telling"
  /\ Stream(final) \/ (Len(sse) = ChannelSize /\ UNCHANGED sse)
  /\ phase' = "done"
  /\ UNCHANGED <<route, pos, final, strand, persist, recorder, reader, rowVars, emitted,
                 received>>

\* The last event of the stream; dropping sse_tx ends it.
TellFinal ==
  /\ phase = "telling"
  /\ Stream(final)
  /\ phase' = "done"
  /\ UNCHANGED <<route, pos, final, strand, persist, recorder, reader, rowVars, emitted,
                 received>>

-----------------------------------------------------------------------------
(* persist_events.                                                         *)

\* Receive an event and insert its content row.  Nothing ties a content row to its message:
\* after the message is deleted the insert still succeeds and leaves a row nobody can reach.
Record ==
  /\ recorder = "running" /\ persist # <<>>
  /\ persist' = Tail(persist)
  /\ log' = IF row = "DELETED" THEN log ELSE Append(log, Head(persist))
  /\ UNCHANGED <<pipelineVars, strand, sse, recorder, reader, row, emitted, received>>

\* The insert fails: the task ends and drops the receiver with all it holds.
RecordFails ==
  /\ recorder = "running" /\ persist # <<>>
  /\ recorder' = "failed"
  /\ persist' = <<>>
  /\ UNCHANGED <<pipelineVars, strand, sse, reader, rowVars, emitted, received>>

\* Mutant of RecorderEnds: persist_tx is dropped only with the pipeline's task.
RecorderEndsWithTask ==
  /\ recorder = "running" /\ persist = <<>> /\ phase = "done"
  /\ recorder' = "ended"
  /\ UNCHANGED <<pipelineVars, strand, sse, persist, reader, rowVars, emitted, received>>

\* recv() returns None: the sender is dropped and the channel drained.
RecorderEnds ==
  /\ recorder = "running" /\ persist = <<>> /\ phase = "joining"
  /\ recorder' = "ended"
  /\ UNCHANGED <<pipelineVars, strand, sse, persist, reader, rowVars, emitted, received>>

-----------------------------------------------------------------------------
(* The client, and the rest of the backend.                                *)

Read ==
  /\ reader = "reading" /\ sse # <<>>
  /\ received' = Head(sse)
  /\ sse' = Tail(sse)
  /\ UNCHANGED <<pipelineVars, strand, persist, recorder, reader, rowVars, emitted>>

Leave ==
  /\ reader = "reading"
  /\ reader' = "gone"
  /\ sse' = <<>>
  /\ received' = "none"
  /\ UNCHANGED <<pipelineVars, strand, persist, recorder, rowVars, emitted>>

\* The transaction of delete_conversation removes the contents and the message.
Delete ==
  /\ row # "DELETED"
  /\ row' = "DELETED"
  /\ log' = <<>>
  /\ UNCHANGED <<pipelineVars, strand, sse, persist, recorder, reader, emitted, received>>

\* Everything has ended; what remains is nobody waiting for anybody.
Quiescent ==
  /\ phase = "done" /\ sse = <<>>
  /\ UNCHANGED vars

-----------------------------------------------------------------------------
Pipeline ==
  \/ SendNext \/ StoreNext \/ Fail \/ Finish \/ Present \/ Join
  \/ NoFollowups \/ SendFollowups \/ StoreFollowups
  \/ QueueFinal \/ JoinRecorder \/ UpdateStatus \/ TellFinal
  \/ \E d \in Decision : Decide(d)

Presenting(s) == StrandOpen(s) \/ StrandSend(s) \/ StrandGivesUp(s) \/ StrandStore(s)

Recorder == Record \/ RecordFails \/ RecorderEnds

Reader == Read \/ Leave

Next == Pipeline \/ (\E s \in Strand : Presenting(s)) \/ Recorder \/ Reader \/ Delete \/ Quiescent

\* Tokio polls every task that can move; model calls and database writes return; a client
\* with something to read reads it, unless its connection is closed.  Nobody has to leave.
Fairness ==
  /\ WF_vars(Pipeline)
  /\ \A s \in Strand : WF_vars(Presenting(s))
  /\ WF_vars(Recorder)
  /\ WF_vars(Read)

Spec == Init /\ [][Next]_vars /\ Fairness

\* The same without any promise about the client: it may stop reading and never leave.
StalledSpec ==
  /\ Init /\ [][Next]_vars
  /\ WF_vars(Pipeline)
  /\ \A s \in Strand : WF_vars(Presenting(s))
  /\ WF_vars(Recorder)

-----------------------------------------------------------------------------
(* Properties.                                                             *)

TypeOK ==
  /\ route \in Decision \cup {"undecided"}
  /\ pos \in 0 .. Len(Script(route))
  /\ phase \in Phase
  /\ strand \in [Strand -> StrandPhase]
  /\ final \in FinalEvent \cup {"none"}
  /\ sse \in Seq(Event) /\ Len(sse) <= ChannelSize
  /\ persist \in Seq(Event) /\ Len(persist) <= ChannelSize
  /\ recorder \in {"running", "ended", "failed"}
  /\ reader \in {"reading", "gone"}
  /\ row \in Status \cup {"DELETED"}
  /\ log \in Seq(Event)
  /\ emitted \in Seq(Event)
  /\ received \in Event \cup {"none"}

\* An answer whose row says it was processed, needs clarification or was rejected is stored
\* whole: every event the pipeline offered is a content row, in the order offered, and the
\* last one is the final event of that status.  This is what lets result_narration_agent and
\* the follow-up questions drop the error of their sends.
SavedAnswerIsWhole ==
  row \in Terminal \ {"FAILED"} =>
    /\ log = emitted
    /\ log # <<>>
    /\ StatusOf(log[Len(log)]) = row

\* With the capacity the code gives the channels, the stream channel never fills up: a client
\* that stops reading never holds up the pipeline, the recorder or the status of the message.
NeverHeldUp ==
  reader = "reading" /\ phase # "done" => Len(sse) < ChannelSize

\* Every completion comes to an end: no actor waits for another for ever, whichever of them
\* fails and however small the channels are.
PipelineEnds == <>(phase = "done")

\* A client that stays reads a final event (and the stream does not just stop).
ReaderIsTold ==
  <>(reader = "gone" \/ received \in FinalEvent)

\* What the rest of the system may rely on (module Answer): no row is added to a message once
\* it is settled, its status is set once and fits the last row, and the client is told one
\* verdict, which agrees with the stored status unless the message was deleted.
Promise == INSTANCE Answer WITH
  status <- row, saved <- log, verdict <- IF phase = "done" THEN final ELSE "none"
ImplementsAnswer == Promise!Spec
=============================================================================
