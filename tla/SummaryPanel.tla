---------------------------- MODULE SummaryPanel ----------------------------
(***************************************************************************)
(* The summaries on a dashboard: the buttons that have them generated, and *)
(* the dialog for the prompt of one.                                       *)
(*                                                                         *)
(* All summaries of a dashboard come with one query, which is asked again  *)
(* every three seconds while the last answer has a summary that is being   *)
(* generated, and after every request of the user however it ended.  The   *)
(* texts, whether a generation succeeded, and the five minutes after which *)
(* the service lets another start are left out; AiSummary has them.        *)
(***************************************************************************)
EXTENDS Naturals, FiniteSets

CONSTANTS
  Summarized, SummaryCharts,     \* a dashboard and its charts, and the charts alone
  NotRead,                       \* no answer
  QueryIdle, QueryAsked,         \* no fetch, and one that has read nothing yet
  NoDialog,
  MaxPrompts,                    \* bound: prompts anybody writes
  MaxCalls                       \* bound: requests under way

ASSUME SummaryPanelAssumption ==
  SummaryCharts \subseteq Summarized /\ MaxPrompts \in Nat /\ MaxCalls \in Nat

VARIABLES
  open,          \* the dashboard is on show
  summaries,     \* the rows of the service: a status and a prompt, 0 for none
  answer,        \* the query's data
  asking,        \* its fetch: QueryIdle, QueryAsked, or what it read
  invalid,       \* the data was invalidated with nobody there to fetch it
  calls,         \* the requests that are not answered
  prompting,     \* the dialog that is open
  prompts,       \* how many prompts were written
  missed         \* history: the data may miss what nobody told this page, or a fetch failed
panelVars == <<open, summaries, answer, asking, invalid, calls, prompting, prompts, missed>>

Snapshots == [Summarized -> [status : {"none", "GENERATING", "done"}, prompt : 0 .. MaxPrompts]]

ASSUME NoAnswerIsNoSnapshot ==
  /\ NotRead \notin Snapshots /\ QueryIdle \notin Snapshots /\ QueryAsked \notin Snapshots
  /\ QueryIdle # QueryAsked

GeneratingIn(s) == {e \in Summarized : s # NotRead /\ s[e].status = "GENERATING"}
PromptIn(s, e) == IF s = NotRead THEN 0 ELSE s[e].prompt

\* isPending, of the hook whose requests are of this kind and for this chart or dashboard, or
\* for all charts.
Pending(k, es) == \E q \in calls : q.kind = k /\ q.of = es /\ q.heard

\* invalidateQueries, with somebody there: a fetch under way begins anew, but for the first.
Invalidated == IF answer = NotRead /\ asking # QueryIdle THEN asking ELSE QueryAsked

PanelInit ==
  /\ open = FALSE
  /\ summaries = [e \in Summarized |-> [status |-> "none", prompt |-> 0]]
  /\ answer = NotRead /\ asking = QueryIdle /\ invalid = FALSE
  /\ calls = {} /\ prompting = NoDialog /\ prompts = 0 /\ missed = FALSE

-----------------------------------------------------------------------------
(* The query.                                                              *)

\* What comes on show joins a fetch under way.  Data older than a minute is fetched again too.
ShowPanel ==
  /\ ~open /\ open' = TRUE
  /\ asking' \in CASE asking # QueryIdle -> {asking}
                  [] asking = QueryIdle /\ (answer = NotRead \/ invalid) -> {QueryAsked}
                  [] OTHER -> {asking, QueryAsked}
  /\ UNCHANGED <<summaries, answer, invalid, calls, prompting, prompts, missed>>

\* The requests go on; their hooks do not hear of them.
HidePanel ==
  /\ open /\ open' = FALSE
  /\ calls' = {[q EXCEPT !.heard = FALSE] : q \in calls}
  /\ prompting' = NoDialog
  /\ UNCHANGED <<summaries, answer, asking, invalid, prompts, missed>>

\* By the interval, or when the window has the focus again.
Poll ==
  /\ open /\ asking = QueryIdle /\ asking' = QueryAsked
  /\ UNCHANGED <<open, summaries, answer, invalid, calls, prompting, prompts, missed>>

SummariesRead ==
  /\ asking = QueryAsked /\ asking' = summaries /\ missed' = FALSE
  /\ UNCHANGED <<open, summaries, answer, invalid, calls, prompting, prompts>>

\* Mutant of SummariesArrive: the effect of the dialog runs on every answer.
SummariesArriveInDialog ==
  /\ asking \in Snapshots
  /\ answer' = asking /\ asking' = QueryIdle /\ invalid' = FALSE
  /\ prompting' = IF prompting = NoDialog THEN prompting
                  ELSE [prompting EXCEPT !.value = asking[prompting.of].prompt]
  /\ UNCHANGED <<open, summaries, calls, prompts, missed>>

\* A prompt that differs from the last answer's replaces what the dialog holds.
SummariesArrive ==
  /\ asking \in Snapshots
  /\ answer' = asking /\ asking' = QueryIdle /\ invalid' = FALSE
  /\ prompting' = IF \/ prompting = NoDialog
                     \/ asking[prompting.of].prompt = PromptIn(answer, prompting.of)
                  THEN prompting
                  ELSE [prompting EXCEPT !.value = asking[prompting.of].prompt]
  /\ UNCHANGED <<open, summaries, calls, prompts, missed>>

SummariesFail ==
  /\ asking # QueryIdle /\ asking' = QueryIdle /\ missed' = TRUE
  /\ UNCHANGED <<open, summaries, answer, invalid, calls, prompting, prompts>>

-----------------------------------------------------------------------------
(* Requests.                                                               *)

Call(k, es, p) ==
  LET q == [kind |-> k, of |-> es, prompt |-> p, taken |-> FALSE, heard |-> TRUE] IN
  /\ Cardinality(calls) < MaxCalls /\ q \notin calls
  /\ calls' = calls \cup {q}

\* SummarizeButton and the sparkles of a chart.
PressGenerate(e) ==
  /\ open /\ e \notin GeneratingIn(answer) /\ ~Pending("one", {e})
  /\ Call("one", {e}, 0)
  /\ UNCHANGED <<open, summaries, answer, asking, invalid, prompting, prompts, missed>>

\* SummarizeAllChartsButton.
PressGenerateAll ==
  /\ open /\ GeneratingIn(answer) \cap SummaryCharts = {} /\ ~Pending("all", SummaryCharts)
  /\ Call("all", SummaryCharts, 0)
  /\ UNCHANGED <<open, summaries, answer, asking, invalid, prompting, prompts, missed>>

\* The service takes a request: what is being generated already goes on, and is refused
\* with 409 or passed over.
ServiceTakes(q) ==
  /\ q \in calls /\ ~q.taken
  /\ calls' = (calls \ {q}) \cup {[q EXCEPT !.taken = TRUE]}
  /\ summaries' =
       [e \in Summarized |->
          CASE e \notin q.of -> summaries[e]
            [] e \in q.of /\ q.kind = "prompt" -> [summaries[e] EXCEPT !.prompt = q.prompt]
            [] e \in q.of /\ q.kind # "prompt" -> [summaries[e] EXCEPT !.status = "GENERATING"]]
  /\ UNCHANGED <<open, answer, asking, invalid, prompting, prompts, missed>>

GenerationDone(e) ==
  /\ summaries[e].status = "GENERATING"
  /\ summaries' = [summaries EXCEPT ![e].status = "done"]
  /\ UNCHANGED <<open, answer, asking, invalid, calls, prompting, prompts, missed>>

\* Mutant of CallEnds: a fetch that is under way will do.
CallEndsJoins(q) ==
  /\ q \in calls /\ calls' = calls \ {q}
  /\ asking' = IF open /\ asking = QueryIdle THEN QueryAsked ELSE asking
  /\ invalid' = (invalid \/ ~open)
  /\ missed' = (missed \/ (asking \in Snapshots /\ (~open \/ answer = NotRead)))
  /\ UNCHANGED <<open, summaries, answer, prompting, prompts>>

\* onSettled: answered, refused, failed or lost, a request has the data fetched again.  What
\* was read before the end stands, when it is the first answer or the panel is not on show.
CallEnds(q) ==
  /\ q \in calls /\ calls' = calls \ {q}
  /\ asking' = IF open THEN Invalidated ELSE asking
  /\ invalid' = (invalid \/ ~open)
  /\ missed' = (missed \/ (asking \in Snapshots /\ (~open \/ answer = NotRead)))
  /\ UNCHANGED <<open, summaries, answer, prompting, prompts>>

\* Another client has a summary generated, or writes a prompt.
GeneratedElsewhere(e) ==
  /\ summaries' = [summaries EXCEPT ![e].status = "GENERATING"] /\ missed' = TRUE
  /\ UNCHANGED <<open, answer, asking, invalid, calls, prompting, prompts>>

PromptElsewhere(e) ==
  /\ prompts < MaxPrompts /\ prompts' = prompts + 1
  /\ summaries' = [summaries EXCEPT ![e].prompt = prompts'] /\ missed' = TRUE
  /\ prompting' = IF prompting = NoDialog THEN prompting ELSE [prompting EXCEPT !.alone = FALSE]
  /\ UNCHANGED <<open, answer, asking, invalid, calls>>

-----------------------------------------------------------------------------
(* The dialog.  alone is history: at its opening the last answer had the   *)
(* prompt the service has, no other prompt was on its way, and no other    *)
(* client has written one since.                                           *)

OpenDialog(e) ==
  /\ open /\ prompting = NoDialog
  /\ prompting' = [of |-> e, value |-> PromptIn(answer, e), typed |-> 0,
                alone |-> /\ answer # NotRead /\ PromptIn(answer, e) = summaries[e].prompt
                          /\ asking \in Snapshots => PromptIn(asking, e) = summaries[e].prompt
                          /\ \A q \in calls : q.kind = "prompt" => e \notin q.of]
  /\ UNCHANGED <<open, summaries, answer, asking, invalid, calls, prompts, missed>>

TypePrompt ==
  /\ prompting # NoDialog /\ ~Pending("prompt", {prompting.of})
  /\ prompts < MaxPrompts /\ prompts' = prompts + 1
  /\ prompting' = [prompting EXCEPT !.value = prompts', !.typed = prompts']
  /\ UNCHANGED <<open, summaries, answer, asking, invalid, calls, missed>>

\* The dialog does not wait for the end of what it saves.
SaveDialog ==
  /\ prompting # NoDialog /\ ~Pending("prompt", {prompting.of})
  /\ Call("prompt", {prompting.of}, prompting.value)
  /\ prompting' = NoDialog
  /\ UNCHANGED <<open, summaries, answer, asking, invalid, prompts, missed>>

CancelDialog ==
  /\ prompting # NoDialog /\ prompting' = NoDialog
  /\ UNCHANGED <<open, summaries, answer, asking, invalid, calls, prompts, missed>>

-----------------------------------------------------------------------------
PanelNext ==
  \/ ShowPanel \/ HidePanel \/ Poll \/ SummariesRead \/ SummariesArrive \/ SummariesFail
  \/ PressGenerateAll \/ TypePrompt \/ SaveDialog \/ CancelDialog
  \/ \E e \in Summarized :
       \/ PressGenerate(e) \/ GenerationDone(e) \/ GeneratedElsewhere(e) \/ PromptElsewhere(e)
       \/ OpenDialog(e)
  \/ \E q \in calls : ServiceTakes(q) \/ CallEnds(q)

PanelSpec == PanelInit /\ [][PanelNext]_panelVars

-----------------------------------------------------------------------------
(* Properties.                                                             *)

PanelTypeOK ==
  /\ open \in BOOLEAN /\ invalid \in BOOLEAN /\ missed \in BOOLEAN
  /\ summaries \in Snapshots
  /\ answer \in Snapshots \cup {NotRead}
  /\ asking \in Snapshots \cup {QueryIdle, QueryAsked}
  /\ calls \subseteq [kind : {"one", "all", "prompt"}, of : SUBSET Summarized,
                      prompt : 0 .. MaxPrompts, taken : BOOLEAN, heard : BOOLEAN]
  /\ prompting \in [of : Summarized, value : 0 .. MaxPrompts, typed : 0 .. MaxPrompts,
                    alone : BOOLEAN] \cup {NoDialog}
  /\ prompts \in 0 .. MaxPrompts

\* Summaries that are shown with no fetch, request or poll to come are those the service has,
\* unless another client changed them or the last fetch failed, or a request ended while the
\* first answer or one for a closed panel was on its way: that answer is not asked for again,
\* and a generation the request began is neither shown nor polled.
QuietPanelIsCurrent ==
  open /\ answer # NotRead /\ asking = QueryIdle /\ calls = {} /\ GeneratingIn(answer) = {} =>
    answer = summaries \/ missed

\* A dialog opened on the prompt the service has, with no other on its way, keeps what is
\* typed into it however often the summaries are polled, unless another client writes a
\* prompt meanwhile: then the answer replaces the text.
TypedPromptIsKept ==
  prompting # NoDialog /\ prompting.typed # 0 /\ prompting.alone =>
    prompting.value = prompting.typed

=============================================================================
