-------------------------- MODULE ConversationPage --------------------------
(***************************************************************************)
(* The pages of the analytics section, for one conversation: the panel     *)
(* that starts it, the panel that shows it, its composer, its rename and   *)
(* delete dialogs, the store of event streams, and the query cache.        *)
(*                                                                         *)
(* The server is the one of module TurnTaking plus the conversation's      *)
(* name, used by this one client.  Every request has a step at the server  *)
(* and a step at which its answer arrives, and answers arrive in any       *)
(* order.  Cached data is old after a minute, so a focused window may ask  *)
(* for it again at any time.                                               *)
(*                                                                         *)
(* The text of messages, the events of a stream (module AnswerView) and    *)
(* the list of conversations (module ListPage) are left out.               *)
(***************************************************************************)
EXTENDS Naturals, Sequences, FiniteSets, Bags

CONSTANTS
  Requests,      \* bound: the questions that are under way at a time
  MaxQuestions,  \* MAX_USER_MESSAGES_PER_CONVERSATION
  MaxFaults,     \* bound: lost connections, failed requests, reloads and departures in between
  MaxLate        \* bound: suggestions of a name still under way when the section is left

ASSUME PageAssumption == MaxQuestions \in Nat \ {0} /\ MaxFaults \in Nat /\ MaxLate \in Nat

VARIABLES
  row,         \* server: the conversation is "none" yet, "there" or "deleted"
  transcript,  \* server: "question", "pending" or "answer", one per message
  task,        \* server: the completion: "none", "working", "told" once its final event is sent
  name,        \* server: whose name the conversation has: "given" by default or by the model, or
               \* "chosen" by the user
  ai,          \* status of the AI provider, "live" when it is ready
  place,       \* what the user looks at: "new", "chat", or "elsewhere" in the section
  cached,      \* the detail query: what it holds, whether it succeeded last, whether it is invalid
  fetch,       \* its request: "idle", "asked", "served" with a snapshot, or "missing"
  ask,         \* createConversation and appendUserMessage: each is "idle", "sent", "stored" or
               \* "refused", and by the panel that is "shown", one since "left", or a page "gone"
  stream,      \* the conversation's entry: "none", "opening" before the server answers, "open"
  draft,       \* the composer: "empty" or "filled"
  suggested,   \* nameSuggested: whether this visit has asked for a name
  naming,      \* the bag of suggestName requests: what each has read, and whether it is heard
  edit,        \* the dialogs' request: "none", "renaming", "deleting", "deleted"; "lostRename" and
               \* "lostDelete" when the page was loaded again meanwhile
  faults,      \* how many faults have happened
  overtaken,   \* history: the last answer to reach the cache was older than what it replaced, or
               \* one took the mark off data that had been made invalid
  missed       \* history: news was lost by a fault, a request was under way when a stream ended
               \* unseen, or a question was sent when an older answer had overtaken or while that
               \* of a panel since left was under way

serverVars == <<row, transcript, task, name, ai>>
cacheVars == <<cached, overtaken>>
nameVars == <<suggested, naming>>
vars == <<row, transcript, task, name, ai, place, cached, fetch, ask, stream, draft, suggested,
          naming, edit, faults, overtaken, missed>>

EndsWith(t, kinds) == t # <<>> /\ t[Len(t)] \in kinds
Questions(t) == Cardinality({i \in DOMAIN t : t[i] = "question"})

Nothing == [known |-> FALSE, transcript |-> <<>>, ok |-> FALSE, invalid |-> FALSE]
Fresh(t) == [known |-> TRUE, transcript |-> t, ok |-> TRUE, invalid |-> FALSE]
Idle == [stage |-> "idle"]
Asked == [stage |-> "asked"]
NoAsk == [stage |-> "idle", to |-> "new", by |-> "gone", transcript |-> <<>>]

\* The questions that are on their way to the conversation, or taken and not answered.
Appending(r) == ask[r].stage \in {"sent", "stored"} /\ ask[r].to = "chat"

\* A snapshot taken before another: messages are added and pending answers settled.
Older(t, u) == Len(t) < Len(u) \/ (Len(t) = Len(u) /\ t # u /\ EndsWith(t, {"pending"}))

\* should_execute_completion of a query that has succeeded.
ShouldRun(c) == c.known /\ c.ok /\ EndsWith(c.transcript, {"question"})

-----------------------------------------------------------------------------
(* What the page shows.                                                    *)

\* useCanSendFollowUp
Gate ==
  CASE ~cached.known -> "loading"
    [] cached.known /\ Questions(cached.transcript) >= MaxQuestions -> "conversation_full"
    [] cached.known /\ Questions(cached.transcript) < MaxQuestions /\ ai # "live" -> "ai_not_ready"
    [] OTHER -> IF stream # "none" THEN "streaming"
                ELSE IF EndsWith(cached.transcript, {"question"}) THEN "awaiting_response" ELSE "open"

\* isPending of the panel on show: a request it has sent itself is not answered.
IsPending == \E r \in Requests : ask[r].stage # "idle" /\ ask[r].by = "shown"

\* Mutant of ComposerEnabled: the reason "streaming" is forgotten.
ComposerEnabledStreaming ==
  CASE place = "new" -> ai = "live" /\ ~IsPending
    [] place = "chat" -> Gate \in {"open", "streaming"} /\ ~IsPending
    [] OTHER -> FALSE

\* Whether the panel on show lets the composer send.
ComposerEnabled ==
  CASE place = "new" -> ai = "live" /\ ~IsPending
    [] place = "chat" -> Gate = "open" /\ ~IsPending
    [] OTHER -> FALSE

\* Mutant of MessagesToRender: the last message is shown beside its own stream.
MessagesToRenderAll == cached.transcript

\* The messages above the stream: the last one is left out when it is the assistant's.
MessagesToRender ==
  IF stream # "none" /\ EndsWith(cached.transcript, {"pending", "answer"})
  THEN SubSeq(cached.transcript, 1, Len(cached.transcript) - 1)
  ELSE cached.transcript

\* SuggestedQuestionList is on show: the last message is an answer and may carry questions.
FollowUpsShown ==
  place = "chat" /\ Gate = "open" /\ EndsWith(cached.transcript, {"answer"})

-----------------------------------------------------------------------------
Init ==
  /\ \/ row = "none" /\ transcript = <<>>
     \/ row = "there" /\ transcript = <<"question", "answer">>
  /\ task = "none" /\ name = "given" /\ ai \in {"live", "inactive"}
  /\ place \in {"new", "elsewhere"}
  /\ cached = Nothing /\ fetch = Idle /\ ask = [r \in Requests |-> NoAsk] /\ stream = "none"
  /\ draft = "empty" /\ suggested = FALSE /\ naming = EmptyBag /\ edit = "none"
  /\ faults = 0 /\ overtaken = FALSE /\ missed = FALSE

Fault == faults < MaxFaults /\ faults' = faults + 1

\* A suggestion that has read nothing yet.
NewSuggestion == SetToBag({[read |-> "nothing", heard |-> TRUE]})

\* Mutant of StartStream: every stream asks for a name.
StartStreamNames(others) ==
  /\ stream' = IF stream = "none" THEN "opening" ELSE stream
  /\ suggested' = (suggested \/ stream = "none")
  /\ naming' = IF stream = "none" THEN others (+) NewSuggestion ELSE others

\* startStream: at most one stream per conversation, and one suggestion of a name per visit,
\* beside the others that are under way.
StartStream(others) ==
  /\ stream' = IF stream = "none" THEN "opening" ELSE stream
  /\ suggested' = (suggested \/ stream = "none")
  /\ naming' = IF stream = "none" /\ ~suggested THEN others (+) NewSuggestion ELSE others

\* The panel's effect, when it is mounted or what it depends on changes.
Effect(newPlace, newCached, others) ==
  IF newPlace = "chat" /\ ShouldRun(newCached) /\ ~(place = "chat" /\ ShouldRun(cached))
  THEN StartStream(others)
  ELSE naming' = others /\ UNCHANGED <<stream, suggested>>

\* The panel on show is left: its requests go on, but it is not there when they are answered.
LeftBehind ==
  [r \in Requests |-> IF ask[r].by = "shown" THEN [ask[r] EXCEPT !.by = "left"] ELSE ask[r]]

-----------------------------------------------------------------------------
(* Moving about.                                                           *)

\* The panel of the conversation is mounted.  Invalid or missing data is asked for, data more
\* than a minute old too; a request already under way serves both.  Nobody comes back while the
\* conversation is being deleted.
OpenChat ==
  /\ place # "chat" /\ row # "none" /\ edit \notin {"deleting", "deleted"}
  /\ place' = "chat" /\ draft' = "empty" /\ ask' = LeftBehind
  /\ fetch' \in IF fetch # Idle THEN {fetch}
                ELSE IF ~cached.known \/ cached.invalid THEN {Asked} ELSE {Asked, Idle}
  /\ Effect("chat", cached, naming)
  /\ UNCHANGED <<serverVars, cacheVars, edit, faults, missed>>

\* Another page of the section; streams go on, and so do the requests of the panel that is left.
OpenOther(p) ==
  /\ place # p /\ p \in {"new", "elsewhere"}
  /\ place' = p /\ draft' = "empty" /\ ask' = LeftBehind
  /\ UNCHANGED <<serverVars, cacheVars, fetch, stream, nameVars, edit, faults, missed>>

\* The provider of the streams is unmounted: they are aborted, and another visit suggests a name
\* again, though the suggestion of this one may still be under way.  In the middle of an answer
\* this counts as a fault.
LeaveSection ==
  /\ BagCardinality(naming) <= MaxLate
  /\ IF stream # "none" THEN Fault /\ missed' = TRUE ELSE UNCHANGED <<faults, missed>>
  /\ place' = "elsewhere" /\ stream' = "none" /\ draft' = "empty" /\ ask' = LeftBehind
  /\ suggested' = FALSE
  /\ UNCHANGED <<serverVars, cacheVars, fetch, naming, edit>>

\* The page is loaded again: nothing the client held survives.  What it has asked for may still
\* be done, but it does not hear of it.
Reload ==
  /\ Fault /\ BagCardinality(naming) <= MaxLate
  /\ cached' = Nothing /\ fetch' = IF place = "chat" THEN Asked ELSE Idle
  /\ ask' = [r \in Requests |-> IF ask[r].stage = "sent" THEN [ask[r] EXCEPT !.by = "gone"] ELSE NoAsk]
  /\ stream' = "none" /\ draft' = "empty" /\ overtaken' = FALSE
  /\ suggested' = FALSE /\ naming' = BagOfAll(LAMBDA s : [s EXCEPT !.heard = FALSE], naming)
  /\ edit' = CASE edit = "renaming" -> "lostRename" [] edit = "deleting" -> "lostDelete"
               [] edit \in {"lostRename", "lostDelete"} -> edit [] OTHER -> "none"
  /\ missed' = (missed \/ stream # "none" \/ \E r \in Requests : ask[r].stage # "idle")
  /\ UNCHANGED <<serverVars, place>>

-----------------------------------------------------------------------------
(* The detail query.                                                       *)

\* The window gets the focus and the data is old.
Refetch ==
  /\ place = "chat" /\ fetch = Idle /\ cached.known
  /\ fetch' = Asked
  /\ UNCHANGED <<serverVars, place, cacheVars, ask, stream, draft, nameVars, edit, faults, missed>>

FetchServed ==
  /\ fetch.stage = "asked"
  /\ fetch' = IF row # "there" THEN [stage |-> "missing"]
              ELSE [stage |-> "served", transcript |-> transcript]
  /\ UNCHANGED <<serverVars, place, cacheVars, ask, stream, draft, nameVars, edit, faults, missed>>

FetchAnswered ==
  /\ fetch.stage = "served"
  /\ cached' = Fresh(fetch.transcript)
  /\ overtaken' = (cached.known /\ Older(fetch.transcript, cached.transcript))
  /\ fetch' = Idle
  /\ Effect(place, cached', naming)
  /\ UNCHANGED <<serverVars, place, ask, draft, edit, faults, missed>>

\* Not found: the panel goes to the list of conversations.
FetchNotFound ==
  /\ fetch.stage = "missing"
  /\ fetch' = Idle
  /\ cached' = [cached EXCEPT !.ok = FALSE]
  /\ IF place = "chat" THEN place' = "elsewhere" /\ draft' = "empty" /\ ask' = LeftBehind
     ELSE UNCHANGED <<place, draft, ask>>
  /\ UNCHANGED <<serverVars, stream, nameVars, edit, faults, overtaken, missed>>

\* The request and its three retries fail; the data stays.
FetchFails ==
  /\ fetch.stage = "asked" /\ Fault
  /\ fetch' = Idle
  /\ cached' = [cached EXCEPT !.ok = FALSE]
  /\ missed' = TRUE
  /\ UNCHANGED <<serverVars, place, ask, stream, draft, nameVars, edit, overtaken>>

-----------------------------------------------------------------------------
(* The composer.                                                           *)

Type ==
  /\ place \in {"new", "chat"} /\ draft = "empty"
  /\ ~(place = "chat" /\ Gate = "conversation_full")
  /\ draft' = "filled"
  /\ UNCHANGED <<serverVars, place, cacheVars, fetch, ask, stream, nameVars, edit, faults, missed>>

\* A follow-up question is picked: setText, which replaces what was typed.
PickFollowUp ==
  /\ FollowUpsShown
  /\ draft' = "filled"
  /\ UNCHANGED <<serverVars, place, cacheVars, fetch, ask, stream, nameVars, edit, faults, missed>>

\* Enter or the button: the composer is cleared, then the question goes out.  A conversation
\* is created once; what else is started is not this conversation.
Send ==
  /\ ComposerEnabled /\ draft # "empty"
  /\ place = "new" =>
       row = "none" /\ ~\E r \in Requests : ask[r].stage = "sent" /\ ask[r].to = "new"
  /\ draft' = "empty"
  /\ \E r \in Requests :
       /\ ask[r] = NoAsk
       /\ ask' = [ask EXCEPT ![r] = [stage |-> "sent", to |-> place, by |-> "shown",
                                    transcript |-> <<>>]]
  /\ missed' = (missed \/ overtaken \/ \E r \in Requests : Appending(r))
  /\ UNCHANGED <<serverVars, place, cacheVars, fetch, stream, nameVars, edit, faults>>

\* create_conversation and append_user_message; the latter answers with the whole conversation.
AskServed(r) ==
  /\ ask[r].stage = "sent"
  /\ LET accepted == /\ ai = "live"
                     /\ IF ask[r].to = "new" THEN row = "none"
                        ELSE EndsWith(transcript, {"answer"}) /\ Questions(transcript) < MaxQuestions
         asked == Append(transcript, "question")
         answer == IF ~accepted THEN [ask[r] EXCEPT !.stage = "refused"]
                   ELSE [ask[r] EXCEPT !.stage = "stored",
                                       !.transcript = IF ask[r].to = "new" THEN <<>> ELSE asked] IN
       /\ row' = IF accepted THEN "there" ELSE row
       /\ transcript' = IF accepted THEN asked ELSE transcript
       /\ ask' = [ask EXCEPT ![r] = IF ask[r].by = "gone" THEN NoAsk ELSE answer]
  /\ UNCHANGED <<task, name, ai, place, cacheVars, fetch, stream, draft, nameVars, edit, faults, missed>>

\* createConversation succeeds: the panel that is still there navigates to the conversation, whose
\* detail is invalidated; on show it is asked for again, unless its first request is under way.
Created(r) ==
  /\ ask[r].stage = "stored" /\ ask[r].to = "new"
  /\ ask' = [ask EXCEPT ![r] = NoAsk]
  /\ IF ask[r].by = "shown" THEN place' = "chat" /\ draft' = "empty" ELSE UNCHANGED <<place, draft>>
  /\ fetch' = IF place' = "chat" /\ (cached.known \/ fetch = Idle) THEN Asked ELSE fetch
  /\ cached' = [cached EXCEPT !.invalid = TRUE]
  /\ Effect(place', cached, naming)
  /\ UNCHANGED <<serverVars, edit, faults, overtaken, missed>>

\* appendUserMessage succeeds: its answer replaces the cached conversation, though a request
\* under way goes on.  The panel that has sent it starts the stream if it is still there; one
\* mounted since has the effect.
Appended(r) ==
  /\ ask[r].stage = "stored" /\ ask[r].to = "chat"
  /\ ask' = [ask EXCEPT ![r] = NoAsk]
  /\ cached' = Fresh(ask[r].transcript)
  /\ overtaken' = (cached.known /\ (Older(ask[r].transcript, cached.transcript)
                                    \/ /\ cached.invalid \/ overtaken
                                       /\ ask[r].transcript = cached.transcript))
  /\ IF ask[r].by = "shown" THEN StartStream(naming) ELSE Effect(place, cached', naming)
  /\ UNCHANGED <<serverVars, place, fetch, draft, edit, faults, missed>>

AskRefused(r) ==
  /\ ask[r].stage = "refused"
  /\ ask' = [ask EXCEPT ![r] = NoAsk]
  /\ UNCHANGED <<serverVars, place, cacheVars, fetch, stream, draft, nameVars, edit, faults, missed>>

\* The request or its answer is lost.
AskFails(r) ==
  /\ ask[r].stage \in {"sent", "stored"} /\ Fault
  /\ ask' = [ask EXCEPT ![r] = NoAsk] /\ missed' = TRUE
  /\ UNCHANGED <<serverVars, place, cacheVars, fetch, stream, draft, nameVars, edit>>

-----------------------------------------------------------------------------
(* The stream.                                                             *)

\* execute_completion answers: a stream, or a refusal, after which the entry is dropped.
StreamOpened ==
  /\ stream = "opening"
  /\ IF EndsWith(transcript, {"question"}) /\ ai = "live"
     THEN /\ stream' = "open" /\ task' = "working"
          /\ transcript' = Append(transcript, "pending")
     ELSE stream' = "none" /\ UNCHANGED <<task, transcript>>
  /\ UNCHANGED <<row, name, ai, place, cacheVars, fetch, ask, draft, nameVars, edit, faults, missed>>

\* The completion settles its answer, if the row is still there, and sends its final event.
Settled ==
  /\ task = "working"
  /\ task' = "told"
  /\ transcript' = IF EndsWith(transcript, {"pending"})
                   THEN [transcript EXCEPT ![Len(transcript)] = "answer"] ELSE transcript
  /\ UNCHANGED <<row, name, ai, place, cacheVars, fetch, ask, stream, draft, nameVars, edit, faults, missed>>

\* Mutant of FinalEvent: a request already under way is left to serve.
FinalEventJoinsFetch ==
  /\ stream = "open" /\ task = "told"
  /\ stream' = "none" /\ task' = "none"
  /\ IF place = "chat"
     THEN fetch' = (IF fetch = Idle THEN Asked ELSE fetch) /\ UNCHANGED missed
     ELSE missed' = (missed \/ fetch # Idle) /\ UNCHANGED fetch
  /\ cached' = [cached EXCEPT !.invalid = TRUE]
  /\ UNCHANGED <<row, transcript, name, ai, place, ask, draft, nameVars, edit, faults, overtaken>>

\* Mutant of FinalEvent: the conversation is invalidated, but not asked for again.
FinalEventAsksNothing ==
  /\ stream = "open" /\ task = "told"
  /\ stream' = "none" /\ task' = "none"
  /\ cached' = [cached EXCEPT !.invalid = TRUE]
  /\ UNCHANGED <<row, transcript, name, ai, place, fetch, ask, draft, nameVars, edit, faults, overtaken, missed>>

\* The final event: the entry is dropped and the conversation invalidated; when it is on show
\* it is asked for again, whatever request is under way: the first one is over, since the stream
\* was begun on what it brought.
FinalEvent ==
  /\ stream = "open" /\ task = "told"
  /\ stream' = "none" /\ task' = "none"
  /\ IF place = "chat"
     THEN fetch' = Asked /\ UNCHANGED missed
     ELSE missed' = (missed \/ fetch # Idle) /\ UNCHANGED fetch
  /\ cached' = [cached EXCEPT !.invalid = TRUE]
  /\ UNCHANGED <<row, transcript, name, ai, place, ask, draft, nameVars, edit, faults, overtaken>>

\* The connection breaks, or the stream ends without a final event.
LoseStream ==
  /\ stream \in {"opening", "open"} /\ Fault
  /\ stream' = "none" /\ missed' = TRUE
  /\ UNCHANGED <<serverVars, place, cacheVars, fetch, ask, draft, nameVars, edit>>

\* Nobody reads the final event of an abandoned stream.
TaskForgotten ==
  /\ task = "told" /\ stream # "open"
  /\ task' = "none"
  /\ UNCHANGED <<row, transcript, name, ai, place, cacheVars, fetch, ask, stream, draft, nameVars, edit, faults, missed>>

-----------------------------------------------------------------------------
(* Its name, and its deletion.                                             *)

\* patchConversationCaches: an answer that has the conversation's row goes beside the messages in
\* the cache.  The data then counts as new: what had made the messages invalid is forgotten.
RowInCache(others) ==
  IF cached.known
  THEN /\ cached' = [cached EXCEPT !.ok = TRUE, !.invalid = FALSE]
       /\ overtaken' = (overtaken \/ cached.invalid)
       /\ Effect(place, cached', others)
  ELSE naming' = others /\ UNCHANGED <<cacheVars, stream, suggested>>

\* suggest_conversation_name reads the row, and asks the model.
SuggestRead(s) ==
  /\ BagIn(s, naming) /\ s.read = "nothing"
  /\ row = "there" /\ ai = "live"
  /\ naming' = (naming (-) SetToBag({s})) (+) SetToBag({[s EXCEPT !.read = name]})
  /\ UNCHANGED <<serverVars, place, cacheVars, fetch, ask, stream, draft, suggested, edit, faults, missed>>

\* It writes the row whole, with the model's name, or with the one it has read when the model
\* fails; then it answers.
SuggestWritten(s) ==
  /\ BagIn(s, naming) /\ s.read # "nothing" /\ row = "there"
  /\ name' \in {"given", s.read}
  /\ IF s.heard THEN RowInCache(naming (-) SetToBag({s}))
     ELSE naming' = naming (-) SetToBag({s}) /\ UNCHANGED <<cacheVars, stream, suggested>>
  /\ UNCHANGED <<row, transcript, task, ai, place, fetch, ask, draft, edit, faults, missed>>

\* It is refused, fails, or is lost on its way: nobody is told.
SuggestDropped(s) ==
  /\ BagIn(s, naming)
  /\ naming' = naming (-) SetToBag({s})
  /\ UNCHANGED <<serverVars, place, cacheVars, fetch, ask, stream, draft, suggested, edit, faults, missed>>

\* An entry of ConversationActionsMenu, and its dialog's button.  One rename or deletion is under
\* way at a time.
Confirm(request) ==
  /\ place = "chat" /\ cached.known /\ edit = "none" /\ request \in {"renaming", "deleting"}
  /\ edit' = request
  /\ UNCHANGED <<serverVars, place, cacheVars, fetch, ask, stream, draft, nameVars, faults, missed>>

\* update_conversation, and its answer.
Renamed ==
  /\ edit \in {"renaming", "lostRename"}
  /\ edit' = "none"
  /\ name' = IF row = "there" THEN "chosen" ELSE name
  /\ IF edit = "renaming" /\ row = "there" THEN RowInCache(naming)
     ELSE UNCHANGED <<cacheVars, stream, nameVars>>
  /\ UNCHANGED <<row, transcript, task, ai, place, fetch, ask, draft, faults, missed>>

Deleted ==
  /\ edit \in {"deleting", "lostDelete"}
  /\ edit' = IF edit = "deleting" THEN "deleted" ELSE "none"
  /\ row' = "deleted" /\ transcript' = <<>>
  /\ UNCHANGED <<task, name, ai, place, cacheVars, fetch, ask, stream, draft, nameVars, faults, missed>>

\* The query is removed, with its request, and the panel left.
DeletionAnswered ==
  /\ edit = "deleted"
  /\ edit' = "none"
  /\ cached' = Nothing /\ fetch' = Idle /\ overtaken' = FALSE
  /\ IF place = "chat" THEN place' = "new" /\ draft' = "empty" /\ ask' = LeftBehind
     ELSE UNCHANGED <<place, draft, ask>>
  /\ UNCHANGED <<serverVars, stream, nameVars, faults, missed>>

\* The rename or the deletion, or its answer, is lost.
EditFails ==
  /\ edit \in {"renaming", "deleting", "deleted"} /\ Fault
  /\ edit' = "none"
  /\ UNCHANGED <<serverVars, place, cacheVars, fetch, ask, stream, draft, nameVars, missed>>

-----------------------------------------------------------------------------
User ==
  \/ OpenChat \/ (\E p \in {"new", "elsewhere"} : OpenOther(p)) \/ LeaveSection \/ Reload \/ Refetch
  \/ Type \/ PickFollowUp \/ Send
  \/ (\E request \in {"renaming", "deleting"} : Confirm(request))

\* What happens by itself, one entry per request.
Fetching == FetchServed \/ FetchAnswered \/ FetchNotFound
Asking == \E r \in Requests : AskServed(r) \/ Created(r) \/ Appended(r) \/ AskRefused(r)
Streaming == StreamOpened \/ Settled \/ FinalEvent \/ TaskForgotten
Suggesting == \E s \in BagToSet(naming) : SuggestRead(s) \/ SuggestWritten(s) \/ SuggestDropped(s)
Editing == Renamed \/ Deleted \/ DeletionAnswered
Mishap == FetchFails \/ (\E r \in Requests : AskFails(r)) \/ LoseStream \/ EditFails

Next == User \/ Fetching \/ Asking \/ Streaming \/ Suggesting \/ Editing \/ Mishap

Spec == Init /\ [][Next]_vars

-----------------------------------------------------------------------------
(* Properties.                                                             *)

\* "Wait for the current response to finish." (getFollowUpDisabledTooltip): when the composer of
\* a conversation is enabled the server would take the question.  Sending clears the composer
\* first, so a refused question is lost.  The page never asks the server; it concludes from a
\* snapshot, its own stream and its own request.  Exempt: after news was lost, when an older
\* answer overtook, and while the server has taken the question of a panel since left and its
\* answer is still on the way: the panel that was mounted after it does not know of that request.
OfferIsHonest ==
  place = "chat" /\ ComposerEnabled /\ ~missed /\ ~overtaken /\ row = "there"
    /\ ~(\E r \in Requests : ask[r].stage = "stored" /\ ask[r].to = "chat") =>
    EndsWith(transcript, {"answer"}) /\ Questions(transcript) < MaxQuestions

\* While an answer is streamed, it is not shown a second time from the cache, and every answer
\* before it is still shown, unless an older answer overtook.
AnswersShownOnce ==
  stream = "open" /\ place = "chat" /\ cached.known /\ task # "none" /\ row = "there" /\ ~missed =>
    /\ ~EndsWith(MessagesToRender, {"pending"})
    /\ ~overtaken => Len(MessagesToRender) = Len(transcript) - 1

\* Once the page has dropped a stream and holds what it takes for the current conversation, the
\* answer is not an unfinished one, unless news was lost, or the answer to a new name passed the
\* old messages off as new.
AnswerIsFinished ==
  cached.known /\ ~cached.invalid /\ EndsWith(cached.transcript, {"pending"}) /\ stream = "none"
    /\ fetch = Idle => missed \/ overtaken

\* A name is suggested once per visit, with the first stream, and the suggestion replaces whatever
\* name the conversation has when the model has answered, one the user has chosen meanwhile too;
\* so does one of an earlier visit that comes late.  But once no suggestion is under way, a name
\* the user has stored stays, and a visit that has made its suggestion makes no other.
RenameIsKept ==
  [][name = "chosen" /\ naming = EmptyBag =>
       name' = "chosen" /\ (suggested /\ suggested' => naming' = EmptyBag)]_vars

\* The page never keeps the user waiting for nothing: while the composer waits for the data, the
\* stream or the answer, a request or a stream that will end the wait is under way, unless news
\* was lost or an older answer overtook; then it waits until the window gets the focus again.
WaitsForSomething ==
  place = "chat" /\ Gate \in {"loading", "streaming", "awaiting_response"} /\ row = "there" =>
    fetch # Idle \/ stream # "none" \/ missed \/ overtaken
=============================================================================
